# Verification of ShowRing

ShowRing is a dog-show simulation played on the web: players breed dogs, enter them in shows, trade them, and
pay for breed artwork through PayPal. The server is a Next.js application over PostgreSQL (Prisma). Its logic
lives in `apps/web/server/services`; it runs as web requests and as cron routes (`apps/web/app/api/cron`,
scheduled in `vercel.json`), many at a time, on serverless processes that may be killed between two statements.
Transactions run at READ COMMITTED, so what a process read may be stale when it writes.

This directory holds TLA+ models of the services where that matters most, the configurations that model-check
them with TLC, and TLAPS proofs of their main invariants.

| module | what it is |
|---|---|
| `ArtFunding` | what Breed Art funding promises: an atomic claim of units |
| `ArtPayments` | checkout, return page, finalization and reconciliation with PayPal; implements `ArtFunding` |
| `ArtPaymentsProofs` | proofs about `ArtPayments`, including the refinement |
| `ShowJudging` | one show cluster: entries, the judging route, the finalization route |
| `ShowJudgingProofs`, `ShowFinalsProofs` | proofs about `ShowJudging`; the second one about finals and closed days, with the lemmas of the first |
| `ArtWebhook` | the inbox of PayPal's events in front of the reconciliation; composes with `ArtPayments` |
| `ArtWebhookProofs` | proofs about `ArtWebhook`: it implements `ArtPayments`, and what it adds |
| `PuppyBack` | the selection and transfer of the puppy a stud contract owes |
| `PuppyBackProofs` | proofs about `PuppyBack` |
| `DamRecords` | the rows that breeding, stud contracts, emergencies and sales share |
| `StudContracts`, `Breeding`, `WhelpingEmergency` | contract requests and Return Services; breeding attempts; reproductive emergencies |
| `DamLife` | composes them with the dam's death, accidents and sale |
| `DamLifeProofs`, `LitterProofs` | proofs about `DamLife`; the second one about litters, with the lemmas of the first |
| `SupportSubscriptions` | one player's support subscriptions at PayPal |
| `SupportProofs` | proofs about `SupportSubscriptions` |
| `MCArtPayments`, `MCArtWebhook`, `MCShowJudging`, `MCPuppyBack`, `MCDamLife`, `MCSupport` | small instances for TLC |

Run a configuration with `tlc -config ShowFinals.cfg MCShowJudging` (`PROJECT.json` names the MC module of each
`.cfg`) and a proof with `tlapm ArtPaymentsProofs.tla`.

## 1. Inventory

Service names below are files `apps/web/server/services/<name>.service.ts`. `PROJECT.json` lists the same
components with all their sources, and every hazard at its line.

### Modelled, in whole or in part

**Breed Art payments** (`artPaymentAttempt`, `artPaymentFinalization`, `artPaymentReconciliationRunner`,
`artworkCompletion`)
- State: `ArtPaymentAttempt` rows (status, the provider's ids, the request ids, reserved units), unique
  `ArtContribution` rows, `ArtCampaign.status`; and, at PayPal, an order, its authorization and its capture.
- Operations: start a checkout, return from PayPal (approved or cancelled), finalize (authorize, reserve, capture,
  fund, or void), reconcile (cron every 5 minutes, webhooks, or a retry by the player), complete the artwork.
- Interaction: player's requests, cron passes and webhook deliveries work on one row; transactions that must agree
  on the sum lock the campaign row (`SELECT ... FOR UPDATE`); PayPal is called outside transactions.
- Hard: answers that never arrive, kills between PayPal and the database, overlapping requests deciding on old rows.
- Correct when: the goal is never exceeded; captured money becomes one contribution; what a player is told about
  being charged is true; nothing stays pending for ever.

**Judging and show finalization** (`judging`, `publishShowResultsJob`; parts of `grandChampion`, `prestige`,
`showEntry`)
- State: `ShowCluster`, `ShowDay`, `ShowJudgingBlock`, `ShowEntry`, `ShowResult`, `ShowAward`, grand champion and
  prestige credits.
- Operations: enter and pull a dog; judge the blocks of the earliest due day (every minute); close empty days, write
  group finals, Best in Show, credits and prestige, publish (every two minutes).
- Interaction: runs of either route may overlap with each other, with player requests, deaths and account closings.
  A block is taken by a conditional update to `JUDGING`, which is the only mutual exclusion there is.
- Hard: overlapping runs, errors half way, kills under a claim, state read before and used after other commits.
- Correct when: every block is judged once, finals see every breed, a published day is complete and stays so, a
  claim is given back, every due day is settled.

**Puppy Back stud contracts** (`studContractPuppySelection`, `studContractPuppyProtection`, `studContractLifecycle`;
parts of `market`, `rehome`, `accountClosure`, `lifecycle`)
- State: one `StudContractPuppySelection` row per contract, and each puppy's owner and life.
- Operations: the dam owner's and the stud owner's pick, expiry of a turn, reconciliation of a death, transfer at
  Day 56; and sale, rehoming, retirement and death of the litter's puppies.
- Interaction: owners' requests, the lifecycle route (every 5 minutes), the mortality route (every minute), and the
  market, which asks `evaluateStudContractPuppyProtection` before it moves a puppy.
- Hard: deadlines that race an answer, protection read before the move, a puppy that dies between pick and transfer.
- Correct when: the picked puppy is not given away, only it is transferred, outcomes are final, every selection ends.

**Breed Art webhook inbox** (`artPaymentWebhook`, `artPaymentProviderEventReplayRunner`)
- State: one `ArtPaymentProviderEvent` row per event (RECEIVED, PROCESSED, IGNORED, FAILED).
- Operations: receive an event, duplicates included; find its attempt and have it reconciled; write the outcome;
  replay what failed (hourly).
- Interaction: deliveries, replays and the reconciliation cron work on one attempt, and with the player's requests.
- Hard: duplicate, early and late deliveries, failures and kills between storing and concluding.
- Correct when: an event is put away only when its money counts; a failed event is taken up again until it succeeds.

**Breeding, stud contracts, emergencies** (`breeding`, `breedingEligibility`, `studContractRequest`,
`studContractReturnService`, `studContractLifecycle`, `reproductiveEmergencyResolution`,
`reproductiveEmergencyTreatment`, `emergencyVetCare`; parts of `lifecycle` and `market`)
- State: the dam's row, her breeding attempts, the contracts she was bred under and their Return Services, her
  reproductive emergencies, her accident, her listing.
- Operations: request, approve, decline and expire a contract; breed in four ways; check and whelp; treat, decline and
  resolve an emergency; treat, decline and expire an accident; sell the dam; let her die.
- Interaction: two owners' requests, pages that resolve due breedings, the breeding progress, stud contract, emergency
  and mortality routes. Only some of the transactions lock the dam's or the contract's row.
- Hard: a handler that commits what it decided on rows other handlers have changed; a death written in five statements.
- Correct when: an agreement is bred once, a treatment paid once, what was decided stays decided, nothing waits or
  carries for ever.

**Support subscriptions** (`supportSubscription`, `paypalSupport`, `paypalWebhook`)
- State: `SupportSubscription` rows with their tier periods, `SupportSubscriptionChange` rows (an upgrade has its own
  target subscription, a downgrade revises its source), `SupportProviderEvent` rows; at PayPal the subscription, its
  plan, a requested revision and its payments.
- Operations: subscribe, upgrade (approve the target, promote it, cancel the source), schedule a downgrade, cancel,
  reconcile, expire a cancelled period, receive events.
- Interaction: every handler reads PayPal outside the transaction that writes; requests that create something hold the
  player's row lock while they talk to PayPal.
- Hard: payment events out of order, stale readings, a cleanup that fails or whose answer is lost after the promotion.
- Correct when: levels, payment state and changes agree with PayPal; a replacement stops exactly what it replaced.

### Not modelled yet, and what makes them correct

| component | state and operations | what is hard | correct when |
|---|---|---|---|
| Kennel economy (`economy`, written by entries, market, health, grooming, breeding) | balance and ledger rows; reward claims | `balanceAfter` is computed from a balance read earlier, without a lock | the balance is the sum of the ledger (`docs/ARCHITECTURE/economy-ledger-invariant-audit.md`) |
| Dog market (`market`), whole | listings: list, buy, cancel, expire | two buyers both read `ACTIVE` | a listing is sold once; the buyer who paid owns the dog |
| Bulk entry (`showEntry`, planner) | entries, fees, handlers, weekend rule | fee and entries in one transaction, balance read before | every entry is paid, limits hold |
| Mortality (`lifecycle`), whole | one death across entries, listings, breedings and selections | each is modelled with the component it disturbs, not all at once | nothing live refers to a dead dog |
| Titles (`titleProgress`) | sums over awards | two writers, each from its own reading | the stored sum is that of all awards |
| Health, grooming, stewarding, foundation dogs | priced services, daily limits | balance and limit read before | as for the economy |

The rest has no concurrent logic of its own and is left out: schedules and judges' assignments (deterministic
generators and one-time repairs), breed data and the rules engines in `packages/rules` (pure functions over randomness),
kennels, messages, notices and planners (single statements or read models), authentication, and the React pages,
which matter only where they keep one player's requests from overlapping.

## 2. How the models correspond to the code

Common conventions. A database statement, or a transaction under a row lock, is one step; a transaction that reads
without a lock and writes later is two, and so is every `await` between a read and a dependent write outside a
transaction. Each process has a program counter and remembers what it read (`snap` in `ArtPayments`, the fields of
`job`, `request`, `move`, ... elsewhere). A kill returns the process to rest and rolls an open transaction back.

### ArtPayments

| model | code |
|---|---|
| `StartCheck`, `StartAttempt`, `StartOrder`, `StartSave` | `startArtPaymentAttempt`, `createOrReconcilePayPalOrder` |
| `ReturnRead`, `ReturnReadUnordered`, `ReturnOrder`, `ReturnSave` | `getArtPaymentAttemptForReturn` |
| `FinalizeRead` ... `AuthorizeSave` | `finalizeArtPaymentAttempt` to the authorization |
| `ReserveLock`, `ReserveWrite`, `Dispatch` | `reserveAttempt` under the campaign lock, and what follows its row |
| `CaptureId`, `Capture`, `CaptureSave` | the capture and its three outcomes |
| `CapturedRead`, `Fund` | `finalizeCapturedAttempt`: read, then lock and decide on that reading |
| `VoidId`, `Void`, `VoidRetry`, `Release` | `voidArtAuthorization`, `releaseReservation` |
| `CronPicks`, `WebhookPicks`, `Reconcile`, `Rec...` | the runner's selection and `reconcileArtPaymentAttempt` |
| `CompleteArtwork` | `completeArtCampaignArtwork` |

PayPal is modelled from its use: a repeated request id returns the first answer, an authorization is captured or
voided at most once, any call may be lost before or after it took effect, an approved order, an authorization and a
pending capture may change at any time. A 4xx answer to a capture means it was not made under that request id.
Order amounts and currencies always agree. `SingleTab` says whether one player's requests for an attempt may
overlap: the page disables its button, but a second tab or a reload does not know of it.

### ShowJudging

| model | code |
|---|---|
| `Enter`, `CommitEntry`, `Pull`, `CommitPull` | `createShowEntry`, `pullShowEntry` |
| `Disqualify` | the entries' part of a death (`lifecycle`) and of an account closing |
| `SelectBlocks`, `ReadBlock`, `EndRun` | `runPublishShowResultsJob`, its list, order and runtime budget |
| `Claim`, `Prepare`, `Check`, `WriteCancelled`, `WriteResults`, `Release` | `judgeShowBlock` |
| `StartFinalizer` ... `Publish` | the finalization route: `cancelReadyEmptyShowDay`, `finalizeReadyShowDayResults`, its phases in order |
| `JudgeError`, `FinalError`, `Crash` | a database error in a phase, the route's `catch`, a kill |
| `Unanswered` | the claim's or the release's own update fails, or is made and its answer lost: nothing is given back, the run goes on with the next block |

Ranks, points and titles are left out: an award is that it was written, `finals[d]` is the set of blocks whose Best of
Breed took part. An epoch is an hour; `Prompt` says whether a request commits in the hour whose clock it read.
`LateDeaths` says whether an entry may be disqualified while its own block's results are being written (see 5). Two
variables are history: `lost` counts unanswered claims and releases, `cut` has the days whose prestige credits a run had
deleted when it stopped.

### PuppyBack

| model | code |
|---|---|
| `ReadPick`, `WritePick` | the two `select...` requests: conditions on dog and turn, then a conditional update |
| `ReadMove`, `Sell`, `Rehome`, `ReadClosing`, `Close` | `market`, `rehome`, `accountClosure`, with the protection they ask for |
| `Die`, `ReadDeath`, `Reopen` | the mortality route and `reconcileSelectedStudContractPuppyDeath` |
| `StartRun`, `ReadTurn`, `Pass`, `Forfeit`, `FindDeath`, `JobReopen`, `LockTransfer`, `Transfer` | `process-stud-contract-lifecycle` |

The initial state is the birth, which opens the selection in its own transaction. The listing of a puppy is folded
into its sale, because age and protection are checked again at the purchase. Notices are left out.

### ArtWebhook

| model | code |
|---|---|
| `Receive` | `processVerifiedArtPaymentWebhook`: the row is created, or the duplicate found |
| `Replay` | `replayFailedArtPaymentProviderEvent`, for one event of the runner's batch |
| `Resolve`, `Unresolved`, `Conclude` | `processArtProviderEvent`: the lookup, and its outcome in either branch |
| `Works`, `WorkFails` | `reconcileArtPaymentAttempt`, the steps of `ArtPayments`, returning or throwing |
| `DiesAtWork`, `DiesBetween` | a kill |

The module extends `ArtPayments` and adds the variables `inbox` and `mail`; a worker takes the steps of the
reconciliation while it serves an event. `Conclude` may also write FAILED when writing the outcome failed. An event exists
once what it tells has happened (`Happened`) and is delivered any number of times after that.

### DamRecords, StudContracts, Breeding, WhelpingEmergency, DamLife

| model | code |
|---|---|
| `RequestContract`, `DeclineContract`, `ExpireContract`, `ExpireService` | `createManualStudContractRequest`, the decline route, the two expiry passes of the lifecycle route |
| `BeginBreed`, `CommitBreed` | `createBreedingAttemptForKennel`: what is read before the transaction; what it locks, repeats and writes, for the four kinds (own stud, automatic offer, approved request, Return Service) |
| `BeginCheck`, `CommitCheck`, `BeginWhelp`, `CommitWhelp` | `resolveDueBreedingProgress` for one attempt |
| `BeginTreat`, `CommitTreat`, `BeginRefuse`, `CommitRefuse` | `authorize...` and `declineReproductiveEmergencyTreatment` |
| `BeginResolve`, `CommitResolve` | `resolveReproductiveEmergencyEvent`, with the dam's recovery, sterility or death |
| `DieMark` ... `DieRepay`; `DiesAfter` | a death: statement by statement in the mortality route; one step inside a transaction |
| `BeginOpen` ... `ExpireCare` | `emergencyVetCare`: opening, treating, declining, expiring an accident |
| `BeginBuy`, `CommitBuy` | `buyPlayerDogListing` |
| `Abort` | a refused condition, a rollback, a kill |

A process is one handler: `Begin...` is what it reads, `Commit...` its transaction with exactly the conditions the code
repeats there. Deadlines are Booleans that time sets. The outcome of an attempt (`seed`) is drawn at its creation,
as `rngSeed` is. `life` holds the bounds of a behaviour; `life.overlapping` says whether two runs may resolve the same due
attempt at a time.

### SupportSubscriptions

| model | code |
|---|---|
| `Deliver`, `Verify`, `Synchronize`, `Settle`, `Mark` | `processVerifiedPayPalWebhook` with `synchronizeVerifiedPayPalSubscription` and what follows it |
| `ReconcileTarget`, `ReconcileCanonical` | `reconcilePayPalSupportSubscription` |
| `Advance`, `Promote`, `LookAtSource`, `CancelSource`, `RetireSource`, `Complete`, `CleanupOutage` | `advanceSupportSubscriptionChange` |
| `Create`, `Upgrade`, `Downgrade`, `AskPayPal`, `Commit` | `createPayPalSupportSubscription`, `...Change`, `createScheduledPayPalSupportDowngrade`, under the player's row lock |
| `Cancel`, `Intend`, `Stop`, `Withdraw`, `Lapse` | `cancelPayPalSupportSubscription`, `finalizeElapsedCancellation` |
| `AtPayPal`, `Leaves`, `Bill` | PayPal and the player there |

Dates are reduced to their order: the n-th payment has time n, and `paid` says whether the paid period's end lies ahead.
Only payment events are recorded in `event`, because a duplicate of any other event repeats a look at PayPal and nothing
else. A payment (`Bill`) may come at any time, also while handlers hold what they read before it. The field `late` of a
row is history: it names the payment that had overtaken the reading which the row's last outdated status was taken from. A
cancelled subscription of which PayPal names a next billing time becomes CANCELLATION_SCHEDULED (`Answers`).

## 3. Runs

| run | instance | what it shows |
|---|---|---|
| `art_contention` | 2 attempts want 3 of 2 units, 2 requests each, 1 worker; 110 000 states | the goal holds, captured money keeps its units, promises fit, contributions are paid, VOIDED is not charged, and every step is one of `ArtFunding` |
| `art_attempt` | 1 attempt, 3 requests in sequence, the event of its capture, 1 worker, fair; 9 600 | what the player is told is true, COMPLETED is final, an unclear capture is funded, a void is finished, no event is put away early, a failed one recovers |
| `art_abandoned` | the same | **violated**: a capture followed by a kill is never funded |
| `art_stale_cancel` | 1 attempt, overlapping requests | **violated**: CANCELLED over captured money |
| `show_judges` | 1 block, 2 entries, 2 judging runs, 1 finalizer, 2 errors, 1 unanswered claim or release, 1 kill, late deaths and commits; 2.1 million | a block is judged once and leaves no entry waiting; a claim is given back but for a kill, an unanswered update, or a run that restores the JUDGING it had read |
| `show_finals` | 1 day of 2 blocks, 2 + 2 runs, 1 error; 4.1 million | finals see every breed, a published day is complete and a cancelled one empty, its prestige credits are there or about to be, unless a run stopped after it had deleted them |
| `show_retry` | 2 days of 2 and 1 blocks, 1 + 1 runs, 1 error, 1 unanswered claim or release, 1 kill, fair; 440 000 | the cluster completes last; every day settles, unless a claim of it or of an earlier day is left behind for good |
| `show_wedge` | 1 day of 2 blocks, 2 + 1 runs, 2 errors | **violated**: a claim no run holds |
| `show_rewrite` | 1 day of 2 blocks, 1 + 2 runs | **violated**: credits of a published day are rewritten |
| `puppy_back` | 2 puppies, both pick positions, 1 lifecycle run, 1 kill, fair; 630 000 | the pick is kept, only it is transferred, outcomes are final, every selection ends |
| `stud_breeding` | 1 dam, 3 attempts, 1 contract, 2 processes, seven lives, fair; 293 000 | an agreement is bred once, No-Litter is repaid, treatments are paid once, one litter per attempt, decisions are final, deadlines are kept, breedings end |
| `support` | 3 subscriptions, 2 levels, 2 handlers, five stories, fair; 183 000 | the level history follows the row, the newest payment wins (but over a status read before it), a downgrade is PayPal's, a replacement is exact, its cleanup ends |

### Bounds and why they are enough

- *Two of each.* The conflicts are between pairs of processes (two claims, two finalizations, a run and a request).
  `art_contention` has four requests so that each attempt can be retried while the other one is at work; a third
  request in `art_attempt` is needed for start, finalize and a retry. Three units wanted of two
  make the attempts exclude each other, one of them asking for more than the other leaves.
- *Two blocks a day* are enough for finals that would miss a breed; two days for the order of days and the completion of
  the cluster; one block with two entries for a fit entry next to an unfit one.
- *Errors and kills* (`MaxFails`, `MaxCrashes`, `MaxLost` for unanswered claims and releases) are at most one or two: every
  error gives the block or day back to a later run, an unanswered release leaves it for good, and one more would repeat the
  same situation. In `ArtPayments` kills are unbounded.
- *The clock.* `ShowJudging` stops an hour after the last day is due. `PuppyBack` counts turns of length 1 and
  `Day56 = 3`, which keeps the order 24 < 48 < 56 of the code's hours; `Horizon` is one unit later. A process sees the
  clock advance once at most, as requests last seconds and runs minutes.
- *Seven lives* (`MCLives`). All of a dam's life at once has too many states; a life bounds which attempts lie behind
  her, which outcomes her attempts may have, and which of two processes serve requests or run jobs. The first three
  follow a job and a request: two breedings in a row, with Return Services, emergencies and the death; one of a dam for
  sale, by runs that overlap; one of a dam whose accident may still come. The other four let two requests be after
  the same thing, with the job next to them: a Return Service, an approval, the treatment of an emergency, and an accident
  or a purchase. An attempt stays free after both, so that the second one is refused by the code and not by the bound.
- *Five stories* (`MCSupport`): payments that fail and recover while two handlers work; an upgrade with overlapping
  events; every change, with the reconcile button and a player who leaves; an upgrade asked for again with a third
  subscription; a downgrade that is cancelled, with overlapping handlers. A story names what may be asked for, how many
  handlers work at a time and how many payments each subscription may have. Next to payments one handler at a time looks at
  PayPal for another reason, which is enough for what it read to be overtaken. The reconcile button is in the third only: what
  it reads of PayPal and writes, an event without a payment does as well.
- *Overlap of the lifecycle route.* `puppy_back` has one run, which interleaves with owners, deaths and moves. The
  safety properties were also checked with two runs and no kill (3.7 million states), too long to repeat here
  together with the liveness.

Deadlock is not checked where the system may stop: requests end, campaigns are drawn, days settle, dams die, and the
payments of a story run out. `puppy_back` checks it (the lifecycle route always runs again).

## 4. Fairness

- `ArtPayments`: each process that is going takes its next step, and the worker's steps for an attempt happen again
  and again if they are possible again and again (strong fairness). The cron route is scheduled for ever and takes
  the oldest attempts first, so each one has its turn; PayPal is not down for ever. No fairness is assumed of the
  player, of the webhooks, of the expiry of an authorization, or of a request being made at all.
- `ShowJudging`: the clock advances, open request transactions end, and each cron route keeps being invoked and its
  statements return. Errors, unanswered updates and kills are not fair, they are bounded; what one of them leaves behind
  for good (a claim nobody gives back) is named in `EveryDaySettles`, as no run can mend it.
- `PuppyBack`: the clock advances, what has begun ends, each lifecycle run goes on and is started again. No owner is
  assumed to pick, no puppy to die.

- `ArtWebhook`: as `ArtPayments`, and a handler that is not killed goes on, and the replay route comes again and again
  for every event that failed. `FailedEventsRecover` assumes that outages end (`OutagesEnd`): a handler that is killed or
  a provider that is down each time would leave the event FAILED for ever. No delivery is fair.
- `DamLife`: deadlines pass, a handler ends or aborts, the expiry of contracts, services and accidents runs again and
  again; while attempts are due, some run or page begins to resolve one again and again, and not every resolution fails.
  Nobody is assumed to answer, to treat, to breed or to die.
- `SupportSubscriptions`: a handler goes on, and PayPal has an event of every subscription again and again (a monthly
  payment has events for ever). `CleanupEnds` assumes that outages end. Nothing is assumed of the player, of approvals or
  of the payment events themselves.

`Crash`, `Abort` and `Dies` have no fairness of their own anywhere. Where a run has fairness, its `violation` is a behaviour that satisfies it.

## 5. Findings

1. `art_abandoned`. "A successful PayPal payment must create exactly **one canonical contribution**"
   (`docs/Breed_Art_Funding_Plan.md:213`). The status CAPTURE_PENDING is written before the call; a process killed
   after PayPal captured leaves it, the cron selects only RECONCILING and VOID_PENDING, and
   `reconcileArtPaymentAttempt` ignores CAPTURE_PENDING without a capture id. The money is taken, the units stay
   reserved, and no background work ever comes back to it (a new finalization by the player would).
2. `art_stale_cancel`. The page of a CANCELLED attempt says that nothing was charged. The return page writes that
   status by id from a row it read before asking PayPal; a finalization in another tab may be captured under it.
3. `show_wedge`. A failed judging run restores the status it had read *before* its claim. If that was JUDGING, of a run
   that gave the block back in between, the block is JUDGING with nobody at work, and no run can claim it.
4. `show_rewrite`. "Results-published ShowDays are immutable historical facts" (`grandChampion.service.ts:473`) is
   guarded by a status read before the writes: the slower of two finalizers rewrites the credits of the day that the
   faster one published.

Modelling also met the following, which has no run of its own and is recorded among the hazards or here:

- With two tabs and three requests on two attempts, `ReservationsFit` fails: the stale cancel of finding 2 overwrites
  RESERVED, and the units are promised again. This is why `art_contention` sets `SingleTab`.
- An overlapping finalization whose capture is refused, because the other one made it, writes FAILED over it
  (`artPaymentFinalization:48` does not look at the status). `FailedIsNotCharged` holds for requests in sequence.
- A block stays JUDGING when a run is killed between its claim and its release, when the release itself fails
  (`judging:1369`, inside the `catch`), or when the claim was made and its answer is lost (`judging:939`, before the `try`).
  Later days of all clusters wait for it, as the earliest due day is always taken. `ClaimIsGivenBack` says that there are no
  other ways but that of finding 3, and `EveryDaySettles` excepts the days that wait for such a block.
- A finalizer that is late deletes the prestige credits of a day another one publishes, before it creates them again; if
  it fails or is killed in between, they are gone, and as the day is published nobody creates them again
  (`prestige:246`). `PrestigeIsKept` is checked with two finalizers and excepts exactly the days where that happened (`cut`).
- After an outage, a later due day may be judged before the earlier one has its finals, against the comment at
  `publishShowResultsJob:285`.
- A pulled entry may be judged, if the pull commits after the comparison of the judging transaction.
- The last entry of a day is disqualified, and a finalizer closes the day as empty, between the comparison and the
  first write of a judging transaction: the write sets the CANCELLED day back to JUDGING and publishes the block. After
  the first write row locks prevent it. `LateDeaths = FALSE` excludes this in the runs whose properties it breaks
  (`ClosedDayIsSettled`, `CompleteClusterIsSettled`).
- `maybeCompleteCluster` (`judging:838`) runs only when a day is published: if the last day to settle is cancelled, the
  cluster never becomes COMPLETE. Only the displayed status waits for it.
- A process killed after storing a PayPal event leaves it RECEIVED, which the replay does not select; an event that comes
  before the row names its resource is IGNORED for ever; a FAILED event that no row names is replayed for ever and, being
  the oldest, takes one of the ten places of every batch. A late duplicate may write FAILED over PROCESSED.
- A puppy picked while the dam owner's account was being closed stays SELECTED and RETIRED. `SelectionEnds` says so.
- With two tabs of one owner, an in-flight pick, a late death and a rehoming could together give the pick away; the page
  (`StudContractPuppySelectionActions.tsx:22`) waits for the answer, and the model has one request per owner.
- A death in a transaction and a transfer lock the dog's and the selection's row in opposite orders
  (`studContractLifecycle:263`); the database aborts one of them, which the model allows as a kill.
- If the dam owner keeps the only puppy that fits, the stud owner's turn is forfeited rather than unfulfillable.

In the breeding world:

- Of two overlapping resolutions of a pregnancy check, the slower one writes over what the attempt has become
  (`breeding:547`): a WHELPED or FAILED attempt is PREGNANT again and nothing resolves it. `BreedingEnds` and
  `OneLitterPerAttempt` state what holds when one run at a time resolves an attempt.
- A breeding with a stud of the kennel repeats none of its checks on the dam under a lock (`breeding:1407`): two of them
  leave two active attempts, and a dam that was sold or died meanwhile is bred.
- A declined or expired emergency whose attempt no longer awaits it throws outside any `try`; as the first by deadline it
  stops every later run of the job (`reproductiveEmergencyResolution:100`).
- A litter that survives an emergency never reaches the contract: neither its count nor the selection of a puppy nor a
  Return Service. `docs/stud-contract-source.md:94` says the count is frozen at litter creation.
- After a dam's first emergency the cooldown of her later whelpings is ignored (`breedingEligibility:82`).
- A death extinguishes the Return Services before it opens the one for the breeding it ended (`lifecycle:427`): that one
  is available for a dead dam until its deadline.
- A late Return Service is marked EXPIRED by a handler that then throws, which rolls the mark back (`breeding:1391`).
- A Return Service locks its row and then the dam's, a sale writes the dam and then the services: one may be aborted.

In the support subscriptions, where tests of the repository (`apps/web/scripts`) say otherwise of a sequential run:

- A delayed PAYMENT.FAILED event, or any sync with an older reading, reopens a row that has ENDED
  (`supportSubscription:252`, against `testPayPalWebhookIntegration.ts:51`).
- A sync that still reads ACTIVE clears the cancellation intent (`:268`); the cancellation that follows is then taken for
  the end, and the paid rest of the period is not recognised (against `testSupportCancellation.ts:18`).
- Two overlapping advances of one upgrade: the slower one's failure turns COMPLETED into CLEANUP_FAILED.
- A player who asks again for an upgrade that PayPal has activated in between gets a second target; the change is
  ABANDONED, nothing cancels the first target, and with two current rows no subscription counts (`:165`).
- A reconciliation or an event reads SUSPENDED, the payment is tried again and succeeds, its event is processed, and the
  slower handler writes PAYMENT_RETRY (`supportSubscription:258`). The row says so until the event of the next payment,
  although `testSupportPaymentRetryLifecycle.ts:23` asserts "stale failure cannot undo recovery". `LatestPaymentWins` excepts the
  status written from such a reading (`late`), not the times of failure and recovery, which stay right.
- A row that ends by a sync keeps its tier period open; a pending downgrade whose source ends stays live and blocks every
  other change; a suspended source of an upgrade is never cleaned up; an event that comes before the transaction of its
  subscription commits is IGNORED; a lapsed subscription inside a transaction makes it open another on the same client,
  which throws.

## 6. Proofs

TLAPS checks the following for **every** value of the constants that the `ASSUME`s allow: any number of attempts, units,
requests, workers, blocks, days, runs, errors and kills, overlapping tabs, late deaths.

**ArtPaymentsProofs.** `TypeCorrect` is inductive by itself, by one lemma per kind of process (`RequestStepType`,
`ReconcileStepType`). The money theorems rest on the invariant `IInv`, because neither goal nor backing can be seen to
persist from the row alone: `Fund` relies on what its process saw several steps earlier. `IInv` says therefore
- PayPal has used up an authorization it captured (`CaptureUsesAuthorization`);
- a process on its way to a contribution saw the capture completed (`FundersSawCapture`), one on its way to VOIDED saw
  the authorization given back (`VoidersSawVoid`), and a row that says VOIDED is given back (`VoidedIsGivenBack`);
- the goal and the backing themselves.

It is preserved because PayPal never takes back what it did (`PayPalKeeps`), and because only `Fund` touches the sums,
under the campaign lock (`FundMoney`). It gives `GoalRespected`, `ContributionsPaid`, `VoidedNotCharged` and
`Implements`: `Spec => ClaimBoundary`, with `contributions` for `claimed`, where `Fund` is a `Claim`, `CompleteArtwork` is
`Draw` and all else stutters. Assumed: units are positive, the goal is positive, there is an attempt, requests have one
each, requests and workers are disjoint.

The rest needs that a player's requests for one attempt do not overlap (`SingleTab`, as in the runs; section 5 says what two
tabs do) and that the attempts are finitely many. Its invariant `Serial` adds to `IInv`
- what a row, its contribution and PayPal have to do with each other (`RowOK`): an authorization is recorded exactly in the
  statuses that come after it, all units are held exactly in the three reserved statuses, money captured or pending is in
  CAPTURE_PENDING, RECONCILING or COMPLETED, and it was captured under the request id the row names;
- what every process still knows of the row it read or wrote some steps ago (`Starting`, `Finalizing`, `Reconciling`);
- that one request at a time works on an attempt (`OneAtATime`), one process holds the campaign (`LockHeld`), and who is
  about to write a reservation still has the room it computed (`Room`), together with `ReservationsFit` itself.

It is a rely-guarantee argument: a step touches one attempt (`Frame`), `Moves` says how any step may move its row and
`Reconciles` how a worker or PayPal may, and `KnowsStays` that what the others know survives both. `RequestLocal` and
`ReconcileLocal` show it of each step and `SerialStep` puts them together. Only a grant adds to what is funded and promised
(`Spends`), and it is decided and written under one lock (`Decides`, `Room`). `Reserved` is a fold over the set of rows; that
it is a sum (`SumRemove`, `SumSame`, `SumChange`) is a matter of induction over finite sets, and as the library's
induction theorems take an operator, each lemma assumes it false and takes a smallest set for which it is (`SmallestSet`);
that the recursive function exists at all (`AddsExists`) is shown in the same way, by the size of the sets. The results are
`CapturedStaysHeld`, `ReservationsAlwaysFit`, `FailedNotCharged`, `CancelledNotCharged`, `CompletedStays` and
`CapturedNeverRefused`: whoever found the money captured makes the contribution or finds it made.

**ShowJudgingProofs.** `Inv` is `TypeOK`, `RunRows` and `OneClaim`. `RunRows`: a judging run works on blocks, a finalizer
on days, and the status a judging run remembers is never a terminal one, so that giving a claim back cannot publish.
`OneClaim`: a block is held by one run at most (`OneHolder`), a held block is JUDGING or was CANCELLED under the run
(`HeldIsClaimed`), and the awards match the status (`JudgedOnce`). The last alone is not inductive: a run in `write`
could write a second time unless no other run can have published the block it holds. The exclusion starts at `Claim`
(only an open block is taken) and ends at the write or the release. `MinMember` (the minimum of a set of naturals is in
it) is proved from the well-foundedness of inclusion among finite sets, as the library's statement for the naturals
takes an operator. The results are `TypeCorrect` and `BlockJudgedOnce`.

**ShowFinalsProofs.** What a cluster comes to rests on three layers over `Inv`.
- `Due`, of every behaviour: nothing is decided before it is due, so that no entry is made once its block can be judged
  (`RequestFits`); a judging run knows of every entry of its block that still waits (`JudgeFits`: what it compared before
  it writes); results, published blocks and settled entries go together (`BlockFits`). It gives `EntriesAllSettled`, with late
  deaths and late commits.
- `Settled`, where `Calm` holds, that is, requests commit in the hour whose clock they read (`Prompt`) and no entry is
  disqualified under the hands of the run that writes its results (`~LateDeaths`): what that run compared is still so
  (`WriterFits`), hence whoever writes results holds an undecided block of an open day (`WriterStays`); a day is what its
  status says, and a day with nothing left to judge has results or is cancelled (`DayFits`); a finalizer has done on its
  day what its phase comes after, by itself or by another run (`PhaseFits`). The crux is `JudgedStays`: a day that a
  finalizer counted as judged stays so with the same breeds, whatever the other runs do between its phases. It gives `FinalsAreWhole`,
  `ClosedDaysSettled`, `CompleteClustersSettled` and `ClosedDaysAreFinal`, for any number of overlapping runs, errors and
  kills. Without `Calm` they are false of the code (section 5).
- `PrestigeFits`, where `Calm` holds: a day that is published, or that some finalizer has brought as far as its prestige, has
  its credits, or a run that will create them, or one that was to and stopped, or no published block to give credits for. The
  last disjunct is gone once `DayFits` is added, and `PrestigeStays` follows for any number of finalizers.

`ClaimsComeBack` needs `Inv` alone and holds of any number of overlapping, failing and killed runs: a run that holds a block
leaves it only by a write or by a release, and a release restores a status that is not JUDGING unless the run had read that.
Only `CreditsStayFrozen` is about finalizers that do not overlap (`OneFinalizer`, with `Calm`): such a one never works on a
published day (`Kept`). `show_rewrite` refutes it of two.

Every lemma about a step is argued from `JudgeTurn` and `FinalTurn` (what one step makes of a run's own fields) and from
`EntryMoves`, `BlockMoves`, `DaysStay` and `ScoresStay` (what no step takes back).

**ArtWebhookProofs.** `DeliveriesFollowProtocol`: `InboxSpec => Spec`. Each step of a worker under an event is a step of
`ArtPayments` or leaves it alone (`WorkerFollows`), so every theorem about the payments holds under any deliveries and
replays (`DeliveriesKeepTheGoal`). `ProcessedEventsAreFunded` needs `InboxInv`: a capture's event is stored only of a
completed capture (`Heard`), a worker that serves it walks only the branches of the reconciliation that end in the
contribution or throw (`OnTheWay`), a COMPLETED row has its contribution (`CompletedIsCounted`), and the protocol takes
none of this back (`Kept`).

**DamLifeProofs.** The invariant `IInv` is `TypeInv` (the rows, and that what a process remembers fits the handler it is in),
`Agreed`, `TreatmentIsPaidOnce` and `NoLitterIsRepaid`. `Agreed` is needed because a count says nothing a step could use:
an attempt names only an accepted contract or a used Return Service, no two attempts name the same one, each accepted
contract and used service is named by one, and an attempt not yet made names none. `NoLitterIsRepaid` rests on it, since a
resolution that reads the contract while it is accepted must know that it is still the attempt's. Most steps are handled
alike: they accept no contract, use no service, end none of what has ended and no attempt turns out barren (`Keeps`), and
they leave payment and outcome in order (`Settles`); each helper that several handlers call (`OpenedKeeps`,
`ExtinguishedKeeps`, `DeathKeeps`, ...) has its lemma. Only two steps do more: a breeding, whatever its kind, makes one
attempt for nobody, for a contract that was open, or for a service that was available (`MakesAttempt`, `BreedStep`), and
the check of a pregnancy opens the service it owes (`CheckStep`). The results are `TypeCorrect`, `BredOnce`, `PaidOnce`,
`NoLitterRepaid` and `Final`. Assumed: attempts are finitely many, litters are positive, at the start no two attempts of the
past are of one contract.

**LitterProofs.** `OneLitter` adds `LittersFit` to the invariant of `DamLifeProofs`. That an attempt has one litter at most
is not inductive, as a process that is about to write a whelping has forgotten why it may. `WhelpingFits` therefore says of
lives without overlapping runs that at most one process resolves an attempt at a time, and that there is no litter while one
does or while the attempt is still INITIATED or PREGNANT; `EmergencyFits`, of all lives, that an attempt which came to
an emergency has its litter from the resolution alone. Most steps leave litters, seeds and emergencies as they were and
give nobody an attempt to resolve (`Calm`); the check, the whelping and the resolution are argued one by one.

**PuppyBackProofs.** Each of the properties says of one row what several processes keep true by reading rows earlier than
they write. `IInv` is `TypeOK` and `Fit`, the parts of which say what those readings are still worth:
- `TurnsFit`: what the row says was selected fits the contract and is not the puppy the dam owner kept;
- `PicksFit`: the puppy an open pick request of the stud owner is about to write fits as well and is still at home, as long as
  the turn it was read under lasts;
- `StaysFit`: before Day 56 every puppy is at home with no sale or rehoming under way, after it the picked one is;
- `ClocksFit`: no process knows a later time than the clock's, so the above still says "before Day 56" of whoever saw it;
- `TransferFits`: one run at most is transferring, and the row still names its puppy;
- `WantIsReal`: who saw no puppy left to pick saw rightly, and none comes back.

The results are `TypeCorrect`, `PickStays`, `OnlyPickTransferred`, `UnfulfilledForWant` and `OutcomeStands`. Assumed: a turn is
positive and two turns end before Day 56, and the puppies a contract allows are of the litter.

**SupportProofs.** The invariant has three layers, each used by the next.
- `Safe`: the records agree with each other and with PayPal (`RecordsFit`: whatever was approved there is known here, only what
  was approved is ACTIVE or has been promoted); and what a handler read of PayPal, however old, is true of it in the only
  sense that survives (`HandlersFit`: an approval stands, an end stands, a replacement under way was approved, its source is
  retired only when PayPal has ended it). It holds under every overlap, and gives `TypeCorrect`, `PeriodsFollow` and
  `ReplacementExact`. A step never takes back an approval or an end (`Moves`), so the readings of the other handlers keep
  their worth; there is one lemma per handler's step about the rest.
- `Paying`: the failure and the recovery a row remembers are payments of PayPal's list, the newest of them decides its
  status, and a payment whose event is put away has been compared with the row, by this or by another handler
  (`Synced`), unless the status was taken from a reading that this payment had overtaken (`Overtaken`). It gives `LatestWins`,
  for any number of payments, deliveries and handlers, whatever readings they hold across payments.
- `Levels`, of two levels: every revision is to the lower one, and who read or stored the lower one is right, because PayPal's
  plan stays there. It gives `DowngradeVerified`. With three levels the statement is false of the code, and of the model: after
  a completed change to the middle level, a request for the lowest whose handler dies once it has asked PayPal leaves a
  revision that no change records; when the player approves it, the plan is no longer that of the completed change.

`MaxIsHighest` and `MinIsLowest` (a finite set of numbers has a highest and a lowest member) are proved by well-founded
descent, as in `ShowJudgingProofs`. Assumed: subscriptions are finitely many, and subscriptions, levels and handlers are
positive numbers.

**Only model-checked:** the liveness properties (`FailedEventsRecover`, `UnclearCaptureIsFunded`, `VoidIsFinished`,
`EveryDaySettles`, `SelectionEnds`, `DeadlinesAreKept`, `BreedingEnds`, `CleanupEnds`): fairness and `ENABLED` are beyond
the prover. Every safety property of a passing run is proved, each under the conditions its paragraph names.

## 7. What the models leave out

- *Art:* publishing the artwork, the signature of a delivery, the event's type (every one asks for the same
  reconciliation), the batch size of the replay, amount mismatches (server-side on both ends), notices.
- *Show:* the administrators' `judgeShowDay` and `publishReady...` calls, title progress, the scoring engine, fees.
  `repairPublishedBlockState` acts on a block with awards that is not published, which `JudgedOnce` shows never to
  exist. `maintain-show-schedule` skips clusters with entries; `judge-due-shows` is not scheduled.
- *PuppyBack:* the opening at the birth, requests before the breeding, notices; a death transaction and a transfer that
  deadlock in the database (either is aborted and tried again).
- *Breeding:* ages, health and title requirements, brucellosis, fees and balances, genetics, the naming and grouping of a
  litter, a second dam, and the sire beyond his being ready, recovering or gone. A treatment's payment is that it was made.
- *Support:* the signature of a delivery, events that concern no subscription, event types apart from a payment and its
  failure, a second account, the badge, names and prices of levels, the repair scripts.
- Below the level of a statement: network, Prisma, the database's own correctness.

## 8. Mutants

Each property of a passing run has a mutant: an operator `XFault`, defined just before the operator `X` it would
replace, with a plausible mistake in that piece of code. No specification uses it. With `X` replaced by `XFault` TLC finds
the property violated under the same configuration. Examples: `ClosedByFault` closes the campaign by the sum before the
contribution; `UnansweredFault` takes an unanswered capture as failed; `ClaimableFault` lets a run claim a JUDGING block;
`AfterErrorFault` goes on after an error as if the phase had ended; `ProtectedFault` forgets the picked puppy;
`StillExpiredFault` drops the condition repeated in the update; `RequestOpenFault` trusts the request as it was read before
the lock; `NewerFailureFault` takes every failed payment for the newest.

## 9. Plan

Done: `ArtPayments` with `ArtFunding`, `ArtWebhook`, and their proofs; `ShowJudging`, `PuppyBack`,
the breeding world (`DamRecords` to `DamLife`) and `SupportSubscriptions`, with their proofs.

Next, in this order:

1. `KennelMoney`: balances, ledger, listings, purchases and bulk entry of two kennels; abstract specification: a bank
   whose balance is the sum of its ledger and a listing that is sold once, with the hazards at `showEntry:1265` and
   `market:752`.
2. An abstract specification of one show day (open, judged, final, published or cancelled) that `ShowJudging`
   implements, and one of the selection of a puppy for `PuppyBack`.
3. `ShowTitles`: the sums over awards, written by two writers each from its own reading (`titleProgress:347`).
