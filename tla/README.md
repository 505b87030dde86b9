# Verification of the booking platform

TLA+ models of the NestJS back end under `src/src` and of the parts of its web
client (`src/apps/web`) that decide something: how bookings take and return
nights, how payments settle them, how retried requests are kept from executing
twice, how events travel from a transaction to the saga and on to promotions,
invoices, files and the search index, how sessions, second factors and
permissions are checked, and what the pages tell a user of all this. TLC checks
the models on small instances; TLAPS proves every safety property that a run
checks, for all constants.

Paths without a directory are files of `src/src/modules/*/`.

## 1. The system and its parts

The back end is one NestJS application, run as any number of processes against
one PostgreSQL database (Prisma, READ COMMITTED), one Redis, one Kafka cluster,
MinIO and Meilisearch. Nothing is shared in memory: the parts meet in database
rows, in a few Redis keys, and in Kafka messages. The web client is a React
application; its tabs share the cookies of one browser.

| part | state it keeps | operations | hard behaviour | what makes it correct |
|---|---|---|---|---|
| booking (`bookings.service.ts`) | Booking (status, stay, holdExpiresAt), AvailabilityDay.remaining | hold, cancelHold, expireHolds, reviewApprove, reviewDecline, cancelPaidOrConfirmed, attachCancelPolicy, previewRefund | unlocked reads followed by writes by id; the job racing with guests and reviewers | nights are neither lost nor sold twice; every hold ends; a preview is kept |
| fraud (`fraud.service.ts`) | FraudAssessment | assess (inside hold), decide | two consoles with different rules about the same rows; counts read outside the transaction | a verdict is final and agrees with the booking |
| expire job (`expire.task.ts`) | Redis key `job:expire-holds` | handle, every minute | lock without a token | every overdue hold ends, its nights come back once |
| payments (`payment.service.ts`, `providers/`) | Payment, Refund, ProcessedWebhook | createIntent, handleWebhook, handleVnpayIpn, refund | duplicated, reordered and late notifications | money and booking agree; one effect per event |
| idempotency (`idempotency.service.ts`) | Idempotency rows | beginOrReuse, completeOK, completeFailed, sweep | crash between the business transaction and its bookkeeping | one execution per key, no foreign response |
| outbox (`outbox.producer.ts`, `outbox.publisher.ts`) | Outbox rows, Redis key `job:outbox:publish` | emitInTx, tick | crash between send and delete, lost lock | nothing committed is lost, order within a partition |
| events, kafka wiring (`events-consumer.service.ts`, `kafka/`) | ProcessedEvent, Kafka offsets, topics | ensureTopics, startConsumer, processMessage, commitOffset | crash, rebalance, redelivery, topics that do not exist yet | at least once, in order, nothing skipped |
| saga (`saga.coordinator.ts`) | none | handle | swallows the errors of what it calls | the effects of an event happen |
| promotion (`promotion.service.ts`) | Promotion, PromotionRedemption, Booking.promoCode | create, update, preview, applyOnHold, confirmOnPaid, releaseOnCancelOrExpire | events of several topics in any order; edits between preview and apply | a limited code is not over-used; a discount is what was offered |
| host calendar, property (`property.service.ts`) | AvailabilityDay, Property, PropertyFile | upsertAvailability, photos and covers, updateProperty | absolute overwrite against decrements | capacity changes by what the host changed; one cover |
| auth (`auth.service.ts`, `token-state.service.ts`, `device-approval.service.ts`) | Session, refresh hashes, versions, Redis copies and locks | login, refresh, logout, logout-all, approve, revoke | refresh races, cached versions, a lock that lapses | one live refresh token per session, revocation is final |
| mfa (`mfa.service.ts`) | MfaSecret row | enrol, verify, backup codes, recovery, disable | read, compare, then count | bounded guesses, one use per code |
| notifications | Notification | send, dispatch, markRead, cancel, retry | claim timeout of 60 s against a slow sender | sent once, and in the end |
| feature flags, rbac | rows and their cached copies | evaluate, update, grant, revoke, decide | stale caches | a change is seen; a denial stands |
| reviews | Review, Property.ratingAvg | create, update, remove | aggregates recomputed concurrently | the rating is that of the reviews |
| messaging | Conversation, Message, Participant | start, send, list, markRead, remove, block | timestamps older than their visibility; cursors over moving rows | none missed, a block holds |
| search | the Meilisearch document | consume, reindex | two consumers, read-then-write | the index shows the last rating |
| files (`file/`) | File, FileVariant, MinIO objects | confirm, scan, thumbnail, attach, remove | rows and objects in two stores | what is attached is clean, what is named exists |
| invoice, mailer | none | emailInvoice | several causes, swallowed errors | the invoice is sent for each cause and reported |
| common (`src/src/common`, `main.ts`) | Redis hash per bucket, CSRF cookie | middlewares, guards, pipe, filter, token bucket | their order; clocks of several servers | an answer tells what happened; the rate is bounded |
| web client (`src/apps/web`) | tokens, query cache, forms | requests, refresh, optimistic updates | late answers, several tabs | a page shows what the server says |
| audit, security events, health, demo | append-only rows | | | |

How they interact:

- a **transaction** of booking, fraud, payments, promotion, review or notifications
  changes its rows and writes its events into Outbox in one commit (`emitInTx`);
  the files service writes its event after the commit;
- the **publisher** moves Outbox rows to Kafka; the **consumer** hands each to
  `SagaCoordinator.handle`, which calls promotion, invoice, mailer and files; a
  consumer group of its own feeds the search index;
- the **provider** calls the webhook, which settles bookings;
- **cron jobs** in every process call `expireHolds`, the idempotency sweep, the
  dispatch of notifications and the publisher's `tick`; Redis keys or claimed
  rows keep them mostly apart;
- `hold`, `createIntent`, `refund` and the review routes pass the **idempotency gate** first;
- every request of the **web client** passes the CSRF middleware, the guards (which
  read the cached versions and permissions) and the pipe, and its errors the filter.

## 2. The modules

Definitions named `...Fault` are not the code. Each is the definition that
follows it with a plausible bug, and exists to show that a property notices it.

| module | models | role |
|---|---|---|
| `RoomCalendar` | – | abstract: what the booking module promises about nights |
| `BookingInventory`, `BookingInventoryProofs` | booking, fraud.decide | core; implements `RoomCalendar` when there are no reviewers |
| `BookingPayments` | payments, cancelPaidOrConfirmed | EXTENDS `BookingInventory`: every booking step is also a step here; holds its own theorems |
| `HostCalendar` | upsertAvailability | EXTENDS `BookingInventory`: the host writes the nights that guests take |
| `BookingTerms`, `RiskRules` | discounts, previews and cancellation rules; fraud.assess | what a hold costs and how it is looked at |
| `ExpireJob` | the cron job and its Redis lock | |
| `IdempotencyGate`, `IdempotencyGateProofs` | idempotency | the gate around an arbitrary handler |
| `EventDelivery` | – | abstract: only if committed, in order per stream |
| `OutboxPublisher`, `EventRelay`, `EventRelayProofs` | outbox; events | `EventRelay` EXTENDS `OutboxPublisher`; the two implement `EventDelivery` |
| `ConsumerStartup` | topics, subscription, first positions | |
| `PromotionRedemption`, `PromotionRedemptionProofs` | promotion, and the saga's part in it | |
| `InvoiceMail`, `FilePipeline`, `SearchIndex`, `NotificationDispatch` | the other effects of events and timers | |
| `TokenState` | versions and their copies in Redis | what `AuthSessions` builds on |
| `AuthSessions`, `AuthSessionsProofs` | sessions, refresh, devices | EXTENDS `TokenState`: its handlers read and bump versions as callers; the proofs are about both |
| `LoginLockout`, `MfaVerification` | password and second factor | |
| `AccessControl` | the permission cache, and the decision on one resource | two halves with a Spec each, over the same rows |
| `TokenBucket`, `RequestPipeline` | what stands before a handler, and the answer after it | |
| `PropertyPhotos`, `ReviewAggregates`, `FeatureFlags` | the services of these names | |
| `Messaging` | conversations and texts; the paged inbox | two halves with a Spec each |
| `WebClient`, `CsrfTokens`, `BookingPages` | the web client | |
| `PropertyPage` | the property form; the calendar panel | two halves with a Spec each |
| `MC...` | | constants and sums of components for TLC |
| `BackgroundProofs`, `RequestsProofs` | | theorems about the parts of `MCBackground` and `MCRequests`, and about the two sums |

### Bookings and nights

**BookingInventory.** One property. `status`, `stay`, `deadline` (`holdExpiresAt`:
null, ahead of now, behind it) and `assessment` are functions of the booking;
`remaining` is a function of the night. A handler that locks what it reads or
decides by a conditional UPDATE (`hold` locks the nights in date order,
`cancelHold` and `expireHolds` name the statuses they accept) is one action.
`reviewApprove`, `reviewDecline` and `decide` read without a lock and write by id:
`ReadReview` puts the request into `inFlight`, and `Approve`, `Decline`,
`DecideApproved`, `DecideRejected` or `RollBack` takes it out, with everything
else possible in between. `decide` returns nights by walking midnights of the
server's time zone, while the other handlers select rows between two instants:
`DecideNights` is what that finds. `DeadlinePasses` may happen at any moment
after `hold`, so the job may find a booking overdue at any moment.

**ExpireJob** is that job: `StartJob` takes the lock if it is free, `ListHolds`
reads a batch of `take`, `EndHold` ends one in its own transaction if it is still
overdue, `FinishJob` deletes the lock whoever holds it, `JobThrows` goes through
the same finally block, `JobDies` does not, and `LockExpires` after 55 seconds of a
run that may go on.

**HostCalendar.** `Show` gives a panel the numbers of the moment, `Submit` decides what
to save from them, and `SaveNight` writes it absolutely, chunk by chunk. `closed` is
`isBlocked`; the release that credits a blocked night comes with it.

**RiskRules** runs `assess` for holds under way (`Bids`), with what each reads
from a connection of its own, and the sum of points that decides HOLD or REVIEW.
**BookingTerms** keeps a promotion's row, a booking with its copied policy and the
last preview of each; the arithmetic (percentages, caps, the best rule by days) is
that of the code, on small numbers.

### Payments

**BookingPayments.** A request that reads and later writes by id stays in `serving`
with what it read (`seenPay`, `seenBooking`). The row lock that an UPDATE of Payment
takes is `pc = "locked"`, and `PaymentFree` is what another writer waits for. The
provider is external: `GuestPays` and `GuestFailsToPay` make its events, `sent` keeps
them forever so that they can be delivered in any order, late, repeatedly, and
concurrently. Inserting the event id comes last in the transaction; if it is
there already, PostgreSQL aborts everything (`Drop`), which is why `Notice` is a
guard of every commit. The check for a duplicate and the read of the payment
are one step, `BeginWebhook`: between the two only this event's own insertion
could matter, and that is caught by `Notice`. A provider has no CSRF token, so a
notification that is a POST reaches the handler only where the deployment has
turned CSRF off (`CsrfEnabled`, `Reachable`); VNPAY's is a GET. `handleVnpayIpn` does what
`handleWebhook` does for the two outcomes that VNPAY has; it is the same actions
with `Provider = "VNPAY"`. Left out: `refund_failed`, which touches Refund rows
only, and the amounts (a refund is full or partial).

### Requests that may be sent again

**IdempotencyGate.** `registry` is the table, a row named by its place in the order of
insertion. `attempt` holds the requests at work: `working`, `committed` (the business
transaction committed, the bookkeeping did not), `failing`. `Die` may take away
an attempt at any point. `Sweep` removes a row on which nobody works: a
transaction times out after 5 seconds and rows live for 10 minutes or more. A row
that is swept between the failed INSERT and the read is an error that changes nothing.

**TokenState.** `version` is the row, `cache` the Redis key, `call` what a request has
read and not yet written: `Miss`, `ReadVersion` and `Fill` of a reader, `Bump` and
`SetVersion` of a bump, with `Forget` (Redis loses the key) and `Abandon` (the request
breaks off) in between. **AuthSessions** runs its handlers as such
callers: a refresh takes the rotation lock or waits for it, reads the session,
compares the token with the current and the previous hash, rotates by a
conditional UPDATE, bumps and answers; cookies are what the browser last
received, answers may be lost or late. Reuse, logout, logout-all and the approval
of devices are beside it; `FindSessions` and `RevokeFound` of a logout-all look for
the sessions of every user, as the code does.

**LoginLockout** and **MfaVerification** keep the read of the limit, the comparison
and the count apart, one action for each awaited call.

### Events and their effects

**OutboxPublisher, EventRelay.** An event is the number of its row in the order of
`createdAt`, fixed when the row is written and not when its transaction commits.
The order of `createdAt` is taken to be strict and to respect causality. A stream
is a partition. `tick` is `Acquire`, `Fetch`, one `Append1` per message, `DeleteRows`
and `Release`; `SendFails` and `CrashPublisher` may interrupt it anywhere,
`LockVanishes` takes the key away from a running tick, `LockExpires` from a dead
one. Within one send Kafka takes the groups of topics in turn and the messages of
a partition in their order. The members of the consumer group come on top:
`Begin`/`Skip` is the lookup in ProcessedEvent, then come `Handle`, `Record` and
`CommitOffset`; `Abort` is a throw or a crash, `Rebalance` gives the partition to
another member without waiting for the message in hand of the old one.

**ConsumerStartup** is what EventRelay takes for granted: which topics exist when a
consumer starts, which it subscribes to, where it begins in each (at the end,
when the group has no offset), and what happens to a topic that is created later.

**PromotionRedemption.** The life of a booking is reduced to what decides its events.
`events` holds what the saga still has to handle, so an event may be delayed,
overtaken and, as `Rest` may leave it there, handled again. The members of the
consumer group work at the same time, also for one booking and topic: booking.paid and
booking.refunded are written under two keys each, hence to two partitions, and a
rebalance gives one message to two members. `applyOnHold` locks the promotion, hence
`CodeLocked`; `confirmOnPaid` waits for it, but no call of the saga locks the
redemption it has read. `overdrawn` counts the uses that a release gives back although
another release has done so since it read. `Fail` is a transaction that throws: the
coordinator swallows it and the event counts as handled. A booking is paid at most
once here, and reviews are decided while the booking is in REVIEW (stale reviews are
the subject of `BookingInventory`); a hold is either cancelled or expires, and one
topic stands for the two.

**InvoiceMail** follows one booking through every cause of an invoice, with the
mailer's switch, the guest's address and the autoConfirm setting as constants of
a behaviour (`setup`). **FilePipeline** has two halves. One is about the files under
one key: the presigned PUT, which may be repeated while the URL is valid, confirm
(`Validate`, then `Refuse` or `CreateRow` and `EmitFile`), the scan, attaching, and
remove (`DeleteRow`, then `Wipe`); a key that was removed may be confirmed again as
another file, also before its object is gone. The other half is about the renditions
of one file, drawn by the saga and by requests while the file is removed. Handlers
break off anywhere. **SearchIndex** has one
inbox per consumer, three tries per event, and the administrator's reindexing.
**NotificationDispatch** has the claim of a row, the transaction that emits and
marks, and the owner's requests, each with what it read.

### Guards, services and pages

**AccessControl** stores the permissions of a user under the versions they were loaded
with (`BumpPerm` is the INCR), and its decision reads permissions, host and rules one
after the other; **TokenBucket** is the Lua script on integers, one unit per
millisecond of the rate, with the callers' clocks; **RequestPipeline** is the order of
`main.ts` and the modules' guards, and the mapping of errors to statuses that the
client retries or not. A handler there commits, throws and rolls back, or refuses and
writes the refusal down (`RefuseAndMark`: a wrong password or code is counted, a
session from another device is put on hold, a token that came again ends its session);
it then answers 401 like any other refusal. A handler is one transaction; the buckets
and idempotency rows that some write beside it are the subject of the modules of these
names. **PropertyPhotos**, **ReviewAggregates**, **Messaging** (with the inbox and its
cursors), **FeatureFlags** have an action for each statement that another request may
come before. **WebClient** is the interceptor with its shared `refreshPromise`,
**CsrfTokens** the cookie and the tokens of several tabs, **BookingPages** the
optimistic cancellation in the query cache, **PropertyPage** the effect that copies
what was loaded over what was typed, and the fetches of the calendar panel that answer
out of order. These modules take the client to find the handler's result in an answer
(see section 5).

## 3. The runs

`pass` runs search everything within their bounds.

| run | instance | shows |
|---|---|---|
| `guests` | 4 bookings, stays of 2 of 3 nights that share one, 2 rooms in that night | the bookings implement `RoomCalendar` |
| `desks` | 2 bookings, the same nights, one of them blocked; 1 reviewer of the bookings console, 2 of the fraud console | `NoLostNights`, `ConservedUnlessStale`, `HoldHasDeadline`, `VerdictMatchesStatus`, `VerdictIsFinal`; under `LiveSpec`, `EveryHoldEnds` |
| `pay_stripe` | STRIPE with CSRF off: 1 booking, 2 workers, 1 reviewer, 1 refund, no auto-confirm | `OneEffectPerEvent`, `PaidOrApproved` |
| `pay_mock` | MOCK with CSRF off: 1 booking, 2 workers, 2 refunds, auto-confirm | `RefundedStaysRefunded`, which needs one event id per charge; under `PayLiveSpec`, `MoneyAnnounced` |
| `relay` | 2 events of one stream, 2 publishers, 2 members, 2 faults | `NothingLost`, `FirstCopiesInOrder`, `OffsetMeansHandled`, `RecordedIsDone`; implements `EventDelivery`; under `RelayLiveSpec`, `EveryEventHandled` |
| `promo` | 3 bookings for a code with 1 use, one of them also for a code without limit; 2 members of the saga; 2 events waiting or handled at a time | `FirstPaidWins`, `DiscountIsRedemptions` |
| `single_use` | sums 2 parts, see below | what may be used once although it is sent again |
| `requests` | sums 17 parts | components that serve requests or show their answers |
| `background` | sums 9 parts | components that work on their own, or must come to an end |

`MCSingleUse`, `MCRequests` and `MCBackground` put components that share no state
side by side. A variable `part`, chosen at the start, says which of them a
behaviour is about; the others keep their initial state, and where a component
has several of these all but one are dropped while another part moves. The
reachable states are the sum and not the product of those of the parts, and no
behaviour of a part is lost: within its part a component has its own Init, Next
and fairness. An invariant of the sum is a conjunction of
`part = "x" => ...` of the parts' invariants.

| run: property | parts | the parts' statements |
|---|---|---|
| `single_use`: `OneExecutionPerRow`, `ResponseIsOwn`, `OneWorkerPerKey`, `KeyIsReleased` | gate: 1 key, 2 payloads, 2 attempts, 2 rows | one execution per registry row, no response of another payload, one worker per key, and a key that can be used again |
| `single_use`: `AnswersFollowTheChain`, `RevokedIsFinal`, `EveryRequestEnds` | sessions: 1 session, 2 requests, 2 devices | a token is rotated once whatever becomes of the lock, a revoked session stays so, every request ends |
| `single_use`: `CurrentUnlessTorn` | sessions | a cached version differs from the row only around a bump under way or broken off |
| `requests`: `SignInSafe` | lockout (3 attempts, 5 failures), mfa (2 tabs, 2 secrets, 1 backup code) | `GuessesBounded`; `CodeOnce`, `EnabledWasProven`, `WrongBounded` |
| `requests`: `GuardsSafe` | permission (1 role, 2 checks), access (4 grants), bucket (2 servers, clocks 1 apart), pipeline (1 call) | `CacheFollowsGrants`; `DenyStands`, `AllowedOnGrounds`; `AdmitsWithinRate`; `AnswerTellsEffect`, `OneEffectPerSubmit`, `CommittedWasChecked` |
| `requests`: `HostSafe`, `BlockedStaysUnsold` | host (2 bookings, 2 nights of one room, 1 panel) | `RoomsKept`: a night is sold no more often than there are rooms, and lost only by a save from an older number or by blocking; a blocked night is not sold |
| `requests`: `ListingSafe` | photo (3 photos, 2 uploaders), review (2 bookings, 2 authors), risk (2 holds), terms (1 price, 3 policies) | `CoverKept`, `UsedFileStays`; `RatingUnlessRaced`; `LevelWeighs`, `QuietBounded`; `DiscountCapped`, `KeptWord`, `BestRuleCounts` |
| `requests`: `ChatSafe` | chat (2 members, 2 messages), inbox (4 conversations, pages of 2) | `BlockHolds`, `NoneMissed`; `ListedOnce` |
| `requests`: `PagesHonest`, `SavesOnlyTyped` | pages (2 holds), panel (2 ranges), csrf (2 tabs), form (1 tab beside other writers, 2 fields) | `PanelHonest`, `ListHonest`; `ShowsTheRange`; `RefusedForCause`; two tabs never undo each other's field |
| `background`: `WorkSafe` | dispatch, file (2 files of a key, 2 PUTs, 2 handlers, 1 crash), thumbs (2 handlers, 2 renditions), index, expire, invoice, startup | `MailedOnce`; `AttachedIsHarmless`, `RowsHaveObjects`; `VariantsStored`; `RatingReachesIndex`; `NightsGivenOnce`; `MailsExplained`, `RecordedWasSent`, `InvoiceArrives`; `SkippedBeforeJoinOnly`, `StrictReadsAll` |
| `background`: `WorkGetsDone` | dispatch, file, index, expire | `EveryMailLeaves`, `EveryFileScanned`, `EventsDrain`, `OverdueEnds` |
| `background`: `CopiesSafe`, `FlagServed` | flag (1 user, rollouts 0, 50, 100), web (2 requests) | `CopyIsRow`, `RaisingKeepsUsers`, `StaleCopyGoes`; `SignedOutStays` |
| `background`: `RequestsSettle` | web | every request of a page settles, unless the refresh was refused |

The runs that expect a violation each check one statement the repository makes
about itself:

| run | statement | what happens instead |
|---|---|---|
| `late_payment` | `bookings.service.spec.ts:420` an overdue hold gives its nights back | a payment that comes later (VNPAY, with CSRF on) occupies them again |
| `web_hang` | `doc/bump.md:51` a revoked session leads to the login | a refresh that is refused waits for itself, and nobody is asked to sign in (TLC's trace begins with a wrong password at the login, which is answered 401 like a revoked session) |
| `logout_all` | `doc/auth_module.md:168` every session of the user | the sessions of every user end |

### Why the bounds are enough

The races are between pairs: a request reads once and writes once, and what
comes between is one other request, so two actors of each kind show them. One
booking is enough where rows of different bookings are never touched together
(payments); two or more where they compete (nights, a limited code). Stays of two
nights that overlap in one make a partial take visible. Two events suffice for
order, two faults for a crash during the recovery from a crash, and `MaxLog`
leaves room for every copy they can cause. `MaxRows = 2` allows a swept key to be
used again. The inbox has twice as many conversations as fit a page, and moves
enough to take a row over the end of a page. The bucket's clock runs three times
as long as filling the bucket takes. Two stops of the job suffice for the lock to
be deleted by the wrong run during a second one. `MaxStarts = 2` is a join and a
rejoin. In `single_use` the session's owner is one user, since no property of
that run relates two; `logout_all` has two.

Restrictions that are more than that:

- `MaxIntents = 1`: with a second intent for one booking the money of the first is
  lost, see `payment.service.ts:102` below;
- `MaxAttempts = 1` for `MAX_VERIFY_ATTEMPTS`: the bounds of `WrongBounded` count per
  limit, and a larger limit only lengthens the way to it;
- a chunk of `upsertAvailability` is a night here and 150 nights in the code;
- `TopicPrefix = ""`, `FileTopics = TRUE`: with the prefix and the topics that
  `.env.example` sets, or with the defaults, no file is scanned (section 5);
- `CsrfEnabled = FALSE` where the provider is MOCK or STRIPE: by default their
  notifications are refused (section 5);
- `FewOpen` in `promo`: at most two events or calls at a time, enough for two releases
  of one booking to cross and for a third booking to take the use.

### Fairness

- `LiveSpec` of `BookingInventory`: time passes, and the job runs every minute
  (weak, because an overdue booking stays overdue until it is handled). No guest
  or reviewer has to act.
- `PayLiveSpec`: an assumption on the deployment (`Redelivers`): whatever delivers the
  notifications repeats each until it is accepted. VNPAY does; for MOCK, the
  provider of the run, nothing in the repository does, and its POST passes only with
  CSRF off (`Reachable`, the condition of `MoneyAnnounced`). On the server's side
  (`Served`), neither the workers nor the row lock turn an event away every time
  (strong, since both are taken and freed again); a transaction that stays open
  times out (Prisma's limit).
- `Fairness` of `IdempotencyGate`: a request ends, if only by dying; the sweep's
  cron job runs.
- `RelayFairness`: the interval keeps calling `tick` (strong for `Acquire`: the lock
  comes and goes); members keep reading; the number of faults is finite.
  Nothing obliges a transaction to commit.
- `AuthFairness`: a refresh goes on with its next call; nobody has to log in or out.
- `ExpireFairness`: the timer of some instance finds the lock free again and again
  (strong, since others take it); runs go on, the lock lapses.
- `DispatchFairness`: time passes, claims lapse, every instance's timer lists and works.
- `FileFairness`: a handler goes on; the event is redelivered until it is handled
  (strong, because a broken-off handler takes it up again). This is an assumption on
  the deployment: `Scan` is enabled only where the consumer reads the topics of files
  under a prefix other than `dev.` (`FilesConsumed`), which neither the defaults nor
  `.env.example` give, and `EveryFileScanned` has it as its condition.
- `IndexFairness`, `FlagFairness`, `WebFairness`: a consumer reads on, a key with a
  time to live lapses, a request that was sent is answered or fails.

Faults (crashes, lost keys, failed calls) are never fair, and bounded in number
where a liveness property needs that they stop.

Deadlock is not checked: all these systems may stop when nobody asks anything
and the bounds are used up.

## 4. What is proved

For every value of the constants that satisfies the named assumptions of the
modules. TLC evaluates all of them in the runs; each says no more than that a set
is finite, a limit is a number, a marker is not a member, or what the code itself
requires of its settings:

| assumption | of | says, besides that its constants are numbers or functions of their kind |
|---|---|---|
| `ConstantsAssumption`, `HostAssumption`, `PaymentConstantsAssumption` | bookings, host, payments | bookings are finitely many; a stay has a night; a night's capacity is that of its room type, or 0 |
| `PromotionAssumption`, `TermsAssumption`, `RiskAssumption`, `ReviewAssumption` | promotions, terms, fraud, reviews | "null" is no code; an inactive policy has no rules; ratings are 1 to 5; holds under way and reviews are finitely many |
| `GateAssumption`, `PublisherAssumption`, `StartupAssumption` | gate, outbox, consumer | a stream has one topic, a batch one row |
| `TokenStateAssumption`, `AuthAssumption` | sessions | a session has one owner; there is a device |
| `LockoutAssumption`, `MfaAssumption` | password, second factor | limits are positive; requests at once are finitely many |
| `AccessAssumption`, `PermissionAssumption` | rbac | a permission is an action and a subject; a user is no role |
| `PipeAssumption`, `BucketAssumption` | guards, rate limit | one request costs no more than a bucket; servers are finitely many |
| `ExpireAssumption`, `DispatchAssumption`, `FileAssumption`, `IndexAssumption`, `InvoiceAssumption`, `FlagAssumption` | jobs, consumers, flags | batches are positive; workers are finitely many; a user's bucket is below 100 |
| `MessagingAssumption`, `InboxAssumption` | messaging | two members; conversations are finitely many; a page holds one |
| `FormAssumption`, `PanelAssumption`, `PagesAssumption`, `CsrfAssumption`, `WebAssumption` | web client | |

| theorem | property | argument |
|---|---|---|
| `TypeCorrect` | `TypeOK` of `BookingInventory` | inductive as it stands; that a night stays in Nat rests on the check in `Available` |
| `VerdictsMatch` | `VerdictMatchesStatus` | inductive with `TypeOK`: whoever writes the status writes the verdict |
| `HoldsHaveDeadlines` | `HoldHasDeadline` | inductive with `TypeOK` |
| `VerdictsLast` | `VerdictIsFinal` | `AwaitsInv`: a booking that waits for review has no verdict yet, so only a request whose read is stale (`ReplacedIsStale`) replaces one |
| `NightsNotLost`, `NightsConserved` | `NoLostNights`, `ConservedUnlessStale` | a counting argument: each action changes `remaining[d]` and the set of holders of `d` by the same booking, except for the rejections that the properties except |
| `CalendarImplemented` | `ImplementsCalendar`, without reviewers | every step maps to `Take`, `Refuse`, `Release` or a stutter, using the exact count |
| `EffectsCounted` | `OneEffectPerEvent` | `MoneyInv`: `announced` counts the success events in `processed`, which the unique key keeps a set; a step either records a new event and announces at most once, or does neither |
| `RefundsLast` | `RefundedStaysRefunded`, under `OneIdPerCharge` | `SettledInv` adds to `MoneyInv` that a settled payment's one success event is in `processed`, and that whoever asks for a refund has seen it there (`KnowsPayment`); so a success that commits is new, and its payment was not refunded before |
| `SettledForCause` | `PaidOrApproved` | from the same invariant: only a success that is announced, or an approval, leads to PAID or CONFIRMED, and neither is taken back |
| `RegistryTyped`, `OneExecution`, `OwnResponses`, `OneWorker` | the safety properties of the gate | `GateInv`: rows are numbered, an attempt owns the row it works on, and whatever a COMPLETED row or an answer reports has been executed |
| `PublisherTyped`, `PublisherLosesNothing`, `PublisherKeepsOrder` | `TypeOK` of `OutboxPublisher`, `NothingLost`, `FirstCopiesInOrder` | `RelayInv`: a row a tick has taken and already sent is in Kafka, and what precedes it in its stream is in Kafka too or ahead of it in the same batch. `OldestIsPrefix` says a batch has no gaps |
| `RelayLosesNothing` | the same two, with the consumers at work | `RelayInv` is kept by the consumers' steps, which leave the publisher alone but for the count of faults |
| `OffsetsHandled` | `OffsetMeansHandled` | `ConsumerInv` adds to `RelayInv` that a partition holds its own stream (`OwnStream`) and that whoever works on a message has all that precede it behind it, handled (`ReadInTurn`). Kafka only appends, so what the publisher does meanwhile disturbs neither |
| `RecordedDone` | `RecordedIsDone` | `AloneInv` adds that a member has one message in hand, and that the message of a partition which has not moved belongs to its owner and is not recorded before it is handled |
| `RelayDelivers` | `DeliversEvents` | the refinement: `WriteRow`, `CommitRow` and `Handle` are `Write`, `Publish` and `Handle` of `EventDelivery`, everything else stutters. That a handling is allowed there follows from `FirstCopiesInOrder` (an earlier event has a copy further ahead in the partition) and `ReadInTurn` (which is handled) |
| `PromotionTyped`, `LimitHolds`, `DiscountHolds`, `AppliedPaid` | `PromoTypeOK`, `FirstPaidWins`, `DiscountIsRedemptions`, `AppliedWasPaid` | `PromoInv`: usedCount stays within the limit, and the applied redemptions are at most usedCount and the uses that were given back twice (`WithinLimit`): a release whose redemption is still APPLIED takes one from both, any other adds one to `overdrawn` |
| `TokenTyped`, `VersionsCurrent`, `VersionsNeverAhead` | `TokenTypeOK`, `CurrentUnlessTorn`, `NeverAhead` | `TokenInv`: neither a key nor a reader is ahead of the row, and what a reader holds is the row's version unless a bump came after its read (`SeenUnlessTorn`) |
| `AuthTyped`, `RefreshFollows` | `AuthTypeOK`, `AnswersFollowTheChain` | `SessionInv`: the rotations of a session form one chain that ends in its current token (`Chain`), and what a request is about to publish or to answer with is a link of it (`OnChain`). The Redis lock plays no part; the WHERE of the UPDATE does |
| `RevocationHolds` | `RevokedIsFinal` | of `SessionInv`: whoever is about to write a session names the hash or the status it read |
| `SessionsImplementTokens`, `SessionsKeepVersions` | `CurrentUnlessTorn` for the whole of `AuthSessions` | every handler's read or bump is a step of a caller of `TokenState`, or leaves the versions alone; so `TokenSpec` is implemented, and its invariant comes with it |
| `MailsOnce` | `MailedOnce` | `DispatchInv`: emits, and the runs that still hold a claim on a row, are no more than its sends, overruns and retries together |
| `FilesHarmless` | `AttachedIsHarmless`, `RowsHaveObjects` | `FileInv`: a key has one live row (`OneLive`); a row marked CLEAN whose object was not put again is harmless, and so is what a scan under way has found; a row that did not cross a deletion has no handler about to delete its object (`Undisturbed`) |
| `RenditionsStored` | `VariantsStored` | `ThumbInv`: while no renderings overlap (`OneAtATime`) what one is to name exists, and what it is to drop is nobody else's |
| `IndexFollows` | `RatingReachesIndex` | `IndexInv`: the newest rating is in the document, or someone will read it yet (`WillRefresh`) |
| `CopyFollows`, `RolloutsKeepUsers`, `FlagsKeep` | `CopyIsRow`, `RaisingKeepsUsers` | `FlagInv`: an asker who read the row before it changed knows that its copy is late |
| `SignOutHolds` | `SignedOutStays` | `WebInv`: who signed out without an excuse has no token and no cookie, and no refresh on its way has one |
| `InvoicesHold` | `MailsExplained`, `RecordedWasSent`, `InvoiceArrives` | `InvoiceInv` counts on both sides: mails sent or about to be, against events handled and senders at work; sums over senders by `Count` |
| `NightsOnce` | `NightsGivenOnce` | with the holds' type: whatever the locks do, `EndHold` decides by the status of the row it writes |
| `NothingSkipped` | `SkippedBeforeJoinOnly` | `StartupInv`: a position lies between the place of the first join and the end of the log, and an offset is a position that was reached |
| `StrictReads` | `StrictReadsAll` | a conjunct of `StartupInv`: a strict consumer subscribes to every topic or does not start |
| `PartsImplemented`, `WorkHolds`, `CopiesHold` | `WorkSafe`, `CopiesSafe` | a step of `MCBackground` is a step of one part or leaves it alone, so a behaviour of it is one of each part, and their invariants hold together |
| `GuessesHold` | `GuessesBounded` | `LockoutInv`: before the lock, guesses exceed MAX_FAILS - 1 by no more than the requests about to set it; after it only those that compare already may guess (`Within`) |
| `SecondFactorHolds` | `CodeOnce`, `EnabledWasProven`, `WrongBounded` | `MfaInv`: a use of a backup code deletes its row, and wrong codes so far and to come stay within what n requests may try (`Tried`, `Room`). The bound of `WrongBounded` is n MAX_VERIFY_ATTEMPTS + n(n-1)/2: a request that reads the count before the others' increments adds one to each |
| `AnswersTell` | `AnswerTellsEffect`, `OneEffectPerSubmit`, `CommittedWasChecked` | `CallOK`, over the record of a request: before the handler there is no effect, a handler that committed is answered below 400 or with 5xx, and a handler is entered a second time only after a 401 that left no effect and at most one mark |
| `DenialsStand` | `DenyStands`, `AllowedOnGrounds` | `AccessInv`: the grounds witnessed since the question contain those of now, the bars that stood throughout are among the denials of now (`Current`), and a decision has read both (`AskSafe`) |
| `CacheHolds` | `CacheFollowsGrants` | `PermissionInv`: a stamp is never ahead of the versions, and a check or an entry under the stamp of now has what the tables grant, unless the next bump of one of its versions is still to come |
| `RateHolds` | `AdmitsWithinRate` | `BucketInv`: admissions and the tokens left are at most a full bucket and the clock the hash was written at; a hash that expired is one whose tokens would all have been refilled (`Kept`, `Forgotten`). This needs that clocks are not apart by more than the time of a refill, which the property states as its condition |
| `TextsReach` | `BlockHolds`, `NoneMissed` | `ChatInv`: every text is the user's own, later than the marker, shown, or was under way when the user marked (`Told`); whoever blocked is not in the middle of being written to |
| `InboxListed` | `ListedOnce` | `InboxInv`: the cursor splits the order of the inbox: what did not move is listed once before it and not at all after it (`PassedOver`). A page takes a least upper bound of a finite set, by `Greatest` and `HasLast` |
| `PagesShow`, `PanelShows`, `RefusalsHaveCause`, `FormsKeep` | `PanelHonest`, `ListHonest`; `ShowsTheRange`; `RefusedForCause`; `SavesOnlyTyped` | `PagesInv`: quiet pages show what the server has, or fetched it. `CalendarInv`: the newest fetch is that of the range entered. `CsrfInv`: refusals and those that must follow (`Due`) are paid for by a cookie that was overwritten or an answer that was lost. `FormInv`: whatever a tab holds under the row's stamp is the row, but for the fields typed |
| `RoomsHold`, `BlockedUnsold` | `RoomsKept`, `BlockedStaysUnsold` | `HostInv`: rooms that remain or are taken are those of the host, for nights that no save from an old number has hit; a hold and a release keep that sum (`GuestsCount`), and a save works it out from what the page saw |
| `PhotosHold` | `CoverKept`, `UsedFileStays` | `PhotoInv`: when no request is between its two statements and nobody clashed, the covers are one or none as chosen; in between, the new one is a cover and its request will clear the rest (`NewCover`) |
| `RatingsHold` | `RatingUnlessRaced` | `ReviewInv`: who has written a review has its row to itself (`OneWriter`), and a rating that was counted, with no commit since, is that of the rows with its own (`DealOK`) |
| `RisksHold` | `LevelWeighs`, `QuietBounded` | the points of 16 sets of grounds (`LevelsWeigh`); quiet holds under way plus quiet rows: an assessment that lacks the fifth one's ground saw four rows at most |
| `TermsHold` | `DiscountCapped`, `KeptWord`, `BestRuleCounts` | `TermsInv`: a quote not yet used is what the code or the cancellation would give now (`QuoteStands`); the rule that counts has the most days (`RuleCounts`), which in a graded policy is the best (`BestIs`) |
| `RequestPartsImplemented`, `SignInHolds`, `GuardsHold`, `ChatHolds`, `PagesHold`, `SavesHold`, `HostHolds`, `BlockedHold`, `ListingHolds` | `SignInSafe`, `GuardsSafe`, `ChatSafe`, `PagesHonest`, `SavesOnlyTyped`, `HostSafe`, `BlockedStaysUnsold`, `ListingSafe` | as for `MCBackground` |

The assumption of `CalendarImplemented` is needed: with reviewers a stale decline
returns nights twice, and the calendar is not implemented. That of
`RefundsLast` is needed too: STRIPE sends two events with ids of their own for one
charge, and the second revives a payment that was refunded in between (section 5).

How the proofs are laid out: a component's state is a record, or a function to
records, and its invariant is stated over one record (`CallOK`, `TaskOK`, `TabOK`);
one lemma says that a step which moves one record keeps the others' invariant,
and the proof of a step has one case per action. What counts things
(`InvoiceInv`, `DispatchInv`, `LockoutInv`) rests on lemmas about the cardinality of
a set that gains or loses one element.

Three of the statements were corrected by their proofs. `WrongBounded` used to
be a bound that two tabs keep and a third one breaks; `AdmitsWithinRate` used to
hold only because the run's clocks are close; `BestRuleCounts` used to promise the
best of the rules that are met for every policy, while `refundPercentByRules` takes
the one with the most days: where a policy gives more to who cancels later the
two differ, and the property now speaks of policies that are `Graded`.

Some operators are written so that they can be reasoned about, with the same
meaning: `Extended` for `@@`, the answers' `Codes` as a set (STRING does not tell the
provers its elements), the sums of `Total` and `Level` term by term instead of as a
fold, and `RefundPercent` by what the sorted search finds (the sort is stable, so of
rules with equally many days the first listed) instead of by SortSeq.

Only model-checked:

- liveness (`EveryHoldEnds`, `MoneyAnnounced`, `EveryEventHandled`, `EveryRequestEnds`,
  `KeyIsReleased`, `WorkGetsDone`, `FlagServed`, `RequestsSettle`), which is beyond this
  prover;
- the statements of `late_payment`, `web_hang` and `logout_all`, which are false.

`PayTypeOK`, `RelayTypeOK` and `CancelAnnounced` are stated for the reader; they are
part of no run and of no theorem of their own.

## 5. Known races and disagreements without a run

The models contain more behaviours in which the code does not keep what it sets
out to do. Those of the first two lists were seen as counterexamples of TLC; the
properties of section 3 are stated so that they hold beside them, and say so
where they except one. Those of the third list were met while reading.

Bookings and payments:

- `bookings.service.ts:289`, `:329`: a review that was read before the booking was
  cancelled confirms it afterwards, or credits its nights a second time
  (`staleWrite` in `BookingInventory`, hence `ConservedUnlessStale`).
- `fraud.service.ts:133`: two deciders who both read PENDING both decide
  (`VerdictIsFinal` excepts stale writes).
- `fraud.service.ts:139`: APPROVED over a booking that the other console has
  confirmed leaves a HOLD without `holdExpiresAt` (`HoldHasDeadline` excepts it).
- `fraud.service.ts:161`: a rejection walks local midnights (`setDate`) while hold and
  the job (`:99` of the bookings) select rows between two instants, so in a zone
  other than UTC it credits the night before the stay, or none
  (`RejectionReturnsNights` states what it should do).
- `payment.service.ts:235`: a failure that read PENDING overwrites a success.
- `payment.service.ts:180`: the two success events of a STRIPE charge, with a
  refund between them, leave a refunded payment SUCCEEDED (`RefundsLast` assumes one).
- `payment.service.ts:442`: two refund requests that both read SUCCEEDED refund twice.
- `payment.service.ts:477`: a full MOCK refund returns no nights.
- `payment.service.ts:102`: a second intent overwrites the first one's id; money
  that arrives for the first finds no payment.
- `bookings.service.ts:563`: two cancellations of a paid booking return its
  nights twice.

Idempotency, promotions, events:

- `bookings.service.ts:265`, `idempotency.service.ts:73`: an error after the business
  transaction committed marks the key FAILED, and the client that is told to use a new
  key executes again (`FailedDidNothing` states what FAILED should mean).
- `promotion.service.ts:324`: two releases of a booking that both read APPLIED give its
  use back twice, which makes room for one use more than the limit; they run at the
  same time because booking.refunded has the key `booking.refunded:<id>` in
  `bookings.service.ts:627` and the booking's id in `payment.service.ts:481`, or after a
  rebalance (`overdrawn` in `FirstPaidWins`). Two confirmations that both read RESERVED
  (`payment.service.ts:219` and `:356` against `saga.coordinator.ts:145`) count one
  booking twice, and the second, if it finds no room, releases what the first applied.
- `promotion.service.ts:324` against `:310`: a refund that reads the redemption
  as RESERVED while a confirmation commits releases it without giving the use back
  (`RefundReturnsUse` states the promise).
- `saga.coordinator.ts:117`, `fraud.service.ts:171`, `promotion.service.ts:194`: a
  booking that has ended keeps its code when the release failed and the error was
  swallowed, when it was rejected by the fraud console, or when the code was
  applied after the read.
- `events-consumer.service.ts:188`: a group that has never committed misses what
  was published before it joined (`SkippedBeforeJoinOnly` says: nothing else).
- `auth.service.ts:87`: a refresh that waited in vain for the rotation lock rotates
  by itself and then deletes the other's lock; the conditional UPDATE of the hash
  is what `AnswersFollowTheChain` rests on, not the lock.
- `files.service.ts:91`: a key that is confirmed again between the deletion of its
  row (`:154`) and that of its object (`:159`) gets a live row without an object
  (`crossed` in `RowsHaveObjects`); a confirm that refuses an object put in the meantime
  deletes it (`minio.service.ts:174`, `:179`) although a live row may name the key.
- `files.service.ts:49`: the presigned PUT is valid for 600 seconds and may replace
  the object of a file that was scanned CLEAN and attached (`replaced` in
  `AttachedIsHarmless`); it is not scanned again.
- `thumbnail.service.ts:214`: of two renderings at a time one may delete the object
  the other names (`overlap` in `VariantsStored`).
- `token-state.service.ts:41`: a bump whose write to Redis is lost leaves the old
  version cached (`torn` in `CurrentUnlessTorn`).

Met while reading, and not in a model:

- **Client against server.** `TransformInterceptor` wraps answers in
  `{success, meta, data}`, while the client reads `data.accessToken` and rows
  directly; outside development its sanitizer drops keys that are named like a
  token. `toApiError` reads a message at the top of the body. `ReviewManagerPage.tsx:68`
  reads `items`, the server answers `{data, nextCursor, hasMore}`. The models take
  the client to find the handler's result. Pages make a new `Idempotency-Key` for
  each click, so the gate sees a retry of the user as another request.
- **Order of registration.** The handler of CSRF errors in `main.ts:150` is registered
  before the middleware that throws them; `POST /payments/webhook` is not among the
  ignored paths (`csrf.config.ts:12`), so that it is answered 403 unless CSRF is off (`Reachable`);
  the CORS `allowedHeaders` (`main.ts:116`) lack `Idempotency-Key`. The
  global `PermissionsGuard` (`rbac.module.ts:17`) runs before a controller's
  `JwtAuthGuard`, so that a route with required permissions finds no user.
  `GET /promotions/preview` comes after `GET /promotions/:id`, and `GET /bookings/my`
  after `GET /bookings/:bookingId`: neither is reached. No route names a rate limit.
- **Settings.** `.env.example:14` sets the topic prefix `dev.`; the consumer strips it
  (`events-consumer.service.ts:252`) before the coordinator looks for `dev.file.uploaded`
  (`saga.coordinator.ts:31`), and its `EVENT_TOPICS` lacks the topics of files; the default
  topics (`events-consumer.service.ts:16`) have `file.uploaded`, which without a prefix is
  not the topic `dev.file.uploaded` of `files.service.ts:110`: files stay PENDING (`FilesConsumed`).
  The consumer without topics says it "will stay idle until topics are created"
  (`events-consumer.service.ts:142`) and never subscribes later.
- **Names.** Rules are stored for `'Property'` in `doc/rbac.md:133` and checked for
  `'property'` in the guards; `SecurityEventType` of the schema lacks most of the types
  that the services log, and `logEvent` swallows the error; the seed's `manage:*` is no
  wildcard for `match`.
- **Accounting.** `createIntent` charges `totalPrice` and ignores a discount
  (`payment.service.ts:82`); a promotion may become PERCENT by an update that does not
  name the value (`promotion.service.ts:65`), and a FIXED value may be negative;
  `cutoffHour` and `checkInHour` are copied and never read; a policy is attached in any
  status. With auto-confirm off, booking.paid is announced twice and the invoice is
  sent twice; a mailer that is switched off still leads to `invoice.emailed`; an
  error while sending is swallowed.
- **Inbox.** Pinned conversations are sorted last, archived ones are listed,
  previews show deleted messages, and messages are ordered by a random id
  (`messaging.service.ts:349`).
- **Sign-in.** A wrong password or a wrong code beside a valid refresh cookie is
  answered 401 and sent again by the client (`api.ts:104`), and is counted twice (the
  `marks` of `OneEffectPerSubmit`). A file that is refused after the upload is deleted
  and answered 500, since `minio.service.ts:175` throws a plain Error.

## 6. Not modelled, and why

Whole parts:

- *audit and security events*: append-only rows that no operation reads;
- *health, demo and development endpoints*: no state of their own, or states forced
  for tests that no handler produces;
- *database schema*: migrations and seeds. The models and unique keys on which a
  module rests are mapped where they are used.

Parts of components:

- *payments*: the event `refund_failed`, which touches Refund rows only; amounts;
- *property*: `createProperty` (one insert) and `reorderPhotos` (writes positions only);
- *auth*: `register` (one insert with a unique key), and the deny list of single
  access tokens, a Redis key that nothing else reads;
- *mfa, password*: the guesses at `disableTotp`, which no limit counts; a process that
  dies between the INCR of a counter and its EXPIRE, and leaves a counter without end;
- *notifications*: `upsertPref`, templates and their rendering;
- *messaging*: archive, mute and typing, which no other operation reads; search;
- *search*: queries, the OpenSearch adapter (the application wires Meilisearch), and
  `removeProperty`, which nothing calls;
- *files*: `get`, `list` and `presignedGet`, which change nothing;
- *kafka*: client configuration; the growth of partitions, after which the messages
  of one stream may lie in two partitions (`EventRelay` takes their number as given);
- *common*: middlewares that add headers, ids or log lines; the sanitising of HTML;
- *web*: layout, routes, forms that post once, lists of properties, and the review
  manager, which reads a field the server does not send.

`src/src/modules/saga/events-consumer.service.ts` is commented out as a whole; the
consumer is the one in `events/`. Liveness is stated only where the code's own timers
and redelivery justify it: nothing promises that a guest pays or a host answers.

## 7. What is left

- saga, promotion and bookings in one module, so that a stale review meets a code
  that is being released; the two meet here only through `events`;
- the growth of partitions in `EventRelay`, and the deny list beside `TokenState`;
- amounts, so that what was charged, refunded and promised can be compared.
