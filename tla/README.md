# GuideHerd: TLA+ models, checks and proofs

GuideHerd answers a law firm's telephone: a voice agent qualifies a caller,
offers consultation times, books one with a calendar provider, and hands the
caller to a receptionist. The server (`src/server`) keeps several small durable
state machines in PostgreSQL (an in-memory twin of each serves development) and
a configuration in SQLite, and drives them from HTTP requests, pollers and
boot-time recovery. A training portal (`src/training-portal`) sells lessons
through Stripe. Hardly a transaction spans two rows, and none a row and an
outside service, so what holds between two awaits is what these modules are
about.

## 1. Inventory

| component | state it keeps | operations | talks to |
|---|---|---|---|
| booking-context store (`scheduling/booking-context-store.js`, `operational/booking-context-repository.js`, migrations 0007-0011) | one row per availability offer: status, chosen instant, calendar, event id, original of a reschedule, `updated_at`; a partial unique index on (calendar, instant) of occupying rows | create, claim, complete, begin/complete cancellation, begin/complete reschedule, resolveVerification, reconcileStale, lazy expiry | everything below |
| booking, cancelling, rescheduling (`scheduling/booking.js`, `cancellation.js`, `reschedule.js`) | none; a request is a sequence of awaits | bookAppointment, cancelAppointment, offerReschedule, confirmReschedule | store, calendar provider |
| reconciler (`scheduling/booking-reconciler.js`, run by `handoff/app.js` and `server.js`) | none | park stale rows; read evidence; resolve parked rows and pairs | store, calendar provider |
| calendar provider (`scheduling/calendar-provider.js`, `msgraph-calendar-provider.js`) | the provider's events, outside our control | createEvent, updateEvent, cancelEvent, findEventByCorrelation, busy intervals | Microsoft Graph |
| availability offers (`scheduling/offered-slots.js`, `native-availability.js`, `slot-generation.js`, `selection.js`, `hours.js`) | none | resolve targets and hours, read busy times, generate, merge, filter, rank | configuration, calendar provider |
| handoff sessions (`handoff/store.js`, `service.js`, `operational/session-repository.js`) | prepared session, single-use token, status, outcome | create, redeem, connect, cancel, expire, record outcome, purge | outbox, conversations |
| conversations (`connect/*.js`) | none | correlate a conversation with a prepared session, report an outcome | sessions |
| notifications and delivery claims (`notifications/*.js`, `reliability/claims.js`) | a claim per session and per notification: status, age | claim, record; summary, its recovery, confirmation | sessions, outbox, mail |
| outbox (`outbox/outbox.js`, `operational/outbox-store.js`) | events, a delivery per consumer, attempts | append with an outcome, claim, complete, fail, abandon, drain | workflow, notifications |
| scheduler (`scheduler/scheduler.js`, `operational/scheduled-actions.js`) | actions: due, expiry, attempts | schedule, cancel, claim, complete, fail, expire | reminders, workflow |
| workflow engine (`workflow/*.js`, `operational/workflow-store.js`) | instances, a row per signal, steps | start, signal, compare-and-set transition, step claim/complete/fail | outbox, scheduler |
| configuration (`configuration/*.js`, `config/*.js`, `scheduling/readiness.js`, `scheduling-targets.js`) | a JSON document per domain, the attorney, group and type catalog, an audit trail with versions | normalize, gate, save, seed at boot or by hand, resolve a route, readiness | offers, booking, notifications |
| administration and identity (`administration/*.js`, `identity/*.js`, `admin/index.html`) | users, roles, sessions; a portal page's versions | login, logout, authorize, edit | configuration |
| training portal paywall (`training-portal/functions`, `migrations`) | users, customers, subscriptions, entitlements, audit rows in D1 | checkout, webhook, verify, access | Stripe |
| operations, alerting, telemetry, HTTP routing, consoles, documents | see `PROJECT.json` and section 5 | | |

Where it is hard. A booking row lives through awaits of several requests and of
the reconciler; each write is a conditional update that may find the row moved
on. A calendar write has three outcomes (confirmed, rejected, unknown) and an
unknown one may have happened; the code never retries it and never guesses. A
process can die anywhere. A reschedule touches two rows and an event with one
update each. Deliveries, notifications, actions and steps are all claims that
go stale after five minutes and are settled by updates that look at nothing but
the key. Correlation walks signals over sessions that move. Configuration is
normalized on the way in, judged again at every boot, and read through a
catalog that changes under it. Authority is checked before a body is awaited.
Stripe tells everything at least once, and D1 has no transaction.
`PROJECT.json` lists these hazards with their lines and the properties that
watch them.

What correctness means, per component. The store never lets two rows hold one
slot, never rebinds a row, never rewrites a settled one; requests never leave
an event without an owner, a booked row without an event, zero or two live
appointments, or a caller told something untrue; the reconciler acts on
evidence only and leaves nothing resolvable behind. Offers lie in the hours of
whom they are offered for, fairly spread, the best first. A session goes to one
conversation, its own, and its outcome and events commit together. A delivery,
a notification, an action, a step has one processor at a time, is settled once
and eventually; attempts are bounded. What an administrator saves is what is
read, what is called ready is routable, no page or old file overwrites what it
did not show, and an administrator remains. Who pays is let in, and only they.

## 2. Modules

| module | models | composes with |
|---|---|---|
| `BookingContexts` | the booking-context store; `StoreSpec` is the store under any calls from anybody | |
| `BookingLifecycle` | booking, cancelling, rescheduling, provider, reconciler | EXTENDS `BookingContexts`, implements `StoreSpec` |
| `Outbox` | events, deliveries, drains of several instances | implements `Deliveries` |
| `Deliveries` | what the outbox promises, whoever processes | |
| `Sessions` | handoff sessions and the correlation engine | |
| `Notifications` | the summary and the confirmation of an outcome | EXTENDS `Sessions` |
| `Scheduler` | scheduled actions and their drains | |
| `Workflow` | the workflow engine, its steps, its timeout | EXTENDS `Scheduler` |
| `Administration` | users, sessions, versioned saves, portal pages, boots | |
| `Offers` | an availability check, from the request to the ranked slots | |
| `Domains` | the configuration domains' documents: normalizer and gate of each | |
| `Configuration` | stored documents, catalog, seeds, boots, routes, readiness | EXTENDS `Domains` |
| `Paywall` | webhook, return page, rows and access query of the portal | |
| `*_proofs` | theorems and proofs about the module they are named after (of `BookingContexts`, in `BookingLifecycle_proofs`) | EXTEND it |
| `MC*` | instances for TLC: values, symmetry, opening states | EXTEND it |

In every module an action is one operation up to its next await (or one SQL
statement or transaction), and a request, drain or worker is a record with a
program counter `pc` for where it waits. What a TLA+ name stands for is in
`PROJECT.json`, "map". The in-memory twins of the stores are mapped beside the
repositories: their operations are the same actions.

### BookingContexts

`rows` maps each context id to its row, `parked` is the verification queue in
the order of `updated_at` (what `listByStatus` sorts by). One row of the table:

* `status` is `BookingContextStatus`, with "absent" for an id not yet inserted;
  `native` is "provider_key is set" (a legacy row was offered through Cal.com);
  `offered`, `targets`, `calendar`, `start`, `event`, `rescheduleOf` are the
  columns of those names; `reason` keeps of `rejection_reason` the family the
  reconciler switches on; `aged` is "`updated_at` is STALE_BOOKING_MS old".
* A conditional `UPDATE ... WHERE status = ...` is an action guarded by that
  status; a call that updates nothing is no step. `Claim` and
  `ResolveVerification` also meet the partial unique index of migration 0009
  (0011 adds `rescheduling` to its statuses): `SlotFree`.
* One organization. The audit rows written after each update, best-effort, are
  left out.

### BookingLifecycle

A request `r` has a program counter per await: `recheck` (busy re-check, then
the create), `creating`, `cancelling`, `begin` (the successor is claimed, the
original not yet), `moveCheck`, `moving`, `settleSuccessor` (between the two
updates that end a move), `done`. `write[r]` is its one provider call: sent, or
its reply. `ProviderApplies` lets a write take effect at any moment after it is
sent, whether or not the request or its process is still there; `NoReply` is a
timeout, a 5xx, a lost connection. `*PersistenceFails` is a store that throws
before or after committing; `Crash` is a dead process, or an exception nothing
catches. The attorney may fill the calendar and delete or move events where a
run's constants allow. The provider names an event by the context that created
it: that is its correlation id, and Graph deduplicates creates by
`transactionId`, which is that id. The adapter's correlation check reads the
event before it writes; the model checks and writes in one step. The legacy
Cal.com route is the same claim, create, complete without re-check.

A pass `k` of the reconciler parks the stale rows and lists at most `Limit`
parked ones (`Tick`), and for each reads the event (`Examine`) and resolves the
row (`Resolve`), then the row's original (`ResolveOriginal`), in separate
steps. `Leave` is an unreadable provider or a legacy row, `PassRaises` the index
refusing a resolution, which ends the pass, and `PassDies` a dead process.

`told` is the last outcome a caller was given, `creates` counts create calls;
both exist only for properties. Three constants name assumptions about time
and callers, which the code makes and does not enforce:

* `WritesLand`: a provider write takes effect before the client gives up on it,
  or never. Nothing enforces it; `booking-reconciler.js:36` waits the stale
  window for it, but a row the request itself parks waits for nothing.
* `RequestsTimely`: a live request is over within STALE_BOOKING_MS (provider
  calls time out in seconds, the window is two minutes).
* `TokensKeptApart`: the token of a reschedule offer is only given to
  confirmReschedule. `bookAppointment` does not ask. With it FALSE and three
  requests TLC refutes `CancelledIsTrue`: a successor booked as a new appointment
  has an event of its own, which cancelling it does not address.

### Outbox and Deliveries

`delivery` has a row per event and consumer: `status` ("none" before the first
claim, which is the absent row of `outbox_deliveries`), `attempts`, and `ripe`:
the failed row's `next_attempt_at` has come, or the processing row's
`updated_at` is five minutes old. `Publish` is `append`, in the transaction of
the business change; ids become visible in any order. An instance's drain is a
record: the consumer whose `turn` it is, what is left of the page it listed
(`queue`), the `event` in hand and the `attempt` its claim returned. Listing
and claiming are separate steps, so a listed delivery may be lost to another
instance (`ClaimLost`); `Complete` and `Fail` look at nothing but the key, as
the code does. `CompleteThrows` is a store that throws on `complete`: behind a
handler the catch block takes it for the handler's error; for an unsubscribed
event the drain ends. `DrainDies` is a crash or any other throw. At most
`MishapLimit` such things happen in a behaviour. Drains that overlap in one
process coalesce, so a process has one.

`Deliveries` says what that should amount to: a published event is owed to
each consumer until it is completed, which needs a handler that returned or an
unsubscribed type, or abandoned, which needs `MaxAttempts` tries; both are final.

Two constants name assumptions: `HandlersTimely`, a handler and its update are
over within the stale window unless the process died, and `CommitsAnswered`, a
store call that throws has not committed.

### Sessions

A row of `session` has status, caller number and outcome; `events` is what the
transactions of that session appended to the outbox. Each store operation is
one transaction under row or advisory locks, so one step. `call[c]` is a
conversation on its walk through the correlation engine: session id, then
number, then the baseline, each a call of `connectEligible` (`Matches`,
`Defers`, `Refused`), with anything between two calls. A row expires when its
time is over; the code stores that when the row is next touched and tests the
time everywhere else, so the two do not differ.

### Notifications

The report of an outcome claims and sends the summary inline; consumers of the
same event recover a summary nobody attempted and send the confirmation. A
worker `w` walks `claim` (the session's own claim), `notify` (the
notification's), `send`, `record`, `mirror` (the result written back to the
session) and `settle` (the outbox delivery). `owed` abstracts `Outbox` to what a
consumer sees: redelivery after a failure or once the delivery is five minutes
old, up to `MaxAttempts`. Mishaps are a lost reply of the mail system, a throw
at any step, a death. `Timely`: no attempt outlives its claims.

### Scheduler and Workflow

An `action` row has a state, tries and `ripe` (due, retried, or a stale claim,
whichever the state asks for). An executor's drain expires what is over, lists
what is due, then claims, handles and settles one action after the other;
`cancel` and `expireDue` take an action whoever handles it, and `Complete` and
`Fail` rewrite it whatever it became. `CompletionUnanswered` is a completion that is
committed and then reported failed, since the catch block cannot tell.

`Workflow` adds one instance of a definition: `inst` is its state, `signal` its
row per event or timeout, `step` the steps its transitions recorded. A job is
an event's handler, a timeout's handler (inside a drain of `Scheduler`), or the
poller's drain of steps. A signal is read and applied in two calls (`ReadInstance`,
then `Move`, `Ignore` or `LoseOrRepeat`), the second a compare-and-set; steps are
claimed as a batch and executed one by one; the step of the starting event
schedules the timeout. `ran` counts effects. The outbox is an event that is
delivered again until its handler returns.

### Administration

`user` is the directory, `session` the login sessions, `page` a browser with
the portal open (its cookie, the values its forms show, the versions it
believes), `req` the request it waits for: session read, admission, and body
are three awaits, and what is decided in one is used in the next. A value of
the configuration is the number of the write that made it. `Boot` imports the
seed, or not, and reads whom the environment provisions (`deployed`, one of
`Deployments`) anew, while the stored sessions stay; `Stop` kills what is under way.
`NoneWithdrawn`: no deployment takes a provisioned administrator out again. A
session whose user has no record passes as it was issued (`app.js:303`), so one
who was taken out stays an administrator until their session expires; no document
says otherwise.

### Domains and Configuration

A document is abstracted to a kind per field: absent, null, malformed, on, off,
or good with the catalog keys it names. `Sheet(d)` says for each of the
domains in `configuration/domains.js` what each field takes, what it defaults
to and what the keys it names must be; `Accepts` is the gate, `Value` the
normalizer as the consumers call it. `Configuration` follows one domain at a
time (`Followed`): its stored document and author, the catalog, the seed file
and mode, and boots. `Route` is what the resolver in `scheduling-targets.js` answers,
`Ready` what `readiness.js` says.

### Offers

One check is under way while calendars fill and the configuration changes. Time
is a count of units, `Day` to a day, and a zone changes its offset once, so
gaps, folds and days of unequal length exist in small. A new appointment has the
targets routing resolves; a move has the calendar and the attributed attorney of
its row (`TargetOfRow`), whatever routing says by then, must come before the cutoff
(`InTime`), and is not blocked by its own interval (`Appointment`). A location's
own time zone is collapsed to the organization's. The operators translate
the arithmetic of `slot-generation.js`, `hours.js`, `selection.js` and the merge;
the properties say the result in terms of the wall clock instead.

### Paywall

One user, subscriptions with plans, `Handler` runs of the webhook and `Visitor`
runs of the return page. Each D1 statement is a step and a run can die after
any (`Die`); `SyncFails` is the caught error of a checkout. `events` is what
Stripe has to tell; an event is told until its audit row, written last, is
there. One constant names an assumption: `ToldInOrder`, Stripe tells the next
event of a subscription when the one before is answered. The webhook does not
enforce it (`webhook.ts:282-290` looks for the event's own audit row and no
other) and Stripe promises no such thing. Without it two handlers may work for one
subscription and a retry may come after later events (`Due`).

## 3. Runs

| run | question | bounds |
|---|---|---|
| `booking` | can first bookings, moves and cancellations collide, lose their event, or tell a caller something untrue; is every step one of the store's (`StoreSpec`)? | 2 contexts (native or legacy), 2 instants, 2 requests, 1 pass, the attorney may fill any instant |
| `mixed_operations` | from a booking with a move offer and a fresh offer outstanding, under fairness: is anything orphaned, lost or stranded, held or created twice, or called cancelled while its event is there? | 3 contexts, 2 instants, 2 requests, the attorney may move or delete the new booking's event |
| `two_moves` | finding, section 6 | 3 contexts, 3 instants, 2 requests |
| `outbox` | do the drains implement `Deliveries`, one processor per delivery, everything settled? | 2 events of different types, 2 consumers, 2 instances, page of 1, 2 attempts, 1 mishap |
| `sessions` | does every conversation get its own session, and tell its story once? | 3 sessions under a cap of 2, 2 numbers, 2 conversations |
| `notifications` | is a summary sent by one at a time, truly, for good, and always settled? | 1 session, 2 workers, 3 attempts, 1 mishap |
| `automation` | do executors share an action or a step, does a replay move the instance, is the follow-up reached? | 2 executors, 1 instance of three states, 2 events, 2 actions, 2 tries, 1 mishap |
| `administration` | does an administrator remain, is anyone else admitted, is anything silently overwritten? | 3 subjects (1 deployed, or after a boot all), 2 browsers, 2 logins, 5 writes |
| `configuration` | is what was saved what is read, does a boot refuse it only for a cause, is ready routable, do live edits win? | all 17 domains; documents one field away from blank, partial and complete; 2 attorneys, 2 groups, 1 type |
| `offers` | are offers in the documented hours, spread evenly, the best ones? | days of 8 units, weeks of 2 days, 4 zones, 3 policies, 2 routings, 7 requests, 1 change |
| `paywall` | is a lesson shown to who pays and to nobody else, once all is handled, if events are told in order? | 2 subscriptions of 2 products, 2 webhook runs, 1 return page, 4 events |
| `late_retry` | finding, section 6 | 1 subscription, 1 webhook run, 1 return page, 3 events, `ToldInOrder` off |

Why the bounds are enough.

* Booking: a slot conflict, an orphan, a mistaken pair needs two rows; a third
  adds a competing successor or a newcomer to the freed instant. Two instants
  are a present and a future of an event. Two requests race on a row. A request
  slot is used once, so the number of requests bounds operations. `Limit` is
  the code's 50, never reached. One pass runs at a time: the poller does not
  overlap itself; two instances of the server would, and so may the boot's pass
  (section 6). The opening states of `MCBookingLifecycle` are states `Spec` reaches. In
  `mixed_operations` the two requests, which are interchangeable, begin in order (`InTurn`).
* Outbox: a page of one event makes the second wait behind the first, as event
  101 waits in the code; two attempts are the least that has a retry; one
  mishap is one wasted claim, and any number is covered by the proofs.
* Sessions: two eligible sessions are an ambiguity, the third one is the stranger
  that appears during a walk; with two calls one takes what the other walks for.
* Notifications: sessions share no row, so one is enough; three attempts leave
  one after a mishap met the inline attempt.
* Automation: the reply is ignored in one state and moves the next, which is
  what a stale replay needs. `Apart` keeps the reminder and the workflow to
  different behaviours: they share no row.
* Administration begins after a boot with one or two administrators in the
  directory; five writes let two of them remove, restore and overwrite; a boot
  may provision the users of the directory as well, and once it has, they stay (`NoneWithdrawn`).
  `Reseeding` is off: with a seed that is imported at every boot values change
  without a version, which is what that mode is documented to do.
* Configuration: gate and normalizer judge fields separately, except the few
  pairs the complete and partial documents contain; boots and catalog changes
  are not bounded.
* Offers: a unit stands for three hours; the zones put a change before, inside
  and after a window, in both directions and on both sides of UTC.
* Paywall: two subscriptions of different products are what the access query can
  confuse; four events are a purchase (two), a change or an invoice, and an end; the
  late retry of a purchase's first event takes three.

`CHECK_DEADLOCK FALSE` is said where an instance has nothing left to do once its
requests, mishaps or changes are used up.

Properties that hold only under a named assumption: with `WritesLand` FALSE
`NoOrphanEvent` and `NoDoubleBooking` fail, as a create that lands after the
reconciler read "no event" leaves one nobody owns; with `RequestsTimely` FALSE
`ToldIsDurable` fails, because `confirmReschedule` ignores the null of its last
update; with `Timely` or `HandlersTimely` FALSE the one-processor properties
fail, as a handler that outlives its claim shares it; with `CommitsAnswered` FALSE
`PromiseKept` fails; with `ToldInOrder` FALSE `AccessIsPaid` and `PayingIsLetIn`
fail; with `NoneWithdrawn` FALSE `OnlyAdministrators` fails. Where a document or a
comment promises what fails, section 6 says so. `SlotGuard`, `SingleAttempt` and
`CancelledIsTrue` need no assumption on time or the attorney, and what a purchase amounts
to (`BuyingLetsIn`) none on Stripe's order: these are theorems (section 4).

### Fairness

`MixedFairSpec` adds, and nothing more:

* weak fairness of the live requests' steps together (their provider calls have
  hard timeouts, an exception or a crash ends the rest) and of the provider's
  handling of sent writes;
* weak fairness of time passing for a row in flight (`Elapse`), and of `Tick`
  and the steps of a pass: boot and the poller (`server.js:150-178`) call it for ever;
* strong fairness, per row, of `Examine` and `Resolve`: a row that is looked at
  again and again is at last read successfully and its resolution at last
  lands. `Leave` and `PassDies` may come first any number of times. This is the
  assumption that the provider is not down for ever and that the 50 oldest rows are
  not all unresolvable; without it `NothingStranded` is false, and should be.
  `NothingStranded` excludes what no evidence settles: legacy rows, the
  parked original of a pair whose successor the operator has to judge, and a row whose
  resolution the slot index refuses, as it may after the attorney has moved an event: that
  one the code retries for ever, and ends the pass over it each time.

The outbox's `Fairness` is weak fairness of each instance's drain (the poller
re-arms after every drain, `outbox.js:322-329`, and the handlers and store calls of a
live process return or throw) and of a row becoming ripe, which is time passing.

`Notifications` and `Workflow`: a worker that began goes on (weak); a delivery,
the step poller and the scheduler's drain are, again and again, taken up by some
free worker (strong, because a worker may be busy with something else each time;
pollers re-arm for ever in `server.js`); time passes (weak). Nobody has to
report, publish, withdraw, or let an action expire. `FollowedUp` needs
`MishapLimit < MaxStepTries`: a death in a step's last attempt leaves it pending
for good.

## 4. Proofs

`BookingLifecycle_proofs` first proves of the store, for any contexts (finitely many),
calendars and instants:

* `TypeCorrect`: `StoreSpec => []TypeOK`. Inductive as it stands; the work is
  that the sweep's order is a sequence over the stale rows and that removing a
  position leaves a sequence.
* `SlotGuardHolds`: `StoreSpec => []SlotGuard`. The inductive invariant is
  `TypeOK /\ SlotGuard`; the argument is one lemma (`WriteKeepsGuard`): a write
  of one row keeps the guard if the new row holds nothing, holds what it held
  before, or holds a slot `SlotFree` found free. A row that leaves and re-enters
  the occupying statuses does so through `ResolveVerification`, which is why
  that operation has to meet the index.
* `BindingNeverChanges`: `StoreSpec => BindingIsFinal`, with the invariant
  `Unchosen` (an absent or offered row has no instant chosen), since `Claim` writes
  the instant and only an offered row is claimed.
* `SettledNeverChanges`: `StoreSpec => SettledIsFinal`.
* `QueueIsExact`: `StoreSpec => []QueueExact`: the queue the reconciler lists has
  every parked row, each once, and no other. It is inductive beside `TypeOK`; what a
  removal from the middle and a sweep append is stated once (`RemoveAtEntries`,
  `OrderExact`).

They assume `NoneAssumption` (NULL is no value) and `TableIsFinite` (the table
is finite, so the sweep can be put in an order). The steps are proved one action
at a time; `PutTypeOK`, `RemoveAtType` and `PutRow` say what a single-row
update does and are cited throughout.

Then, of the whole lifecycle, for any requests, passes, contexts and
instants, and with none of the three assumptions about time and callers:

* `LifecycleTypeCorrect`: `Spec => []LifecycleTypeOK`. The type invariant alone
  is not inductive; `LifecycleInv` adds that a request at work, or whose write
  is still under way, names a row that exists, claimed for an instant if it books or
  moves, with an original if it moves (`RequestsHold`), that a request's operation
  fits its step (`PcMatches`), and that a pass knows the rows it resolves (`PassesHold`).
* `ImplementsStore`: `Spec => StoreSpec`. Each action either leaves the store
  alone or is one of its operations with arguments in range, which is what
  `LifecycleInv` supplies. `LifecycleKeepsStore` carries the slot guard, the final
  binding and the settled rows over.
* `OneAttempt`: `Spec => []SingleAttempt`. Needs `Attempts`: an unclaimed context
  has sent nothing, and one between its claim and its create has sent nothing yet
  and has one request there.

and, with assumptions (of the code's timing and callers, and `EventAssumption`: NULL is no
event),

* `CancellationIsTrue`: `Spec => []CancelledIsTrue` when tokens are kept apart, with no
  assumption on time. `BaseInv` says that a claimed context has one request at work on it,
  that a request before its write has none, and which calendar an event is on;
  `CancelInv` adds `LandedOnce`: a context whose event exists, or has left a
  trace in a row, a pass's evidence or a reply, has no create to come or under way.
  So once the event of a row is gone (`Gone`) it stays gone; and the rows, requests
  and passes that can settle a row as cancelled have found it gone.
* `NeverDoubleBooked`: `Spec => []NoDoubleBooking` under `Timely`: writes land in
  time, requests are timely, the attorney moves no event. `SlotGuard` is about rows and
  a parked row holds no slot, so `DoubleInv` adds `WritesClear`: where a write
  under way would put an event there is none. The check before the write makes it
  true, and it stays true because no other write can arrive there: the row of
  each is in flight and has not aged (`InHand`, which is where the assumptions are
  used), so both rows would hold the slot against the guard.
* `MovedNotLost` (`NeverZero`), `NoneOrphaned` (`NoOrphanEvent`) and `ToldWhatIs`
  (`ToldIsDurable`), when writes land in time and tokens are kept apart. What is false of
  either alone is that a row given up has no event; `PlainInv` adds it
  (`NoneRefused`: of a booking that was refused, or whose request or pass is about to
  refuse it), that only a booking creates an event (`EventsPlain`), that the
  queue and the passes hold no row whose booking is still open (`ParkedPast`,
  `PassPast`), and that a move goes to another instant (`Elsewhere`).
  `KeepInv` adds `MovedInv`: when a row says it was moved, an event is not where its
  row has it, a move has its reply or a pass has seen the event at the successor's instant,
  there is a successor that carries the appointment (`Carries`) and that nobody who works
  on it, or has evidence of it, is going to reject. `ToldInv` adds `Exclusive`:
  whoever moves or cancels a booking, or has a write under way to it, has it to itself and
  no pass takes it away; so what a reply confirmed still stands when the caller is told
  (`Confirmed`), up to the attorney's own deletions.
* `OneLive` (`NeverTwoLive`) and `BookedWhatIsReal` (`BookedIsReal`), under the same
  conditions with one pass at a time (`OnePass`), and as long as a booking has one change
  at a time. `OneChange` says that of the state: while a successor has been taken up and not
  refused, or a pass has just refused it and has yet to settle the original, the original has
  no other such successor, is not being cancelled, and if it is parked it is for the move.
  The theorems are of the form `Spec /\ []OneChange => []...`: without it both are false
  (`two_moves`, and `booking-reconciler.js:177`, section 6), and with it any booking may still
  be moved, refused, parked, resolved and then cancelled or moved again.
  `ChangeInv` says what each row claims of its event (`RowTrue`: a booking has one at its own
  instant; one that is elsewhere is on the move; a successor that has it has taken it there), what
  a request knows before its reply (`NotYet`), that what a pass has listed is still parked for the
  reason it was listed with (`QueueFresh`, which starts from `QueueExact`), and that what it saw
  in the calendar is still so when it acts (`SeenTruly`). The last two are where `OnePass` is used.

`Outbox_proofs` proves, for any events, consumers, instances, page size and
bounds: `OutboxTypeCorrect` with no assumption, and under `HandlersTimely` and
`CommitsAnswered`

* `OneProcessorHolds`: the invariant `Held` says that the row of a delivery in
  hand is exactly its holder's young claim; a claim needs a ripe row, so it
  never takes a delivery that is in hand, and no two drains hold one row.
* `OutboxKeepsPromise`: `Spec => PromiseKept`, the refinement of `Deliveries`.
  `Held` again supplies the guards: what is completed is owed, and was handled or
  is unwanted; the attempt the drain remembers is the row's. `TerminalHolds` follows.
* `AttemptsHold`: with `Counted`, a failed row has tries left and a processing
  row nobody holds was let go by a mishap that is counted.

`Notifications_proofs` proves of the sessions, for any sessions, numbers, conversations and cap, with
no assumption: `SessionsTypeCorrect`; `EventsAlwaysTellTheStory` and
`EveryCallItsSession` from the invariant `SessionsInv` (outcome and status agree,
an event is there exactly when the status says so, and a connected conversation's
session has left the eligible ones for good, so no second conversation finds it);
`OutcomesAreFinal`; and `NoGuess`, which is `Matches` itself once the steps of a
walk are told apart: a number that picks one eligible session, or no number that
picks any.

`Workflow_proofs` proves the scheduler and the engine together, for any actions,
steps, events, definition and executors: `WorkflowTypeCorrect` and `MovesStayNew` with no
assumption on time, and under `Timely` `OneExecutorHolds` and `OneStepHolderHolds`. The
scheduler's part of the invariant (`SchedulerInv`) is proved over `SchedulerMoves`, its
own steps and whatever else may happen to a drain, and every step of the engine is shown
to be one (`WithinScheduler`). That needs `Coupled`: a timeout's job exists only
while its drain is handling that timeout, so a returning handler completes its own action.
`StepsExclusive` says that a step in a batch or in hand is pending under a fresh claim;
only what is not is claimed, and under `Timely` no claim ripens under its holder.
`JobsHold` supplies what `MovesAreNew` needs, that a job about to apply a signal read it.
`StartsInFull` (`StartedInFull`) needs no assumption on time, but one on the definition,
`AwaitsTimeout`: no event leaves its initial state, as in the code. Without it the property
is false (`engine.js:231`, section 6). `StartInv` says that an instance past its initial
state, a settled starting event or a scheduled timeout has its initial step behind it
(`Begun`), and so has the job that is about to make it so (`JobStarts`); that what a drain
handles was scheduled (`Handed`) is what a job created by a redelivery falls back on.

`Notifications_proofs` proves, for any sessions, workers, attempts and mishaps,
with no assumption on time `NotificationsTypeCorrect` and `SessionsKept` (what delivers
outcomes refines `SessionsSpec`, so what is proved of the sessions holds of it), and
under `Timely` `OneSenderHolds`, `SentIsAlwaysTrue` and `SentStaysFinal`. The
invariant is `NotificationsInv`: a claim a worker holds is pending and fresh
(`NoticesHeld`, `ClaimsHeld`), and what a worker is about to record was so (`Truthful`).
Neither a fresh pending claim nor a sent one is granted, and under `Timely` none ripens
under its holder, so a record or a mirror overwrites only the pending claim of its own
worker. Without `Timely` all three fail: see the hazards.

`Administration_proofs` proves, for any subjects, tokens, pages and entities,
`AdministrationTypeCorrect`; `OneAdministratorStays`, from the count being taken in
the step that changes the user; `AdmittedAreAdministrators`, where `AdmissionInv` says
that a live session, and a request past it, names somebody the deployment or the
directory has, so that the overlay at admission decides and not what the session recalls,
which boots keep because of `NoneWithdrawn`, the theorem's assumption;
and, when boots do not import the seed
again, `NothingSilentlyOverwritten`, where `ShownInv` says that no page knows a
version ahead of the stored one, and that it shows what is stored while they are equal.

`Paywall_proofs` proves, for any subscriptions, products, plans, runs of the webhook and
of the return page, and any number of events, `PaywallTypeCorrect` and `BuyersAlwaysLetIn`
with no assumption on Stripe's order, and `AccessAlwaysPaid` and `PayersAlwaysLetIn` under
`ToldInOrder`, without which both are false (section 6); of the products it assumes that
"academy" is one, since it is what `/api/access` asks for. A settled state says little of
how it came about, so they rest on what is true on the way. In any order (`Unordered`):
`EventsTrue`, an event's status is Stripe's, or a later event corrects it (`Coming`), and
`Runs`, what a run works on was told. In order, besides, `AuditedInOrder` and `InOrder`: one
handler works for a subscription, on its oldest event without an audit row. `StatusTrue`: so is what a handler has read.
`SubsTrue` and `PaidTrue`: a row that grants what Stripe does not has its correction
`Ahead`, told, unaudited and not yet written past. Once nothing is unaudited, nothing is
ahead, and rows agree with Stripe. For letting in, `ServeInv` follows a subscription that
is `Alone`: unserved while active only while an event of it is `Unheard`; that a checkout
whose synchronization fails leaves the provisional row open, and one that succeeds
retires it after it opened the paid one, is `Serves`, by the handler's place. A visitor
only opens rows (`VisitorUndisturbs`).

`Configuration_proofs` proves all four properties of the `configuration` run, for any
catalog, documents, seeds and domain. `SavedIsAlwaysRead` rests on `ReadTwice`:
the lenient read of what the lenient read made changes nothing, by cases on the fourteen kinds
of fields (`KindsOK`) and the three domains that look at a document as a whole;
`RefusedOnlyForCause` on `CleanRead`: what is read of a document without issues has
none, in every domain whose kinds let their fallback pass, which is all but
`notification-branding` and `scheduling-prompt`. `ReadyIsRoutable` needs only types,
`LiveEditsAlwaysWin` the steps.

`Offers_proofs` proves the three properties of the `offers` run, for any length of a day and
week, zones, hours, policies, feeds, requests and any number of attorneys. `OffersInv`
(`AnswersAreBest`) says that a check's calendars and hours are those the configuration had when
it began, and that an answer is what the code's operators make of its reads, all of them made.
That is the small part: the properties say the same of the wall clock and by quantifiers, and
what lies between is what the algorithm computes.

* The clock. `LocalMidnightUtc` takes at most three corrections, and where a local day is one
  interval that shows its midnight they find its first moment (`MidnightOpens`,
  `ResolvedInDay`). A window both of whose edges the clock shows exactly once contains an instant
  exactly if the clock then shows a time between them (`ShownOnce`, `OrderByClock`).
* Generation is sound and complete (`GeneratedQualifies`): stepping 24 hours from noon of the
  start's day meets every local date up to the last (`NoonPasses`, `EveryDayIsVisited`), and
  counting minutes from midnight is counting them on the clock (`GridIs`, `OnGridByClock`).
* The merge of a pool (`MergeWorks`): each start goes to one who has it. `ChronologicalIs` shows
  that each start has one place in the order, since no number of steps skips or repeats one. Then
  `SpreadIsEven` (`EvenSpread`): of two attorneys with the same starts, the one given more was
  given his last one while he had no more than the other.
* A move's targets are its row's (`TargetsForOK`), whatever the configuration names.
* The ranking (`BeforeIsAnOrder`, `BestIsClosed`, `SomeBest`): `NoBetterLeftOut`
  (`NoBetterSlotLeftOut`), by what each preferred rank, day and half of the day is worth.

`OffersAlwaysDocumented` (`OffersAreDocumented`) assumes of every zone `ChangesByDay`, that its
clock is not changed near midnight; without that it is false (section 6). `MCOffers` has
TLC evaluate it for the zones of the run, which do change their clocks. The other three
theorems hold in every zone. Recursive functions are reasoned about without induction on data,
whose library theorems take an operator: what is claimed of every number is stated of the set of
numbers for which it fails, which has a least member (`LeastNat`) if it has any.

Model-checked only: liveness, fairness and ENABLED, which are out of the prover's reach.
`BookedIsReal` and `NeverTwoLive` are proved only while a booking has one change at a
time; of more than that the runs show what their requests can reach.

## 5. Not modelled, and why

* Alerting, telemetry, operations views: counters, logs and read-only pages; an
  alert is a mail through the claims of `Notifications`.
* HTTP routing, field validation, templates, prompts, the consoles other than
  the administration page, scripts, documents: formatting and I/O.
* Graph's throttling, token refresh and pagination, which end as one of the
  three outcomes of a calendar call; discovery of calendars.
* Audit rows and notices that are best-effort, come after the outcome and are
  read by nothing here. The reminder and cancellation notices and the
  integration connectors take the same claims as the confirmation.
* Static tokens, credential formats and the permissions other than the
  administration's; free text of the configuration; locations except their hours.
* In the portal: the billing page, prices no plan maps to, a change to another
  product, and the end of a paid period.
* Several instances or versions of a workflow definition; several organizations
  anywhere: they share no row, except the caps and queues noted at the hazards.

## 6. Findings and disagreements

Each of these is a run TLC refutes; `PROJECT.json` quotes the line it contradicts.

* `two_moves` (`NeverTwoLive`): two successors for one booking, both ambiguous; the
  evidence that one move happened is read as "the other did not" and puts the original
  back, against `reschedule.js:32-33`.
* `late_retry` (`AccessIsPaid`): `created` dies, `checkout` and `deleted` are handled, and the
  retry of `created` opens the lessons of a subscription that has ended, against `db.ts:177`.

### Disagreements

Further ones between the code and what it or its documents say, met while modelling. The
models do what the code does; the properties except or avoid them. "TLC refutes" means
that a property stating the promise fails under the settings named.

Bookings:

* `cancellation.js:117`: a moved appointment's event keeps the correlation id of
  the original. Cancelling it, or moving it again, presents the successor's own
  id, the provider refuses the row's own event, and an integrity alarm is recorded.
* `booking-reconciler.js:177`: evidence is applied to a row that was settled, cancelled and parked
  again since it was read, against `booking-reconciler.js:6-9`. With two passes (of two
  servers, or the boot's call at `server.js:158` and the poller's at `server.js:175`) and one
  context TLC refutes `BookedIsReal`: one pass finds the event and books the row, a
  cancellation deletes it, is left ambiguous and parks the row, and the other pass applies
  what it read before. One pass does it with a third context: what it read for a successor is
  applied to the original. So `OnePass` is an assumption of the proofs and no convenience.
* `booking-reconciler.js:175`: a pass that dies between the two updates of a pair
  leaves the original parked for good; `docs/api/booking.md:157` says "both sides
  together".
* The in-memory store's `resolveVerification` lacks the slot guard PostgreSQL's
  index gives.

Outbox, notifications, scheduler, workflow:

* `outbox-store.js:12-13`: "'completed'/'abandoned' are terminal". With `CommitsAnswered` FALSE TLC
  refutes it: a completion that commits and is not answered is reported as a failure by the
  handler's catch block, and `fail` overwrites it.
* `claims.js:89-91`: "the final status is final forever". With `Timely` FALSE TLC refutes it: an
  attempt suspended past its claim records failed over the sent of the one that took it over.
* `scheduled-actions.js:8-9`: "terminal states are final". TLC refutes it: an action cancelled while
  its handler runs is completed or failed afterwards.
* `scheduler.js:66-67`: an action never executes after its expiry. TLC refutes it: `claim` looks
  at `expires_at` no more than the listing before it did, and an action that expires while the
  ones before it in the page run is executed.
* `ADR-0017:96-98` says the crash-loses-notification gap is closed; the trigger
  settles its delivery while another attempt is pending, and if that one dies the
  confirmation is never sent.
* `engine.js:150-153` says a signal that loses the compare-and-set is evaluated
  again by redelivery; the handler returns (`engine.js:163`), and its event is settled.
* `engine.js:231`: a starting event whose instance is moved by another event before
  its initial steps are recorded loses them. `StartedInFull` holds because no
  event moves the initial state of the definition in the code.

Configuration and administration:

* `admin/index.html:616`: after a page's own save of the catalog the version it holds
  of other entities is not refreshed, and the next save is told "changed by someone
  else" (`troubleshooting-guide.md`) though nobody did.
* `bootstrap.js:85`: a seed that fails validation refuses the boot, but is committed;
  in bootstrap mode the next boot finds the organization there and serves it.
* In always mode an attorney deactivated while a stored document names them is
  cause for the next boot to be refused.
* `branding.js:74-76,91`: the normalized branding has `logoUrl` null, which the same gate
  refuses, against `framework.js:38-42`. The office's malformed fields become null
  without an issue.
* The scheduling prompt, given null, stores two nulls, invalid when looked at again.
* `domains.js:337`: data retention is "enabled" if no issue was found before the windows
  are checked, so a document with a bad window keeps it on with the default.
* A patch's blank or null optional field changes nothing and is audited as a change.
* An area two groups serve passes readiness, and its requests are refused.

Offers:

* `docs/api/offered-slots.md:39`: an inactive attorney key is refused by the feed's
  path only; the native path offers the calendar.
* `slot-generation.js:77-82`: west of UTC, a window that opens inside a spring-forward
  gap starts before the gap, not when the clock reaches it.
* `offered-slots.js:126-130` calls DST transitions exact. East of UTC, in a zone that changes its
  clock at midnight (Cairo on 2024-04-26, Beirut on 2024-03-31), the three corrections end at
  23:00 of the day before, and a window near the gap is resolved to that day. Havana and
  Santiago, west of UTC, come out right.
* A preferred attorney named twice ranks by the first mention; harmless, and not refused.

Training portal:

* `training-paywall.md:151-152`: duplicates are detected by `stripe_event_id` and ignored. The audit
  row that carries the id is written last, and a retry of what died is no duplicate. With
  `ToldInOrder` FALSE TLC refutes `PayingIsLetIn`: `updated` to past due dies, `updated` to
  active is handled, and the retry of the first locks out a user who pays.
* `auth.ts:9-14` says any real key refuses mock access; only `sk_live_` keys do.
* `db.ts:188,192,241`: ISO timestamps are compared with `datetime('now')` as strings, so an
  expiry takes effect on the next UTC day. `deactivateStaleCheckoutAccess` is never
  called. The subscription's status is joined without its product.
* A change to another product leaves the first entitlement active after the
  subscription is deleted; a deletion under a price no plan maps to leaves the
  subscription row active.

Alerting (not modelled): a redelivered event is counted again; the alert fires at
`=== threshold`, so one whose send fails is lost until the window ends; and
`evaluate()` overwrites its baseline before it raises.

## 7. Plan

Done: the modules of section 2 and the proofs of section 4. Next:

1. What of `OneChange` can be weakened: it forbids the second change of a booking as soon as
   the first has a successor taken up; which second changes do harm, `two_moves` shows of one.
2. What `resolveVerification` would have to compare, besides the status, for `OnePass` to be
   dropped: the moment its evidence was read, against `updated_at`, is what the two-pass
   behaviour of section 6 suggests.
3. What the webhook would have to keep for `ToldInOrder` to be dropped: the `created` of the last
   event written for a subscription, compared before its row is, is what both late retries suggest.
