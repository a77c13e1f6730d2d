# Event-Driven Notification Hub: TLA+ models and proofs

The hub takes events (from Kafka or `POST /api/events`), matches them against a
tenant's rules and turns each match into at most one message on a channel
(email, sms, in_app, telegram), unless the user opted out, the event is a
repeat, the address is suppressed, or the message has to wait for the end of
quiet hours or for a digest. This directory holds TLA+ modules that model the
code under `src/`, TLC configurations that check them on small instances, and
TLAPS proofs of what matters most. Paths below are relative to `src/` of the
repository.

## Inventory

| Component | State it keeps | Operations | Hard behaviour | What makes it correct |
|---|---|---|---|---|
| Pipeline (`processor/pipeline.ts`, `deduplicator.ts`, `preferences.ts`) | one `notifications` row per call, `digest_queue` rows; the call's locals | resolve, opt-out, dedup, suppression, quiet hours, digest, template, insert, attachments, dispatch, final update | calls interleave at every await; check-then-insert; crash between row and update; redelivery | one live row per key, no gate slipped through, every call settles its row, the row tells what happened |
| Schedules (`lib/scheduling.ts`, `isWithinQuietHours`) | none | two pure functions of the clock | midnight, boundaries, Sundays | the next boundary; one interval of the day |
| Quiet hours release (`processor/quiet-hours-release.ts`) | list of held rows of a run | select, check, render, dispatch, update | races the API, itself and crashes; one bad row ends the run | held messages go out, once, through the same gates |
| Digest engine (`digest/engine.ts`) | groups of a run | select, group, render, send, mark | several UPDATEs after one send; one bad item ends the run | one digest per item, one user per digest, the queue drains |
| Cleanup (`processor/notification-cleanup.ts`) | none | two deletes by age, cascade | deletes under the feet of the jobs | what refers to a deleted row goes with it or lets go of it |
| Ingestion (`consumer/kafka.ts`, `router.ts`, `api/events.routes.ts`) | Kafka offsets | match rules, resolve recipients, call the pipeline in turn | redelivery after an error, two concurrent POSTs, a message that throws each time | each rule's call runs, calls of a key in turn, a message that throws holds up the rest only as long as it does |
| Preferences, suppressions, rules, templates API | the tables | upsert, insert on conflict do nothing, update, delete | write between two reads of a call | atomic per row |
| Resend webhooks (`api/webhooks.routes.ts`) | `email_delivery_events`, notification status, suppressions | record, update, suppress, call back | duplicates, reordering, race with the pipeline's final update | a bounced row says failed in any order of the reports, a bounced address is suppressed and not sent to |
| Delivery callback (`channels/delivery-callback.ts`) | callback status code | read the tenant, post once, record | a timeout, an answer that is lost; one UPDATE for all rows of a mail and type | a 2xx stands for a report of that type the tenant accepted |
| Heartbeats (`heartbeat/`) | `last_seen_at`, `alerted_at` | pulse, check, alert | pulse between read and update | one alert per absence, and one for each |
| WebSocket, in-app (`ws/handler.ts`, `channels/in-app.ts`) | sockets by tenant and user | connect, validate, push, acknowledge, close | close before validation ends | only open sockets registered; unread until acknowledged |
| Telegram bot (`channels/telegram-bot.ts`) | update offset, link tokens, chats | request a link, poll, link; PUT of a chat | overlapping polls, errors after the offset moved | a user gets a chat that presented its token or that its PUT gave |
| Tenant administration (`api/admin.routes.ts`) | `tenants.config` | PUT, PATCH (read-modify-write), DELETE | lost update | a patch changes its own key only |
| Kafka producer (`consumer/producer.ts`) | lazily created singleton | connect, send, disconnect | a failed connect leaves the singleton | an event is sent once or its publisher is told |
| Job scheduler, shutdown (`jobs/scheduler.ts`, `server.ts`) | timers | start, fire, stop | overlap; stop with a run in flight | runs of one job do not step on each other |
| Dispatcher, senders, attachments, renderer, monitors, auth, schemas | little or none | request plumbing and text | size and time limits | see `PROJECT.json` |

How they interact: the pipeline, the two jobs, the cleanup, the webhooks and the
in-app channel meet in the `notifications` row and the suppression list, so each
of them is checked beside the pipeline. The heartbeat checker, the telegram bot,
the admin API and ingestion touch no notification; they share the tenants and
the producer.

## Plan

Written so far, in this order: `Preferences`, `Scheduling`, `Calendar`;
`Store`, `Pipeline`, `NotificationLifecycle`, `PipelineGates`;
`QuietHoursRelease`; `DigestEngine`; `Calendar_proofs`, `Pipeline_proofs`;
`Cleanup`, `Webhooks`, `DeliveryCallback`; `TenantAdmin`, `Producer`,
`Heartbeat`, `TelegramBot`, `Ingestion`, `Workers`; `Realtime`; and then the
proofs `PipelineGates_proofs`, `QuietHoursRelease_proofs`,
`Workers_proofs`, `Realtime_proofs`, `DigestEngine_proofs`, `Webhooks_proofs`.

Every safety invariant and action property of the passing runs now has its
theorem. Left:

1. the safety halves of the liveness properties, as `ReturnedCallsAreSettled` is
   the one of `EveryCallSettles`: a report that was answered has its address on
   the list (`HurtfulReportSuppresses`), a queue row that says sent was in a
   digest (`QueueDrains`), an acknowledgement that was read is in the database
   or is owed to a queue (`AcknowledgedIsDelivered`);
2. `OneLiveRowPerKey` and the dedup window beside the cleanup, whose retention is
   longer than the window.

## Modules

* `Preferences` — `checkOptOut` and `isWithinQuietHours`. Minutes of the local
  day are numbers; a time zone is an offset, or `BadZone` for a string that
  makes `Intl.DateTimeFormat` throw (the API accepts any string).
* `Scheduling` — `computeScheduledFor`, on real minutes since a Sunday 00:00 UTC.
* `Calendar` — asks the two functions every minute and states what they promise
  over time rather than at one point.
* `Store` — the tables the pipeline and the jobs share, their reads and writes,
  and the API handlers that change them, one SQL statement per step.
  `notifications[c]` is the row that call `c` inserts; a call inserts at most
  one. A stored timestamp is its distance from now (`age`, `left`, `due`), which
  stops counting where no comparison can tell any more, so a run is unbounded in
  time and finite in states.
* `Pipeline` — `processNotification`. `pc[c]` says which await call `c` is at;
  what the code computes between two awaits is part of the step that ends the
  first. `seen`, `addr` and `outcome` are its locals: the preferences row it
  read, the delivery address and the status it will write. A lane is what runs
  calls one after the other, a Kafka partition or one HTTP request; the loop over
  the rules of a delivery ends with the first call that throws, and a redelivery
  is a set of further calls in the same lane. `sends[c]` counts how often a
  channel took the message.
* `NotificationLifecycle` — the abstract row: created once, taken at most once
  while it waits, settled with a status that tells what happened. `Pipeline`
  instantiates it and `KeepsLifecycle` says the pipeline implements it.
* `PipelineGates` — `Pipeline` with a history variable: the gates (suppression,
  opt-out, digest mode, quiet hours) that have been shut for a call ever since
  it has had an address, whether the code asks for them or not. `StandBefore` says
  which of them the code asks for: all where the recipient is looked up by user
  id, the suppression list alone for static, direct and in_app recipients.
* `QuietHoursRelease` — `releaseHeldNotifications` beside the pipeline.
  `ServerEmail` is whether the server has an email account of its own
  (`RESEND_API_KEY` and `RESEND_FROM`, the only one the jobs use): without one a
  held email is logged and reported as sent.
* `DigestEngine` — `processDigestQueue` beside the pipeline. Without `ServerEmail`
  the timer fires and nothing runs.
* `Cleanup` — the two deletes of `cleanupOldNotifications`, with what the foreign
  keys do to the rows that refer to a deleted one.
* `Webhooks` — `POST /api/webhooks/resend` beside pipeline and cleanup. `wpc[p]`
  is where the handling of a POST is; `news` are the reports Resend has to make
  (hard and soft bounce, complaint, delivered, delayed, and `opened` for every type
  the handler has no case for), several of a kind if it recurs, and `told` those it
  was answered 200 for. Resend posts until it is told, in any order, and may post
  again what it was told. `deliveryEvents[e]` is the set of callback statuses of
  the audit rows of report `e`, `mail[c]` the address the mail of call `c` went to.
* `DeliveryCallback` — `dispatchDeliveryCallback`, which the handler starts and
  does not await, and the composition of all four.
* `TenantAdmin` — the tenants and `api/admin.routes.ts`. The PATCH of the rate
  limit is a SELECT and an UPDATE; `patch[q]` is what it holds in between.
* `Producer` — the lazily made Kafka producer: null, stored, connected.
* `Heartbeat` — the heartbeat routes and `checkStaleHeartbeats`; `run[r]` is a run
  of the checker with its row at hand, and silence is counted since the last
  pulse.
* `TelegramBot` — link tokens and `pollTelegramUpdates`. Polls overlap, each with
  its list of tenants and the batch it is going through; `offset` is the memory
  they share, `inbox` and `forgotten` are Telegram's. The other writer of the chat,
  the PUT of the preferences, is `PutChat`.
* `Ingestion` — `POST /api/events`, the topic, the consumer, the rules and their
  API. `useKafka` is chosen at the start, so both modes are in the run. A call of
  `processNotification` is one step here that returns or throws: for good if its
  rule is deleted, its template does not compile or the quiet hours of its
  recipient name a time zone there is not (`badZone`, which a PUT may change).
* `Workers` — the five modules above in one server. They share little, so a
  behaviour watches one part of them (`watched`) with the others idle.
* `Realtime` — the WebSocket route and `sendInApp` beside the pipeline, with the
  unread listing and a client that acknowledges what it has got.
* `MC*` — the instances TLC checks.
* `*_proofs` — the theorems, each about the module of its name; `Workers_proofs`
  is about the five modules `Workers` composes, `Webhooks_proofs` about the whole
  of `DeliveryCallback`. Those beside the pipeline extend `Pipeline_proofs` and use
  its lemmas about a call's step.

Several properties excuse what the code does not prevent, and a history variable
remembers whether it has happened, so that only the case the code really has is
excused: `overtaken` (the pipeline's UPDATE after a bounce's), `burns` and
`burned` (addresses reported and not lifted since, for the server and for a
call), `crossed` (another change between a PATCH's two statements), `masked` (a
pulse between the checker's SELECT and UPDATE), `lost`, `wiped`, `rebot` (a token
whose update failed, one cleared with an older one, a tenant given another bot),
`unstamped` (a source reported by a run that a failure kept from stamping it), `put`
(the chats that came with a PUT), `owed` (rules that have matched an event ever
since its POST), `dropped` (events
passed over by a start at the end of the topic), `raced`, `early`, `lostAcks` (a
push before the socket was registered, a close before it was validated, an
acknowledgement an error took). None of them guards a step.

Operators introduced by "Mutant of" are wrong on purpose. No specification uses
them; each shows, put in the place of the definition it names, that a property
notices the mistake.

## Runs

| Run | Instance | What it shows |
|---|---|---|
| `calendar` | a 1440-minute day, 14 days, quiet hours overnight, same-day, empty and unset, all three schedules | `QuietIsOneInterval`, `DueIsTheNextBoundary` at every minute, both boundaries included |
| `pipeline` | one partition; an email rule and an in-app rule of one event, and the email rule again by redelivery; one crash or error anywhere, one API write anywhere, time passing without bound | deduplication (`OneLiveRowPerKey`, `DuplicateOfItsOwnKey`), `NoGateIsSkipped`, the lifecycle, `EveryCallSettles` |
| `release` | a server with an email account; two tenants, a user and an email each, one of the tenants sandboxed; quiet one minute of three; one fault, one API write | a held message goes out once, `sent` means taken, healthy held rows are released |
| `digest` | a server with an email account; two emails for one user, one for the same user id of another tenant; room for one item per digest; one fault, two API writes, by which a template breaks and is mended | no mixed, early or repeated digest; the queue drains unless it is poisoned for good |
| `direct_dedup` | the same event posted twice, two lanes | violated: both pass the check before either inserts |
| `release_poison` | as `release`, with a template that throws | violated: the other tenant's row stays held |
| `release_suppression` | as `release`, with an address suppressed meanwhile | violated: it is sent to |
| `digest_poison` | as `digest`, where the other tenant's email has a template of its own and the shared one may break; no fault | violated: the other tenant's item stays queued |
| `webhooks` | two events for one static address, the second after the first; on the first mail a delivery, two openings, a soft bounce and a hard one without the address, two of which happen; one POST in the server at a time, any callback answer; one fault, one API write; retention zero | `BouncedRowSaysSo`, `NoSendToBurned`, `CallbackStatusIsTrue`, `HurtfulReportSuppresses` |
| `webhooks_expired` | as `webhooks`, where the API write may be a suppression that expires | violated: the bounce conflicts with the expired entry and the next call sends |
| `workers` | one tenant; two overlapping PATCHes among three admin requests; or two sources, one run of the checker and a POST that publishes too; or two users, two tokens, two chats, a PUT of a chat, two polls and a second bot; or two events, of which one names a user whose time zone may be none, a message that is no event, a rule and room for another, with and without Kafka; one fault each | `PatchKeepsTheRest`, `OneAlertPerAbsence`, `StampedMeansAlerted`, `StaleIsAlerted`, `ChatPresentedItsToken`, `PresentedTokenLinks`, `NoRuleIsMissed`, `PublishedIsHandled` |
| `realtime` | two in-app events for one user, one after the other; two sockets of that user; one fault | `ConnectedSocketsAreKept`, `EveryInAppReaches`, `AckSurvives`, `AcknowledgedIsDelivered` |

The five violated properties are what the README, `docs/USER_SETUP.md`,
`db/schema.ts` and a comment of `digest/engine.ts` state; `PROJECT.json` quotes them.

**Bounds.** `MaxFaults` = 1 crash or error is enough to separate any two steps, and a
redelivery that follows it is in the instance. `MaxEdits` = 1 API write can fall
between any two awaits; the properties speak of one gate at a time, so a second write
has nothing to add but a second instance of the same race; `digest` has two, because
there a poison that is mended matters. The initial preferences and suppressions are
all combinations of the choices. The day has two or three minutes: one quiet, the rest
not; `Window` = 1 minute gives ages below, at and past the window (`AgeCap` one
more). Attachments are on for the emails of `pipeline`, off elsewhere. `MaxPerDigest` =
1 with a group of two makes truncation happen. In `webhooks` one POST at a time and
two reports are enough: what races is the handler against the pipeline, the cleanup
and its own callback, and a report that is posted again while its callback is under
way is a later POST. Of two openings the second can be refused after the first was
accepted, and their audit rows are one key to the UPDATE. `Retention` = 0 with
`AgeCap` = 1 makes a row expire while it is worked on. In `workers`, `SilenceCap` = 2
is past the one interval, `MaxTokens` and `MaxUpdates` = 2 (updates a bot) give an
older and a newer token and two updates in a batch or in two, a second bot shows what
happens to the offset, `Links` gives the first token to one user and the second to
either, each with a chat of its own, so a chat tells whose token it came with, `Puts`
lets the first user have the second's chat, and `EditsIn` bounds the admin and rule
requests of each part (3 where they are the subject, 1 elsewhere). The second rule
lets a call throw after another has returned, in_app or not, and the malformed message
can come before, between and after the events. Two sockets are enough to confuse one
with the other on the connection map. Larger numbers of calls are the business of the
theorems.

**Fairness.** Weak fairness on each call's step: the event loop resumes an await
whose I/O has answered, and every client the code uses answers or fails. For the
jobs, weak fairness on the timer (`setInterval` re-arms itself), on the steps of
a run and on the clock; the timer fires at least once per model minute, which is
the job's interval. In `webhooks`, Resend goes
on posting while there is a report it was not told about, and a statement is
answered; in `workers`, the checker's and the poll's timers fire over and over,
and the consumer fetches while there is something to fetch; in `realtime`, weak
fairness on the server's own steps, none on clients. Nothing is assumed about
starting a call, throwing, crashing
or API writes. No strong fairness is used: a release or digest never depends on
an attempt succeeding, since a failed one is marked too.

Deadlock is not checked where a system may really be idle for good: when all
calls have ended only the clock moves, and in `calendar` the horizon ends the run.

## Proofs

Checked by TLAPS for every value of the constants, under the assumptions named in
the modules (`RequestAssumption`, `ChoiceAssumption`, `WebhooksAssumption` and so
on: the types of the constants, and that a static recipient is an address), which
TLC evaluates in the runs. Each inductive invariant below was first checked by TLC as an
invariant of its run. Six theorems have a hypothesis on top, because
without it the property does not hold of the code (of `OneRun` and `OneChecker` TLC shows
that when a second element is added to `Runs` in `Release`, `Digest` or `Workers`):

| Hypothesis | Theorems | What it stands for |
|---|---|---|
| `KeysConfined` | `AtMostOneLiveRow` | calls of one key share a lane, as when messages are keyed by `event_id`; `direct_dedup` shows what happens without it |
| `OneRun` | `SentOnce`; `ItemsGoOutOnce`, `DigestsAreOnesOwn` | no run of the job takes longer than its timer: `setInterval` does not wait |
| `OneChecker` | `AlertedAtMostOnce` | the same of the heartbeat checker |
| `NothingExpires` | `NothingSentToBurned` | no suppression is created with an `expires_at`; `webhooks_expired` shows what happens with one |

**Pipeline.** A call's step is two facts about it: what it does to the call
(`StatusStep`, `StepPlans`, ...) and that it leaves every other call and row alone
(`StepFrame`).

* `AtMostOneLiveRow` — the property is not inductive: nothing in it says why no
  other row appears between the check and the insert, which are separate steps.
  `LiveInv` adds that a lane has at most one active call (`LaneExclusive`), that a
  call past its check sees every other row of its key older than the window
  (`PassedMeansFree`), and that the row a call updates is still the pending row it
  inserted (`OwnRowPending`), so an update never revives a skipped one.
* `PipelineKeepsLifecycle` — step simulation of `NotificationLifecycle` under
  `RowInv`: what a call's place says of its row (`CallFits`: no row and nothing
  sent before its INSERT, a first status planned, pending until the final UPDATE,
  an outcome that tells what happened). INSERT is `Create`, a dispatch that was
  taken is `Take`, the final UPDATE is `Settle`, all else stutters.
* `DuplicatesHaveAnOriginal` — `DuplicateInv` carries the row that the check found
  to the INSERT (`DuplicateSeen`) and then keeps the order of ages: the clock stops
  counting for the older of two first (`OlderOrder`).
* `ReturnedCallsAreSettled` — the safety half of `EveryCallSettles`; `DoneFits` adds
  that a call at "enqueue" has inserted a `queued_digest` row.
* `EveryGateWasOpen` — the gates are read at different awaits. `GateFits` says, place by
  place, which gates have been open once: the opt-out after the preferences are
  read, digest mode too unless it is still to be asked (`Digest`), all of them past
  the suppression check, where `shut` is empty. A call that reads no preferences has only the
  list before it (`StandBefore`).

**Quiet hours release.** Pipeline and job never work on one row: a held row's call is
over, and so is the call of every row a run has selected (`HeldIsOver`, `RunFits`).
`SentWasTaken` needs no more than that, for the channels that have someone to take the
message (`HasProvider`), and holds for overlapping runs; `SentOnce`
adds that what a run has selected is held until it records it, and that a held row
has not been taken unless the run is about to record it or something failed.

**Digest engine.** `DigestInv`: a queue row is of a call that is over and was not sent
(`QueueFits`); what is queued has not been sent unless the run is about to mark it
(`OnceFits`); the groups of a run are disjoint from one another and from the items
it marks, each is one user's, and all of it is still queued and due (`RunFits`).

**Webhooks.** `WebhooksInv` says of a mail that its call is past the dispatch (so no
INSERT of its row is to come), of a report that an answered bounce `SaysSo` in its
row, and of a POST what its place says of its report: audit row before the row's
UPDATE, that before the list, all before the answer (`PostFits`). `ReportsStay` is
what every step keeps, so a POST's facts survive the steps of the others; a callback's
2xx in a row is of a report in `got` of the row's mail and type, since that is what
its UPDATE goes by. `BurnInv`
adds that what was burned is on the list and that an entry there lasts
(`EntriesLast`), which is where `NothingExpires` is needed, so a call that got past
the list (`Cleared`) has none of its burned addresses.

**In-app.** `AckInv` keeps `CallFits` beside acknowledgements, which leave the status of a
row alone. `SocketFits` says where a socket may be while its client is new, open or
closed. `ReachInv` is
`EveryInAppReaches` also for a row that is pushed and about to become sent: the push
and the end of the call are two steps, and the listing may come between them.

**Workers.** The five modules share only the tenants, the producer and the faults, so
the invariant of one is kept by the steps of the others through one frame lemma each.
`PatchLosesNothing` from what a PATCH holds between its SELECT and its UPDATE;
`NoStampWithoutAlert` and `AlertedAtMostOnce` from what a run's list and row say of
the alerts since the last pulse: a row waits unreported, or is reported and stamped,
about to be (`AlertedOnce`), or `unstamped`; `LinkedChatsPresentedTokens` because the
token of the update a poll is about to link was issued to the user it found, whatever
became of the row since (`PollFits`), and the only other step that writes a chat is
the PUT; `EveryRuleIsCalled` because what an event is owed has had its call or is
still ahead in the loop of the handler (`HandlerFits`). The lemmas on bounded
sequences (`BoundedSeqFacts`, `BoundedAppend`) are proved first.

**Schedules.** `QuietIsAlwaysOneInterval` for any length of day;
`DueIsAlwaysTheNextBoundary` from `ScheduledForNextBoundary` and
`ScheduledStrictlyLater`, arithmetic about the three schedules, with no horizon.

Only model-checked: liveness (`EveryCallSettles`, `HealthyHeldIsReleased`,
`QueueDrains`, `HurtfulReportSuppresses`, `PresentedTokenLinks`, `StaleIsAlerted`,
`PublishedIsHandled`, `AcknowledgedIsDelivered`), which rests on fairness and ENABLED
and is beyond the prover. The five violated properties are counterexamples.

## What is not modelled, and what is abstracted

* Text: rendering is whether a template compiles (`TemplateStates`), payloads,
  subjects, headers, reply-to and sender addresses are left out. The three
  template queries of the locale lookup are one step that yields what they would.
* The email account. In the pipeline an email has one, the tenant's or the server's:
  a call whose tenant and server have none, which `dispatch` logs and reports as a
  success, is not modelled. The jobs have the server's only, and `README.md:76` calls
  that one optional: with `ServerEmail` false `HeldAnswers` and `SelectDue` do what the
  code does. A held email is then marked sent though nobody took it, and no digest
  leaves the queue, whatever accounts the tenants have; `SentMeansTaken` and
  `QueueDrains` are about servers that have the account, and the TLC instances have
  it. The proofs are for both.
* sms is a stub in the code and takes nothing; in_app is sent whether or not anybody
  is connected, and `EveryInAppReaches` says what becomes of it.
* What the code does and no property forbids, although a document may be read to:
  the opt-outs, quiet hours and digest mode of a static, direct or in_app recipient
  are not looked at (`pipeline.ts:53-63`; `README.md:168` says "Hub enforces
  per-channel"), the release job does not know the tenant's sandbox
  (`docs/USER_SETUP.md:282`), and a message that throws each time, for a template or a
  time zone, holds up the topic for every tenant. The hazards list each.
* PostgreSQL statements are atomic; the server's and the database's clocks are
  one.
* A redelivered message repeats the rules and recipients of the first delivery.
* Signatures (of Resend's reports and of callbacks) are cryptography: a report is
  accepted or it is not a POST at all.
* A WebSocket whose client vanishes without a close is a client that never reads.
* Kafka has one partition and one consumer; rebalances between several servers
  are not modelled, nor is the order of keys over partitions, which is a lane in
  `Pipeline`. A failed `subscribe`, which the code logs and goes on from, is a
  consumer that is off.
* Bounces of digest mails carry no headers of the hub and change nothing, so the
  digest engine and the webhooks are not composed.
* Runs of a job that overlap: the modules have any number of them, the TLC
  instances one at a time. With two, a held row can be sent twice, an item be in
  two digests, an absence be reported twice; no document says that runs do not
  overlap. Types, `SentMeansTaken` and `StampedMeansAlerted` are proved for
  overlapping runs too.
* `disconnectProducer` and the shutdown sequence: the process exits right after,
  which to a run in flight is an error or a crash.
* The Kafka lag monitor and the email failure monitor only log. The setup and
  seeding scripts run before the server. Authentication is whether a tenant is
  enabled when a request arrives; the rate limiter is a library's.
* The components marked `not_modelled` in `PROJECT.json`, with the reason.
