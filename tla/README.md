# InmoFlow: TLA+ models, TLC runs and TLAPS proofs

InmoFlow is a multi-tenant CRM for real-estate agencies.  A NestJS API
(`src/apps/api`) receives webhooks (Meta lead ads, WhatsApp through Evolution
API, inbound integrations), polls Telegram, and serves the requests of a Next.js
front end (`src/apps/web`); a NestJS worker (`src/apps/worker`) runs BullMQ jobs
and cron schedulers.  Both work on one PostgreSQL database through Prisma
(`src/packages/db`) and share event types (`src/packages/shared`).  The
repository has no tests; these models are the checks of its concurrent core.

## 1. Inventory

| Part | State | Operations | Interacts through |
|---|---|---|---|
| Deferred rule queue (worker `queue-drain.scheduler`, API `queued-actions`) | `QueuedAction` rows; the batch of each running cycle | evaluate enqueues; the 5-minute cron drains; cancel, cancelAll, retry, edit message | the table, rules, `executeSingleRule` |
| Message delivery (worker `message-sender`, `message.processor`; API `messages`) | `Message.status`, BullMQ jobs with attempts, the channel rows | create queued, send, mark failed, one delayed channel retry, manual retry | Evolution / Telegram HTTP, channels, BullMQ |
| Inbound messages (API `webhooks.controller`, `messages.syncInbound`) | leads, messages, `lead.contacted` events | find-or-create lead, store IN / OUT messages, emit jobs | webhooks delivered at least once, in any order |
| AI conversation (worker `rule-engine.handleAiAutoReply`, API `messages.send`) | `aiConversationActive`, lead status, AI messages | start, auto-reply, goal / not interested / stage marker, human takeover | provider call of seconds between read and write |
| Follow-ups (worker `follow-up.scheduler`, API `follow-ups`) | `FollowUpRun` (status, currentStep, nextRunAt), steps | tick, enroll, replace steps, cancel, delete | minute cron, leads |
| Lead recovery (API `lead-recovery`) and Meta lead ads webhook | `LeadApproval`, imported leads | fetch, upsert pending, approve, reject, webhook import | Graph API, the lead table |
| Rule engine (worker `rule-engine`, `lead/workflow.processor`, `no-response.scheduler`; API `event-producer`) | jobs with attempts, leads, messages, deferred actions | evaluate, single rule, waits continued as jobs, assign, template, defer | BullMQ retries and stalls, three runners |
| WhatsApp channels (API `channels`, connection webhook; worker `stuck-channel`; web channels page) | `Channel` row, the instance at Evolution, events on their way | connect, QR poll, connection event, disconnect, reset, admin, sweep | Evolution HTTP and webhooks |
| Telegram (API `telegram.provider`) | offset in memory, channel binding, leads, messages | getUpdates, /start, inbound text | Telegram polling |
| Visits and Google Calendar (API `visits`, `google-calendar`; AI visits) | `Visit` rows, refresh tokens, Google events | create, update, remove, connect, disconnect, deletion with the lead | calls to Google that no request awaits |
| Appointment reminders (worker) | `reminderSent`, notifications, messages | the pass of every ten minutes | visits, `message.retry` jobs |
| MercadoLibre (API `meli`) | one-use refresh token of a tenant, imported properties | connect, refresh, sync, disconnect | marketplace HTTP |
| Tenant records and plan limits (API `users`, `rules`, `lead-sources`, `ai-config`, `lead-stages`, `properties`, `tags`, `plan`) | rows under a limit or a key | check, then write | the plan |
| Leads and stages (API `leads`, `lead-stages`) | stage rows, `stageId` of leads | add, change key, order or default, reorder, delete; create, move | two requests at once, lists a page loaded earlier |
| Import and inbound webhook (API `import`, `inbound-webhook`) | leads, chunk in progress | import a file, webhook creation | events, round robin |
| Browser session (web `auth.tsx`, API `auth`) | localStorage, tabs, throttle | login, restore, renew, 401, logout | two tabs, refresh endpoint |
| Dashboard pages (web) | copies of rows, forms, loads and writes under way | load, filter, poll, open form, save, toggle | API requests answered in any order |
| Commissions (API and page) | rules, deals, summary | create with a rule, edit, pay, summarise | requests that read first |
| Meta sources (API `meta-oauth`, web wizard) | tenant token, sources, wizard | grant, fetch pages and forms, connect, disconnect | OAuth window, Graph API |
| Reels (API and page) | jobs in memory, list of the page | render, poll, restart | overlapping rounds of questions |
| Pure functions: slots, scores, working hours, conditions | none | one version per program | each other |
| Mail notifications, dashboards, reports, uploads, templates, public pages, rendering, packaging | rows read or written one at a time | see section 5 | Prisma |

Hard behaviours: cron handlers with no overlap guard, reads used after an await
of seconds or minutes (stale snapshots), check-then-act on rows that other
processes write, jobs that BullMQ runs again after a failure, webhooks that are
redelivered and reordered, calls nobody awaits, one-use tokens, answers of two
requests that arrive in either order, a process that stops between two updates.

What makes each part correct, in one line each:

* queue: an item is attempted at most three times plus one per retry, `completed` means it ran, a cancelled item stays so, and none is starved;
* delivery: only a queued message reaches the provider, a message is never posted twice on one decision, the one delayed retry happens once, and a queued message has somebody who will settle it;
* inbound: one lead per contact, one row and one event per message, one first contact per lead;
* AI: an answer per attempt, silence after a takeover or a goodbye, and a status that only goes forward;
* follow-ups: every step sent once and in order, completion only after the last;
* recovery: one lead per submission, reviews are final;
* rule engine: an action happens once per delivery of its job, no matched rule is forgotten, assignments are balanced;
* channels: the status shown is the provider's last word, a pairing is noticed and CONNECTING ends; no update of Telegram is lost;
* calendar and reminders: an event says what its visit says, one reminder before each visit, a connection that works is kept;
* marketplace: the stored token is the one that works, and a row is what the listing was;
* records: keys unique, limits kept, stages consistent, a contact imported once;
* browser: a session is whole, a page at rest shows what the API has, and later writes are not undone by earlier reads.

## 2. Modules

| Module | Models | Runs |
|---|---|---|
| `QueueDrain` | deferred rule queue | `queue_safety`, `queue_live` |
| `AttemptLedger` | what the queue promises: numbered attempts | refined in `queue_safety` |
| `QueueDrainProofs` | theorems on the queue | proved |
| `MessageDelivery` | outbound messages and their jobs | `delivery` |
| `MessageOutbox` | what a user is shown of a message | refined in `delivery` |
| `MessageDeliveryProofs` | theorems on messages and the refinement of the outbox | proved |
| `FollowUps` | sequences, runs and ticks | `followups` |
| `FollowUpsProofs` | theorems on the order of steps | proved |
| `LeadRecovery` | lead ads webhook, review of missed submissions | `recovery` |
| `InboundMessages` | webhook, sync and echoes | `inbound` |
| `InboundProofs` | theorems on contacts, rows and events | proved |
| `AiConversation` | auto-reply and takeover | `ai_conversation` |
| `AiProofs` | theorems on answers, goodbyes and takeovers | proved |
| `RuleEngine` | evaluation of rules by three runners, event producer | `rule_engine` |
| `RuleEngineProofs` | theorems on actions, rules and assignments | proved |
| `WhatsAppChannel`, `TelegramPolling` | the two kinds of channel | `connections` |
| `VisitCalendar`, `VisitReminders`, `MeliSync`, `TenantRecords`, `LeadStages`, `LeadImport` | the records of the office | `office` |
| `OfficeInvariants` | the inductive invariants of the parts of the office, for `OfficeProofs` | proved about |
| `OfficeProofs` | theorems on reviews and their leads, on the six parts of the office, and on `office` | proved |
| `BrowserSession`, `DashboardPages`, `Commissions`, `MetaSources`, `ReelJobs` | the dashboard and its endpoints | `dashboard` |
| `DashboardProofs` | theorems on both kinds of channel, on each part of the dashboard, and on `dashboard` | proved |
| `OfficeFunctions` | pure functions | `dashboard`, `slots_last_day` |

`MC<Module>` holds the small instances.  `MCConnections`, `MCOffice` and
`MCDashboard` compose components that share no state: `part` (in `MCDashboard`
`topic`) is chosen initially and never changes, a behaviour is one of that part and the variables of the
others stay where they began (`Quiet` fixes those of them that could begin in
several states).  The state space is therefore the sum of those of the parts,
not their product, and a disjunct of an invariant speaks of one part.  The
model values `p1`, `p2` and `k1`, `k2` stand for people, tokens' owners, keys
and pages in the parts symmetric in them; stages and their
keys are not, as `s1` and `t1` fix where the stages of the other parts stand.  `PROJECT.json` maps each definition
to its lines; the definitions keep the names of the code.

Conventions.  An action is the code between two awaits that other processes
could come between; a statement that only reads data nobody else writes is
folded into the step before it.  A row is a function over identifiers, a job or
request in progress is a record `[at |-> <statement>, ...]` holding only what
the code read before and still uses.  History variables (named so where they
are declared) count what was done; no guard reads them.  `Max...` constants
are bounds of the checks, never of the code.

A property of a run is often a conjunction of named ones, each stated and
commented where it is defined; the lists below say which.  In the modules, an
operator `X_Y` is X with a plausible mistake Y, and the property named in
`PROJECT.json` fails under it; those not listed there each break another
conjunct of the same property.  What holds only where requests do not race, or
nothing failed, has that as its hypothesis, as narrow as the code allows: the
paragraphs "not promised" say what the code does otherwise.

### QueueDrain

`status`, `attempts`, `due`, `message` are the columns of `QueuedAction`;
`batch[d]` is the result of the cycle's findMany with the columns the cycle
uses later; `pc[d][a]` is the statement at which the loop of agent `a` stands
(the loops of the agents run side by side under `Promise.allSettled`, `DrainQueue`
starts them).  `Step` is one iteration: working hours, start (status and
attempt), execute, complete, catch, pause.  `Enqueue` is what `evaluate` stores
out of hours; `BeginCall` / `FinishCall` are the two statements of cancel,
retry and updateMessageOverride, `CancelAll` the single one; `ToggleRule`,
`DeleteRule` and the cascade change the rules meanwhile.  `processAt` is the
number of cron cycles until an item is due.

* `queue_safety` (two items of one agent, two cycles of which one may fetch an
  item that the other has, a request in progress, an edit, a database failure in
  the catch block): `WithinBudget` is the documented limit, one attempt more for
  each retry and for each fetch of an item that a cycle had (`doubled`);
  `BudgetInv` is the reason for it and is inductive;
  `RowsTellTheTruth` relates the rows to what ran: `FailedOnlyWhenSpent`,
  `CompletedHasRun`, `CancelledIsFinal`, and `SaidNeverGoesBack`, that no
  execution of an item says an older text than the one before it, unless the
  item was fetched twice; `ImplementsLedger`
  refines `AttemptLedger`, which grants an attempt for each of the two.
* `queue_live` (three items of two agents, a batch of two with one item per
  agent, a crash): `PendingIsDrained`, a pending item is not pending for
  ever.  Fairness: weak fairness of the cron and of the loops' steps, which wait
  for the database, the provider and timers only.  It is conditional on the
  working hours: out of hours items are legitimately left alone.

Not promised: two cycles alive (ten items with pauses of up to three minutes
outlast the five-minute cron, and nothing in `queue-drain.scheduler.ts:37` keeps
the second from starting) attempt an item a fourth time, execute it twice, and
work on two items of one agent at once
(`queue-drain.scheduler.ts:11` promises one by one); a disabled
rule still executes (`:141`); cancel overwrites a status that is no longer
pending (`queued-actions.service.ts:88`); an override stored after the fetch is
not the one sent (`:121`); a crash leaves "processing" rows that nothing picks
up.

### MessageDelivery

`status`, `owner` (assignee), `connected` (channels) are rows; `jobs` is the
`message.retry` queue with the attempt number and whether BullMQ has already
handed the job out again after a stall; `task[p]` is `sendQueuedMessage` in a
caller (`Inline`) or in the processor; `call` is `retryMessage`.  A request to
the provider can be refused, time out after 15 s, or be delivered although it
times out.

* `delivery` (one message, two agents of whom one has a channel, one inline
  sender and the processor, one retry request, one fault, one crash of either
  process): `SendsAreAccountedFor` is `OnlyQueuedIsPosted`, `DeliveriesAreGranted`
  (never more deliveries than decisions to send), `QueuedIsCarried` (a queued
  message has a job or a sender unless something crashed or failed) and
  `ChannelRetriedOnce`; `ImplementsOutbox`, the refinement of `MessageOutbox`;
  `QueuedIsSettled` under `FairSpec` (weak fairness of senders, of the processor
  and of BullMQ handing out delayed jobs).

Not promised: two retry requests at once put a sent message back in the queue
(`messages.service.ts:412`: the run has one request, and the theorem on the outbox
assumes `RetriesAlone`); a message is sent through the channel of the agent
assigned when it was read, also after a reassignment
(`message-sender.service.ts:135`); a provider failure is final although
`INMOFLOW.md:717` says the job retries; a crash between row and job strands the
message.  A `markFailed` that throws inside the send is caught and tried again
(`message-sender.service.ts:107`); one that throws in the catch leaves the message queued.

### FollowUps

`status`, `currentStep`, `due` of a run and the steps of its sequence; a tick
fetches due runs (`todo`), then handles each (`task`) with the steps read at its
start; `edit` is the deletion and the creation of steps in `update`.  Delays are
"later" or "due" (`Elapse`).  The steps of an edition are numbered as the page
does (`follow-ups/page.tsx:87`, `:91`), so that no two have one number; that is
the one assumption on them.

* `followups` (one run, sequences of up to the steps of the module, two
  editions one at a time, a fault or a crash, two ticks of which one may fetch
  the run that the other has): `StepsInOrder` is
  `StepSentOnce` (one message more for each failure, crash, and fetch of a run
  that a tick had), `NothingSkipped`, `CompletedIsDone` where the steps were not
  edited, and `StepsOfOneUpdate` (but for sequences of which two updates were
  under way at once, `mixed`);
  `RunsEnd` is `CancelledIsFinal` and `RunsFinish`, under weak fairness of the
  minute cron, its steps and the passing of time.  Deadlock is off: a completed
  run with nothing left to edit is the end.

Two updates at once are left to the theorem: with a second editor the run has
3.2 million states, which pass, but not within its time with `RunsEnd`.

Not promised: two ticks alive send a step twice
(`follow-up.scheduler.ts:21`: nothing keeps the cron from starting one while
another runs); a tick between the deletion and the creation of
steps completes the run; a run cancelled while a tick has it is written by the tick; an EMAIL step is never sent (`schema.prisma:683` has
it); two simultaneous editors leave both lists of steps; a run enrolled in a
sequence without steps is never due.

### LeadRecovery

The webhook's import of a submission, `fetch` (Graph API, then the approvals
and leads it compares with, then the upsert of pending rows), `approve` and
`reject` at their statements.  A fetch finds any part of what was submitted
(`Listed`: a range of dates, a page of a hundred, a form whose request failed
silently).  The webhook asks Graph for the answers of the submission; without
them the lead counts as interested (`Heard`), with them a lead that said no is
created as lost and not announced.  `raced` records that two requests on the
submission were in progress at once; `imported` and `declined` count the leads
the webhook made and those it made as lost.

* `recovery` (one submission, two reviewers, two fetches, the webhook delivered
  twice): `LeadsMatchReviews` is `OneLeadPerApproval` where nothing raced,
  `DuplicatesAreConcurrent` always, and `EveryLeadIsAnnounced`: failures aside,
  each lead made by a review or by the webhook is announced once or was created
  as lost, and no lead of an interested person is lost; `ReviewIsFinal`.

Not promised: two approvals at once make two leads
(`lead-recovery.service.ts:203`); Meta's redelivery of a submission creates its
lead again (`meta-webhook.controller.ts:230`, nothing recognises it; the model
counts these leads apart, as `imported`); a row can be rejected while its lead exists (`:307`); a
lead imported between the list and the approval is created again (`:188`); a lead that
said no is announced like any other when Graph does not answer
(`meta-webhook.controller.ts:281`).

### InboundMessages

`provider` has the messages, `rows` what is stored per lead, `hook` and `sync`
the requests in progress.  The agent's own messages come back as echoes, and
the CRM learns the id of what it sent only from the provider's answer.  A sync
gets any part of the contact's messages (`Fetched`), as pages and failures have
it.  Events are counted per message and lead.

* `inbound` (one contact, one incoming and one outgoing message, two webhook
  requests, one sync, two deliveries of each, one failure): `ContactsAreMetOnce`
  is `OneAutoLead` and `FirstContactIsAnnounced` where requests do not race, and
  `ContactedAtMostOnce` whatever races; `RowsAreAnnounced` is
  `EveryRowIsAnnounced` and, where requests do not race, `OutgoingIsStoredOnce`.

Not promised: with two first messages stored before either is counted, nobody
emits `lead.contacted` (`event-producer.service.ts:81`); two leads for one contact (`webhooks.controller.ts:469`),
the echo of a CRM send stored twice (`:428`), messages stored twice by a sync
and a webhook at once (`messages.service.ts:286`).

### AiConversation

`active` and `status` are the lead's columns; `job` the `message.inbound` jobs
and `task` the one the message queue is processing (BullMQ's concurrency is one
per queue); `starter` the `send_ai_message` of jobs of other queues; `request`
the users'.  `ReadLead` to `SendReply` is `handleAiAutoReply` up to the message,
`Plan` what its markers make it do next, in order: `Deactivate`, `CloseStatus`,
`AdvanceStage`, `CreateVisit`.  The status it compares with is the one it read
at first (`seen`).

* `ai_conversation` (two messages, one other job, one user request at a time,
  two failures or crashes, users toggling at will): `AnswersInTurn` is
  `AnsweredOncePerAttempt`, `GoodbyeEndsTheConversation` and
  `TakeoverStopsTheAi` (what still goes out is what was being generated, one
  message per queue); `AiGivesWay` is `SendTakesOver` and `OnlyForward`.

  Jobs have two attempts instead of three: with two failures both outcomes of
  the last attempt occur.  `Given` are the statuses users and rules write, one
  before and one after everything the AI does.  Deadlock is off: handled jobs and
  spent bounds are the end.

Not promised: a stage written by a user during the provider call is
overwritten backwards, against "never regress" (`rule-engine.service.ts:1110`);
a reply in progress goes out after the takeover; a reply that failed after its
goodbye leaves the AI on.

### RuleEngine

`task[w]` is what runner `w` does (the lead queue, the workflow queue, the
hourly scan): the rules still to run, the actions left and the statement it is
at; `jobs` are those waiting with the attempts left.  `Fire` is an event of the
producer, `RunRule` the loop of `evaluate`, `Defer` / `LogDeferral` the two
writes of a rule out of hours, `Wait` the continuation stored as a job of one
attempt, `Pick` / `Assign` / `Announce` the round robin, `CheckText` /
`CreateText` the template with its five-minute check.  The rules still to run
are a set, taken by priority (`NextOf`).  `ActionFails` is an error
the engine catches, `Throw` one that reaches BullMQ, `Crash` a stall.

* `rule_engine` (two agents, three leads; a deferrable rule of the second agent
  with a wait and a template, an assignment with a template, an assignment of
  silent leads; one event for each runner; one failure or crash anywhere):
  `ActionsRunOnce` is `OncePerDelivery` (an action or deferral runs once for the event and
  once per redelivery) and `TextSentOnce`; `MatchedRulesAreHandled`;
  `RoundRobinIsBalanced`, but where two assignments overlapped.

Not promised: a second assignment on a tie moves a lead to the eldest agent; a
`wait` that fails is caught like any action and those after it run at once; the
retry of a job reads the agent's name again, so that its text differs and is
sent again; a continuation runs although its rule was disabled meanwhile; the
final event-log write of `executeSingleRule` is not guarded, so that a
rule that did everything is run again.  A rule on `lead.assigned` that assigns
would feed itself for ever; `RuleAssumption` excludes it.

Left out: the attachments of a template's message (`rule-engine.service.ts:708-724`).
`jobs` is a set, so that two jobs alike in everything the model has of them (the same
runner, event, lead, rules, actions left and attempts) are one.

### WhatsAppChannel and TelegramPolling

`row` (numbered by `gen` when it is created anew) and `device`, the instance at
Evolution, change apart; `events` are the connection events on their way and
`req` what each request read.  A write by id is lost when the row is gone
(`Written`).  For Telegram, `confirmed` are the updates it will not deliver
again, `last` and `batch` the poller's memory, `at` the step of the handler.

* `connections` (three moves of users and phones and one fault; four updates of
  two senders and a /start with two faults or restarts): `ChannelsAreTrue` is
  `ConnectedIsOpen`, `ConfirmedIsHandled` (what Telegram was told to forget
  reached the end of its handler) and `RepeatedOnlyByRestart`; `PairingEnds` is
  `OpenIsNoticed` and `ConnectingEnds`, under `ChannelFairness`: requests are
  answered, the page keeps its five-second interval, time passes and the cron
  runs.  Nothing is assumed of users, phones or webhooks.

Not promised: connecting a CONNECTED channel sets it to CONNECTING; the
administrator's disconnection leaves the instance open; the instance name is
reused, so that a late event of a deleted instance marks the new row; a row
written after its instance changed again is wrong until the next event; the
handler of an update that fails is not run again; what a poll throws is caught, and the
page is shown the stored status (`webhooks.controller.ts:194`).  A new sender of a tenant
without an enabled `TELEGRAM_INBOUND` source is left alone (`LeaveSender`), the
source being one the environment may or may not have.

### VisitCalendar and VisitReminders

`visit[v].edition` counts what Google shows of a visit, `google[v]` is its event,
`calls` the requests to Google that no handler awaits, each with the token it
read; `why` collects the reasons for which a visit and its event may differ.
`LoseVisits` is the deletion of their lead, `AnswerIsError` any answer of the token
endpoint, other than a refusal, that is not a token.
A pass of the reminders has its list in `hand`, and its statements are steps.

* `office`, part calendar (one visit, two agents, three edits, three
  connections, revocations or error answers, one failure or lost reply): `EventAgrees`,
  `ConnectionIsKept`; part reminders (two visits, two passes at once, two passes
  per hour, one change, one failure): `BeforeTheVisit`, `RemindedOnce`.

Not promised: deleting a lead deletes its visits by cascade (`leads.service.ts:292`,
`schema.prisma:631`), and their events stay at Google; any answer of the token
endpoint that is not a token, too many requests and errors of Google among them,
disconnects the agent (`google-calendar.service.ts:152-156`): only a request that throws
leaves the connection; visits the AI creates get no event; a change of agent leaves the
event with the old one; an update while the event is being created is lost until the
next edit; a token refused late erases a newer connection; a visit moved after its reminder is not
reminded again; a failed `queue.add` leaves a queued message without a job; a
visit removed meanwhile breaks off the whole pass.

### MeliSync, TenantRecords, LeadStages, LeadImport

`MeliSync` has the one-use refresh token (`stored`, `accepted`), and each sync
with its item loop.  `TenantRecords` has one table at a time, of eight: what it
checks, whether it has a unique key, what it does when the key is taken; `ConnectPage` is the other way to a source
of Meta, `connectPageForm`.
`LeadStages` has stages with key, order and default and the leads in them; an order is the
caller's or the next one (`AskStage`, `UpdateStage`), and a sort is of any list of stages
known at some time (`SortStages`).
`LeadImport` has imports (by chunks, with what they saw at their start) and the
webhook of other systems.

* `office`, part meli (two syncs, two listings, two agents, three moves, one
  fault): `StaysConnected`, `ImportIsRight`; part records (two requests, two
  keys, limit two, three rows, two changes): `KeysAreUnique`, `LimitIsKept`;
  part stages (three ids of stages, two keys, one lead, two users, an order callers give,
  five requests): `StagesAgree`,
  `StageIsKept`; part import (two importers of five rows in chunks of two, one
  webhook call, one failure): `ImportedOnce`, `AnswerIsTrue`,
  `CountedIsAnnounced`.

The run bundles them: `OutsideAgrees` is `EventAgrees`, `BeforeTheVisit`,
`RemindedOnce`, `StaysConnected` and `ImportIsRight`; `RecordsAgree` is `KeysAreUnique`,
`StagesAgree`, `ImportedOnce`, `AnswerIsTrue` and `CountedIsAnnounced`;
`NothingIsLost` is the three action properties.

Not promised: any error answered to the refresh of the MercadoLibre token disconnects
the tenant (`meli.service.ts:153`); connecting a page of Meta asks for no plan
(`meta-oauth.service.ts:318`), so that a starter tenant gets sources it may not create by
hand; a caller may give two stages one order, on creation (`leads.service.ts:354`) and on
update (`:398`), so that orders differ only from a full sort on and until then; a partial sync is reported as a success; a refusal in the middle
of a sync overwrites descriptions with titles, and the sync still sets its date
after the disconnection; overlapping syncs double pictures or disconnect the
tenant; `maxChannels` is never checked; a plan's access to the AI is checked in
API controllers only; two AI configurations can be made at once; making a stage
the default does not unset the other, and deleting the default one leaves new
leads with none; an imported lead emits no event; a row that failed still counts
as seen; rows with only a name are never recognised; a webhook request repeated
after an error creates a second lead.

### BrowserSession, DashboardPages

`storage` is the one entry of localStorage, `tab[t]` what a tab holds in memory,
`tabCalls` its calls by what they read before they were sent.  `DashboardPages` has
one row of the API, what the page shows, its loads and writes under way and its
form; `page` is a record that says how each of twenty-seven pages, tabs and
panels differs: what its form writes (the whole row, the fields changed, a
part), how a button shows its effect (late, at once, patched), whether it
filters, polls and hides what it is loading.

* `dashboard`, part session (two tabs, two people, two renewals a minute, two
  calls per tab, six moves): `SessionIsWhole`; part pages (two
  requests of each kind, three moves, one failure): `ShownIsCurrent`, `NothingIsUndone`.

Not promised: a refresh in flight at a logout writes the session back (`auth.tsx:85`; the
clause on a session that was left is about logouts with no call under way); more
than ten refreshes a minute end a good session; a refresh that fails erases a
later login; two tabs of different people disturb each other; the load after a
write uses the filter there was when it was pressed; the last answer is shown,
whichever was asked last; a form overwrites what others changed since it
was filled; a load of the lead page while its form is edited erases the edit; a
failed load of the availability and a save store the defaults.

### Commissions, MetaSources, ReelJobs

Rows of deals with the shares computed from what a request read, and the
summary's four queries; the wizard of the Meta page with its requests that
nobody cancels and whose steps may fail (`ConnectReads`, `ConnectBreaks`), the window that grants access and its two ways to tell; jobs of
videos in memory and rounds of questions of the page.

* `dashboard`, part deals (two deals, percentages 0 and 5, four moves):
  `SharesAddUp`, `SummaryAgrees`; part meta (two pages, nine moves, one fault):
  `SourcesAreWired`; part reels (two jobs, two rounds, one fault):
  `ShownJobIsTrue`, `ShownGoesForward`.

`PagesAreTrue` is `ShownIsCurrent` and `ShownJobIsTrue`; `DealsAddUp` the two of
the deals; `StepsAreKept` is `NothingIsUndone` and `ShownGoesForward`.
`OpenEdit` fills the form of a commission when its row has been loaded, and its amount and
percentages can be edited.

Not promised: a disabled commission rule still applies; a percentage of 0 is
replaced by the rule's; the date of a payment is never cleared; the wizard
closed while forms load can pair a page with another's form; a failed
subscription is tolerated; sources keep their token after a disconnection;
sources made or changed through `POST` and `PATCH /lead-sources`
(`lead-sources.service.ts:65-134`) are not part of the wizard's model; video jobs are lost with the process, and overlapping rounds put an older list back.

### OfficeFunctions

A behaviour is one question with its inputs; the functions are the code's,
compared with each other and with reference definitions.  The weights, caps, brackets and
thresholds of a score are a record: the API's may be those of `SCORING_CONFIG`
(`Overrides`), the worker's are the defaults.

* `dashboard`, part functions (days of three hours, two days ahead):
  `FunctionsAgree` is `WorkerOffersWhatIsFree`, `ScoresAgree`,
  `NextStartIsOpening` and `ConditionsAreConsistent`.
* `slots_last_day`, which is expected to fail: `OfferedIsUnblocked` is what the
  comment of `getAvailableSlots` says (`users.service.ts:203-206`), but the
  visits are queried up to midnight of the last day (`:224`) while the loop
  includes that day (`:234`): its slots are offered, visited or not.

Seen while modelling: numeric comparisons with a missing or non-numeric value
hold, against the comment at `rule-engine.service.ts:346-349`; the worker ignores the
minutes at which an availability starts; a message of an agent can lower a score when there are
more than fifty.  The worker's comment says that it "mirrors the API" (`apps/worker/src/services/lead-scoring.service.ts:6`);
it does so without `SCORING_CONFIG` only, which the API alone reads
(`apps/api/src/lead-scoring/lead-scoring.service.ts:72`): with it the two overwrite each other's scores.  The
default weights sum to a hundred, so that the cut-off happens with `SCORING_CONFIG` only; a sum below
zero, which takes a negative weight, is 0 as a score and negative in its breakdown.

## 3. Why the bounds are enough

Each hazard is a collision of two actors or of one actor and one failure, so
two of each racing kind, one fault and one crash bring it about.  A second
message or run in the modules that have one would add only
independent copies: rows of different messages share no column, apart from the
queue's batch and its per-agent limit (two and three items there) and the
first-contact count.  The properties that hold only without a
race, an overlap or a fault fail when that hypothesis is dropped, so the
instances reach the race.  Every property is broken by a small change of the
modelled code (`mutants` in `PROJECT.json`), so the instances are large enough
to see it.

The numbers of moves are those of the longest story that a property tells: a
connection, its revocation or an error answer, and a new one (three turns), three requests that
edit a visit around one call, six moves in which two tabs of two people log in,
out and in again, nine moves to go through the wizard once and partly again,
five requests that add two stages, put a lead in one, and move and delete at
once, or give an order twice and sort.  Three hours a day leave room for an availability that begins late, a
visit, and a free hour after it; two days ahead have a last day that is not the
first.  The chunk of two rows leaves five rows in three chunks.  A limit of two
is passed by two requests at once from one row, and by one from two.

`ReportsPage`, `CommissionsList` and the other pages are inputs of
`DashboardPages`, not bounds: all twenty-seven are initial states.

Deadlock is not checked in the runs where everything may be done and every bound spent.

What runs assume of the platform: BullMQ processes one job at a time per queue
and hands a stalled job out once more; one worker and one API process; Prisma
statements are atomic; a job's delay and backoff are arbitrary (any waiting job
may be next), except that in `MessageDelivery` a job is delivered at some time.
Fairness is assumed in four runs only and always weak: of statements and
requests in progress, of crons and timers, of BullMQ's delayed jobs.

## 4. Proofs

Each proof module EXTENDS the module it is about, or the composition of several
(`MCConnections`, `MCOffice`, `MCDashboard`, whose constants stay parameters),
so that what is proved is what the runs check.  No proof uses a bound on moves,
faults, crashes, edits or deliveries, or a number of items: these are any number
there.  All safety properties of the runs `queue_safety`, `delivery`,
`followups`, `recovery`, `inbound`, `ai_conversation`, `rule_engine`,
`connections`, `office` and `dashboard` are theorems, most of them without
hypothesis; where there is one it is named in the statement.

| Module | Proved | Under |
|---|---|---|
| `QueueDrainProofs` | `TypeOK`, `BudgetInv`, `WithinBudget`, `ImplementsLedger`; `FailedOnlyWhenSpent`, `CompletedHasRun`, `CancelledIsFinal`, `SaidNeverGoesBack` and so `RowsTellTheTruth` | nothing |
| `MessageDeliveryProofs` | `TypeOK`, `QueuedIsCarried`; `OnlyQueuedIsPosted`; `DeliveriesAreGranted`; `SendsAreAccountedFor`, `ImplementsOutbox` | nothing; `OneWorker`; finitely many requests; `RetriesAlone` |
| `FollowUpsProofs` | `TypeOK`, `NothingSkipped`, `CancelledIsFinal`; `StepsInOrder` | nothing |
| `InboundProofs` | `TypeOK`, `ContactsAreMetOnce`, `RowsAreAnnounced` | nothing |
| `AiProofs` | `TypeOK`, `AnswersInTurn`, `AiGivesWay` | nothing |
| `RuleEngineProofs` | `TypeOK`, `ActionsRunOnce`, `MatchedRulesAreHandled`, `RoundRobinIsBalanced` | nothing |
| `OfficeProofs` | recovery: `TypeOK`, `LeadsMatchReviews`, `ReviewIsFinal`; stages: `StageTypeOK`, `StagesAgree`, `StageIsKept`; records: `KeysAreUnique`, `LimitIsKept`; calendar: `CalendarTypeOK`, `EventAgrees`, `ConnectionIsKept`; reminders: `BeforeTheVisit`, `RemindedOnce`; marketplace: `StaysConnected`, `ImportIsRight`; imports: `ImportedOnce`, `AnswerIsTrue`, `CountedIsAnnounced`; the run: `OfficeTypeOK`, `OutsideAgrees`, `RecordsAgree`, `NothingIsLost` | nothing |
| `DashboardProofs` | channels: `TypeOK`, `ChannelsAreTrue`; the run: `DashboardTypeOK`, `SessionIsWhole`, `PagesAreTrue`, `SourcesAreWired`, `DealsAddUp`, `StepsAreKept`; the functions: `WorkerOffersWhatIsFree`, `ScoresAgree`, `NextStartIsOpening`, `ConditionsAreConsistent`, and so `FunctionsAgree` | nothing; a day of two hours or more for `FunctionsAgree` |

"Nothing" is: nothing beyond the assumptions the modules make of their constants
(sets of requests, reviewers, leads, starters, stages, visits and passes are finite
because the model counts over them; queues of rules and of updates, and the rows of
a file, are sequences, and a file has a row; a row has a name or has not; the agents
of the round robin are not empty; editions number their steps; rules on
`lead.assigned` do not assign; the placeholders are none of the values they stand beside).

The hypotheses are what the deployment has and the code does not enforce, and TLC
refutes each property without its own:

* `OneWorker`: one worker process with BullMQ's default concurrency of one, hence
  one job of the queue at a time.  With two processors a stalled job and its
  second delivery send at once.
* `RetriesAlone`: no two retry requests of one message at once.  It is a
  constraint on the environment, `Spec /\ []RetriesAlone => ...`: the button of a
  message being retried is disabled (`messages/page.tsx:405`).  With two windows
  a sent message is queued again.
Cycles of the queue and ticks of the follow-ups are any number at once: what
an overlap costs is counted by `doubled`, and the theorems bound the harm by it.

### The inductive invariants

No property below is inductive by itself.  In each module the first part is the
shape of what requests and jobs carry, the rest is why the property holds.

* **Queue.**  The limit is tested in the catch block with the attempts as they
  were fetched.  `BudgetInv` adds that a cycle has one snapshot of an item, that the
  cycles that have an item are at most one more than the fetches that doubled it
  (`Holders`), that the attempts and those still to be begun together stay within
  the budget (`Claimed`), that a snapshot is behind by no more than one attempt and
  one for each overlap, that a pending row has an attempt left, and that runs never
  outnumber attempts.
  `StepBudget` is the cycle's own steps (on the frame facts of `StepFrame` and
  `OthersSafe`), `OutsideBudget` everything else; the refinement of
  `AttemptLedger` follows step by step.  `OutcomesInv` needs no hypothesis: a
  loop that is about to write an outcome has done what it says, and attempts only
  grow (`OnlyForward`).  `EditsInv`: the text a cycle holds lies between the last
  one sent and the row's.
* **Delivery.**  `Turns`: whoever creates a message has it to itself until it is sent
  or left to a job, and a sender that has not asked the provider yet finds it
  queued or gone.  `Granted` balances deliveries and the claims still open (jobs,
  the one sender that has not posted, requests about to add a job) against
  one plus retries and crashes.  `Once` is the same without crashes: one
  carrier at most (send, job or request), whose attempt is the number of misses.
  `AskedOfFailed`: a retry that goes on to its update read a failed message, and
  nobody else has queued it since.
* **Follow-ups.**  `TicksSendInOrder`: what is sent of a run is everything before
  its step, in the copy a tick holds as in the row (`Shape` and `Blank` say what
  copies can be).  `SendsAreCounted`: step k of a run may go out once more for each
  tick that has the run at k, not sent, or before it, and once for the row when no
  tick has the run where its row stands; with what was sent these are at most one,
  and one more for each fault and overlap.  Every step drops such a right, regains
  one by a fault, passes it on to the row, uses it, takes it from the row or doubles
  it (`EveryStepPasses`); `HeldOnce` and `HeldAreEnrolled` say what a tick has.
  `StepsStand` and `EditsAreWhole` for the editions.
* **Recovery.**  `ReviewsInOrder` ties each statement of a review to the row it
  can find; `LeadsAreBounded` counts leads and reviewers about to create one
  against reviewers, failures and crashes; `HooksAreSubmitted`; `EventsFollow` counts events and
  lost leads against leads, less those between the two statements.
* **Inbound.**  `Singly`: as long as nothing raced one request is in progress;
  under it `MetInOrder` (a lead is created by the request that found none),
  `FirstInOrder` (who counts one row stores the first), `OutInOrder` (an echo
  finds the row of its send).  Whatever races, `AnswersAreCounted` (the count of
  first contacts) and `EventsFollow` (an event per row, less rows whose request
  has not come to it).
* **AI.**  `WorkIsInTurn` (the markers of a reply are worked through in their
  order), `JobsAreTaken` and `RepliesAreCounted` (replies are the refused
  attempts and one more once the job is spent, and visits no more than replies); `GoodbyeEndsTheConversation` and
  `LateIsBounded` (what goes out after a takeover was being generated);
  `RequestsAreTrue` and `StatusFollows` for the two action properties.
* **Rule engine.**  `OnceAtMost` counts what ran for an event against the
  deliveries of its jobs, those waiting and in hand included; `TextsAreNew` for the
  five-minute check; `RulesAreReached`: a matched rule was begun, or the runner
  or the job of its event can still come to it; `AgentsInTurn`: loads differ by one at most, and the runner
  that picked has the least loaded.
* **Channels.**  `RowsAreNumbered` (a request made for an earlier row cannot write
  to a later one), `InstanceIsNamed` (who writes CONNECTED found an instance in
  that row) and `ChangeIsAnnounced`: the instance of a connected channel that is
  no longer open has its event on its way, or the webhook is about to write that event
  to this row.  For Telegram `BatchInOrder` (the batch continues where
  the handlers stand, behind which all has ended), `RowsAt` (in one life each
  row once, each restart adds one life) and `MetAt` (a sender counted as having
  answered has a row besides the one being counted).

* **Calendar.**  Without a reason in `why`, `EventFits`: the visit is settled
  (`EventSettled`), or exactly one call tells Google of it as it is (`Telling`),
  or it is being removed (`Removing`); every action is a step between these three, or
  gives a reason, as the deletion of the lead does.  `TokensStand`: a token held by a call is no newer
  than the stored one, so that a refusal is of an older token.
* **Records.**  `CountsWereBelow`: who goes on to write was below the limit of
  the plan it read.  Seven tables have an index or allow equal keys; in the
  eighth, `OneWriter`, the look-up of the only writer still holds.
* **Stages.**  `LeadsArePlaced` and `LateAreKnown` (who deletes a stage has seen
  it empty but for those who came since), `OneAsks` and `MovesAreTold`; for the
  orders, while nothing jumbled them, `InOrder`: they differ (`OrdersDiffer`), and the one
  who is adding a stage has an order above all of them (`AddsAreLast`); `OrdersAreBounded`,
  so that there is a next one.
* **Reminders.**  `VisitFits` counts the passes that hold a visit: those that will
  still tell of it (`WillTell`), that told of it and did not flag it
  (`HaveTold`), and that are at one statement with it (`AtStep`).  What was told and
  what will be told is at most once, and once for each pass that broke off or overlapped;
  until a visit is flagged what was told is accounted for by a broken pass or one that
  has yet to flag it; the minutes it has been due are no more than the passes that
  were lost or hold it.  A pass holds a visit once (`VisitLists`).
* **Marketplace.**  `TokenIsGood`: unless two exchanged, a token was lost or the access
  withdrawn, one sync exchanges at a time, holds the stored token or the accepted one
  it is about to store, and between exchanges the stored token is accepted.  `SyncFits`:
  what a sync fetched, still has to do and has made at each goal; `TextsAreFull`,
  `PicturesAreOnce` and `OneAgent` add to the rows what syncs under way are about to write.
* **Imports.**  `ImportFits`: rows created and skipped are those an import went through,
  and each of these was created, or is like a lead there is or a row it tells of
  (`ToldFrom`).  `KnownDiffers`: while imports write one after the other, no import wrote a
  lead like an earlier one, and the one that goes on knows every contact (`Knows`).  The
  reading of a chunk is a recursive function over the rows: that there is one
  (`RowsAreFollowed`), which `Mapped` is (`MappedFollows`), and that it does for a chunk what it
  does for a row, is shown by the least row at which it would not (`LeastNumber`), since
  the induction theorems cannot be instantiated.
* **Session.**  `TabIsWhole` for tabs nobody disturbed, with `CallFits`: what a call
  under way is for, and that one which restores or logs in is its tab's only one.  `LeftIsOver`:
  after a logout with no call under way the entry is empty and no call of a tab can fill it but a login.
* **Pages.**  `OneByOne`: while nothing is excused one request is under way, and what the page
  shows is what the API has, before or after it.  `RowsAreTold`: the turns of
  a row tell its flag, so that a flag that differs was changed meanwhile;
  `FormsAreFilled`.  The twenty-seven pages enter by four facts each (`PageFits`).
* **Commissions.**  `UpdatesFit` (an update remembers the row it read, and its
  preview is of the numbers it gives) and `AnswersAreNew` (the queries answered since the last
  change agree with the rows); the sums by `SumOf` over finite sets.
* **Sources.**  While the wizard did not stray, `OneAnswer` (one answer is waited for,
  during which nothing can be chosen), so `FormsMatch`; always
  `PagesAreAsked` and `TokensAreCurrent`.  The first attempt failed for a reason: a wizard
  opened again, or a grant heard, while forms were loading leads the pairing astray too, which
  the property now names (`strayed`).
* **Reels.**  `Behind`: what is shown, and what a round has found, is behind the jobs;
  `RoundsGoForward` for a round that is alone.
* **Functions.**  A question never changes, so these are facts of arithmetic and sets, for
  any availability within a day, visits and time (`WorkerOffersAnyFree`), any lead
  (`ScoresOfAnyLeadAgree`), any week of entries that begin before they end
  (`NextStartIsAnyOpening`) and any words and numbers (`AnyConditionIsConsistent`); that
  the questions of the run are of these kinds gives `FunctionsAnswerAlike` for any
  number of hours and days ahead.  A slot is a day and an hour of it (`SlotOf`), by uniqueness
  of quotient and remainder (`Quotient`).  An opening is the earliest start of the first
  day that has one: seven days suffice as every day of the week is among them.  The
  breakdown of a score is a fold over a set of names, whose value is the sum in any
  order: one function satisfies its recursion (`SumExists`), and no other does (`SumIs`, by a
  smallest set where two would differ).
* **The compositions.**  A step of `MCDashboard` or `MCOffice` is one of one part and
  leaves the others alone: its specification implies that of each part (`SessionOfDashboard`,
  `CalendarOfOffice` and the like), from which `DashboardIsTrue`,
  `DashboardStepsAreKept`, `OutsideStaysAgreed`, `RecordsStayAgreed` and `OfficeLosesNothing` follow.

### What is only model-checked

* Liveness: `PendingIsDrained`, `QueuedIsSettled`, `RunsFinish`, `OpenIsNoticed`
  and `ConnectingEnds` need fairness and ENABLED, beyond the prover.
* `OfferedIsUnblocked`, which is false: its run shows the slots of the last day.

## 5. What is not modelled

`PROJECT.json` lists every part with its status and reason.

* Partly modelled: inbound WhatsApp (demo numbers are routed elsewhere and
  messages without a sender are dropped), the AI conversation (demo mode and the
  text of the prompt), the no-response scheduler (which leads it selects is
  the environment's choice), records of a tenant (availability rows, media,
  the tags of a lead), pages (markup and validation in the browser).
* Not modelled, because two steps of the program never dispute their state:
  mail and WhatsApp notifications of leads (one send, logged), encryption and
  guards (stateless), AI endpoints of the API (one call per request), templates,
  custom fields, uploads, the public catalogue and the ICS feed (rows and files
  written one at a time), dashboards, reports, agent performance, event log and
  notifications (they read tables or append rows), the landing page, the theme
  and the wrappers of the API client, the `video/` compositions, `docker/` and
  `scripts/`.
* Left out inside the modelled parts: the contents of texts, the mapping of
  fields between systems, paging, percentages of progress, and times other than
  their order.
