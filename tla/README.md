# Formal models of the NoteX backend

NoteX is a FastAPI backend (`src/app`) that turns chat messages into items
(reminders, notes) on a calendar. A message is stored and handed to a Celery
worker; the worker asks an LLM for operations and writes them as a *proposal*;
the proposal is applied at once, on confirmation, or never. PostgreSQL holds all
durable state, Redis is Celery's broker and the channel of live events.

This directory holds TLA+ modules for the parts of the backend where several
processes, sessions or coroutines change the same state, TLC configurations that check them on small
instances, and TLAPS proofs of what holds for all instances.

## The system

### How the parts interact

    client ── POST /messages ──▶ MessagesService ──▶ conversations.version + 1
                                     │               messages, proposals (QUEUED)
                                     └── send_task ──▶ Redis ──▶ Celery worker
                                                                     │
      MessageProcessor: router LLM ▶ context/LLM ▶ staleness ▶ resolver/conflicts
                                                                     │
    client ── POST /proposals/apply, /{id}/confirm ──▶ ProposalsService ◀── auto-apply,
                                                         │                  chat "yes"
                                              items, item_events, proposals.status
                                                         │
                          EventBus ▶ Redis pub/sub ▶ WebSocket manager ▶ client

API processes (one asyncio loop each), worker processes and the database are all
concurrent. They share state only through PostgreSQL rows and the broker. No row
is locked by any `SELECT`; the only lock the code takes on purpose is the one of
`UPDATE conversations SET version = version + 1`.

### Inventory

| component | code | state | operations | hard behaviour | correct when |
|---|---|---|---|---|---|
| message ingest | `services/messages_service.py`, `routes/messages.py`, `db/repositories/{conversation,message}_repo.py` | `conversations.version`, `messages`, new `proposals` | post a message | overlapping retries, row lock, death between commit and `send_task` | versions identify messages; one message per client id; responses are true |
| processing worker | `workers/message_processor.py`, `proposal_manager.py`, `context_loader.py`, `tasks.py`, `celery_app.py` | proposal status and ops, the broker's unacked tasks | process a message: route, confirm/reject by chat, pipeline, mark stale/failed/ready | redelivery, time limits, failed sessions, values read before an LLM call and used after it | every message gets an answer, made from its own words; overtaken messages offer nothing; settled proposals stay settled |
| application and confirmation | `services/proposals_service.py`, `routes/proposals.py` | items, item events, proposal status | `apply_proposal`; `confirm_proposal` with four actions | commits in the middle of an apply, two sessions on one proposal | operations execute completely and once, become permanent together, and are audited |
| legacy intent dispatch | `workers/intent_handler.py`, `services/intent_dispatcher.py` | as above | approve, cancel, note-only | two commits for two proposals | as above |
| items, tasks, notes | `services/{items,tasks,notes}_service.py`, `item_repo.py` | items, item events | complete, convert, delete | commit inside the repository, event after it | every change has its event; a conversion takes no slot that is taken |
| enricher and conflicts | `workers/proposal_enricher.py`, `proposals_service.py:606-1139`, `utils/time.py` | questions in proposals | find colliding slots, ask, suggest | check and insert apart; words parsed twice, at two instants | what was checked is booked, and not beside a task the check could see |
| resolver | `services/resolver_service.py` | none; reads items | score references | - | - (its outcome is an input) |
| event bus | `events/bus.py`, `redis_pubsub.py`, `redis_streams.py`, `workers/event_notifier.py` | a Redis stream and a channel per conversation | publish, subscribe | two calls, errors swallowed | what is seen live is in the history |
| WebSocket, SSE | `events/websocket_manager.py`, `routes/realtime.py` | connections per conversation, subscription task | connect, disconnect, broadcast | list changed during a broadcast, dead subscription, replaced task | events in order, none twice, none missed by who stays |
| authentication | `services/auth_service.py`, `auth/security.py`, `{user,refresh_token}_repo.py` | users, refresh tokens | guest registration, refresh | overlapping registrations, two refreshes with one token | one user per device; a token family survives |
| user settings | `user_settings_service.py`, `user_settings_repo.py` | zone, metas, options | update | read-merge-write, row locks | no update is lost; no deadlock |
| devices, notifications | `routes/devices.py`, `device_repo.py`, `notifications/` | devices | register, delete, send, deactivate | results matched by position, retries, row locks | only a refused device is deactivated; the report is true |
| LLM routers and providers | `llm/router.py`, `*_provider.py`, `intent_*.py` | none | route, ask, retry | any answer, any failure | bounded attempts |
| MCP client and server | `llm/mcp_client.py`, `mcp_server/` | child process, lock, id counter | start, call, close | restart under the client's own lock, cancelled calls | a call ends, with its own answer |
| conversations | `services/conversations_service.py` | conversations | create, list | none beyond the version | - |
| shell, migrations | `main.py`, `core/`, `alembic/`, `scripts/` | configuration | - | - | - |

`PROJECT.json` lists every component with its status and every hazard with the
line where it bites and the properties that would notice.

## The modules

| module | what it is |
|---|---|
| `Ingest` | What accepting messages promises: a version, a rank of transaction start and a hand-over per message. Abstract specification |
| `Messages` | `create_message` statement by statement; implements `Ingest` |
| `Proposals` | Workers and requests over the proposals of a conversation; takes its messages from `Ingest` |
| `ProposalsHistory` | `Proposals` with the memory of redeliveries, overlaps and failures of each proposal |
| `Routing` | The way of a message's words to the LLMs and back; takes its messages from `Ingest` |
| `Calendar` | Conflict checks against bookings: workers, confirmations, note and task calls over one user's items |
| `Feed` | What a realtime connection is promised. Abstract specification |
| `Realtime` | Event bus, connection manager, subscription tasks and SSE; implements `Feed` |
| `Accounts` | Registration, token rotation and settings of one guest, with PostgreSQL's row locks |
| `Notify` | Devices, batches of pushes, retries, deactivation |
| `McpClient` | The MCP client's coroutines, lock and processes |
| `MC*` | TLC instances of the module of that name |
| `*Proofs` | Proofs about the module of that name |

`Messages` implements `Ingest`, and `Proposals` and `Routing` are built on `Ingest`
instead of on the statements of `create_message`: that is what lets them have
several more processes. In the same way `Feed` is what a client of `Realtime`
may rely on.

A model covers one conversation, one user or one client. `conversation_id` and
`user_id` select the rows of every query that the models contain. (Items are shared by a
user's conversations; for `Proposals` an operation on another conversation's item is a
`change` like any other, and `Calendar` has all the items of the user.)

### Messages

State: `version`, `stamp` (version of a stored message and of the proposal created
with it, 0 if none), `began` (order of transaction starts, which is the order of
`created_at`, because PostgreSQL's `now()` is the transaction's start), `sent` (tasks in
the broker), and per call `pc`, `drawn` (the version its `UPDATE` returned), `found`
(what the idempotency lookup returned), `reply`; `lock` is the conversation's row lock.

| action | code |
|---|---|
| `Open` | the route's ownership query opens the transaction |
| `Lookup`, `Replay` | `get_by_client_message_id`; for a known id the version is read again and answered with `enqueued=false` |
| `Increment` | `increment_version`: waits for the row lock, works on the row as last committed |
| `Store` / `Conflict` | insert and commit, or `IntegrityError` from the constraint of migration 0003 and rollback in `get_session` |
| `SendTask` | `celery_app.send_task` after the commit |
| `Respond` | what is left: the queued event and the response |
| `Fail` | the process dies or `send_task` raises, at any point |

The inserts are flushed before `COMMIT`; as the inserting session already holds
the row lock, no other session can be between its `UPDATE` and its `COMMIT`, and
insert plus commit are one step.

### Proposals

State: `status` and `ops` per proposal as committed; `items`, the set of item changes
that have been committed, each named by proposal, operation, kind and the job that
made it; `audit`, the item events, named by the change they record; `acked`, tasks the
broker forgot; and `job[j]`, one record per delivery or request: where it is (`pc`),
the message it processes (`own`), the proposal it found or applies (`target`), the
operations it executes (`plan`, `step`), the status it loaded (`seen`), and its
uncommitted inserts (`rows`) and events (`trail`).

A proposal's payload is a sequence of operation kinds, which is what distinguishes
the commits: a `create` only flushes; a `change` (update, delete, cancel and so on of
an item that is found) goes through `item_repo.update`, which *commits the session*
and only then writes its event; a `skip` is an operation whose reference does not
resolve (`_resolve_item_id` returns `None`). Titles, times and values are left out.

| action | code |
|---|---|
| `Deliver` | `load_context` and `update_to_running`, which looks at no status. No reader can act between the two on what differs, so they are one step |
| `FindActive` | `_get_active_proposal_context`, before the router's LLM call |
| `ConfirmByChat`, `RejectByChat`, `Continue` | the router's decision, after the call |
| `CheckStale` | the one comparison of versions after the pipeline's LLM call |
| `MarkStale`, `AskConfirmation`, `NoOp`, `MakeReady`, `MarkFailed` | the pipeline's outcomes, each a commit |
| `ApplyRequest`, `SkipOp`, `CreateOp`, `ChangeOp`, `FinishApply`, `AckOwn` | `apply_proposal` from a request, auto-apply or chat, operation by operation |
| `ConfirmRequest`, `CancelNew`, `AskAgain`, `ReplaceExisting`, `Approve` | `confirm_proposal` and its actions, ending in `apply_proposal` |
| `Ack`, `Die`, `Kill` | Celery: `task_acks_late`; a lost host is redelivered; a child killed by the time limit is acked |
| `CommitFails`, `RefreshFails` | a failing commit in `item_repo.update`, and a failing `refresh` after a commit that succeeded; both are rolled back there and raised |
| `SessionBreaks` | any other failing statement (not rolled back in the worker, so that its clean-up fails as well) |

`ReplaceExisting` is one round of the loop over the conflicting items, each with a commit of its own
and each able to fail.

`ProposalsHistory` adds four history variables, which no action reads. They name, proposal by proposal,
what the code does not exclude: `again` (its task was delivered after it had begun, which
`acks_late` without a look at the status allows), `crowded` (it was settled while another session was still at
work on it, which nothing locks out), `torn` (a session failed after `item_repo.update` had committed part of
its operations) and `abandoned` (a delivery of its message was killed, or its session broke: acked, and picked up by nobody).
`NextH` is `Next` with each disjunct remembered; `Settles` says that every message but an `abandoned` one is answered. `AppliedIsComplete`, `AtMostOnce`, `AllOrNothing` and `TerminalStays` say that there is no other way to
lose or repeat an operation or to unsettle a proposal. Sessions overlap as they like, and every one of them may fail.
A `skip` is not demanded: an operation without effect has nothing to lose, and that a
proposal of such operations is APPLIED all the same is the violation `proposals_empty` shows.

What the models take from the libraries, and rely on:

- Sessions run at READ COMMITTED with `expire_on_commit=False` (`db/session.py`).
  An object loaded and still referenced keeps its loaded attributes; one no longer
  referenced is read anew. That is why `ConfirmByChat` sees the committed status while
  `Active` treats the session's own proposal by its cached status.
- SQLAlchemy writes a column only when its value differs from the loaded one
  (`PutIfChanged`).
- A rollback expires loaded objects. After `CommitFails` in a chat confirmation the
  pipeline touches one outside of an await, raises, and `update_to_failed` runs on the
  rolled-back session: `failing`, then `MarkFailed`.
- Redis redelivers a task that is not acked after its worker's host is lost. It is not
  assumed to redeliver one a live worker holds (`Held`).
- LLM answers and the outcome of resolver and conflict checks are inputs: any outcome
  at any point.
- Requests that are refused change nothing and are left out.

### Routing

State: the messages of `Ingest`, `bridge` (does the MCP server answer `/health`?) and `job[m]`
with the mode resolved so far, the message whose words stand last in the context (`last`)
and the attempts made.

| action | code |
|---|---|
| `Deliver`, `Route` | the intent router's answer, or its failure, which leaves the decision to `classify_intent` |
| `Settle` | confirmed or rejected by chat |
| `LoadContext` | `get_recent_context`: ordered by `created_at`, whatever is committed by now |
| `Propose` | ops mode: `generate_proposal` with its retries, OpenAI's or Gemini's failures |
| `UseTools` | tool mode, which needs the MCP server and is not retried |
| `CheckStale` | the comparison of versions |

Seen while modelling: `RouterDecisionType.NEW_OPERATION` (`intent_router.py:350`) does not exist;
the `AttributeError` is caught and becomes "no decision", which sends the message to
`classify_intent`. Without its library, Gemini's exception handler itself fails
(`UnboundLocalError`), and nobody retries that. The context is limited to 100
messages, which the model does not reach.

### Calendar

State: the `items` (type, status, deleted, due), the user's `zone`, the slot that is `now`, the proposals
with their ops and questions, and `session[s]`, what a call has loaded, checked and flushed. `book` is
a ghost: for an item, the check that preceded its time, and when and in which zone it got it. Time goes in
slots of half an hour, the width of the conflict window, on UTC's clock; a zone's clocks are ahead by `Ahead`.

A text is parsed whenever it is read, and what it means depends on the zone *and the instant* (`When`):
a date and time without an offset (`iso`) on the zone only; a time of day (`clock`: "19:00", "this evening") is the next one
to come, so it moves by a day when it passes; a time of day with "tomorrow" moves at midnight; a day without a
time (`date`) is filled up with the time of day at which it is read, as are dateutil's other guesses; and some
texts are no time at all (`none`). Answers of a client carry an offset and mean their slot. `NoSeenOverlap`
is about a task and *another* one: a note that is converted does not collide with itself.

| action | code |
|---|---|
| `StartWorker`, `CheckOp`, `Ask`, `Ready` | `ProposalEnricher` over the operations, one at a time, then a question or `READY` |
| `LoadToCheck`, `LoadToReplace`, `LoadToCancel`, `LoadToApply` | `confirm_proposal` by action, with any answers to the questions (suggested or not), and `POST /apply` |
| `CancelExisting`, `Replaced` | a cancellation with a commit of its own per item |
| `Create`, `Update`, `Skip`, `Applied` | `apply_proposal`: a create flushes its row; an update moves a task or changes its status (done, archived, revived), and commits what was flushed with it; the status commits the rest |
| `LoadItem`, `CheckNote`, `ConvertNote`, `DeleteNote` | note conversion and soft deletion |
| `Complete`, `Toggle` | `mark_as_complete`, `toggle_complete` |
| `SetZone`, `Tick` | the user moves; time passes, by one slot or by many |

What the two properties say, and what they leave out:

- `BookedAsChecked`: the time that was checked is the time that is booked, *if* the booking reads the words
  in the zone of the check and they still mean the same (`Repeats`, `Stays`). The worker checks in the user's zone,
  else the client's, but the operations are executed in the user's zone, else UTC, so a user without a zone
  may be booked at another time than the one checked; "19:00" checked a moment before seven and applied
  after it is booked for the next day. What cannot go wrong is that the user moves meanwhile, that other
  operations or answers are booked than those checked, or that the words change in any other way.
- `NoSeenOverlap`: a task that stands at the slot its check found is not within half an hour of a task that the check
  could see and that has kept its time. It says nothing of a task that was booked without a check
  (`replace_existing`, `POST /apply`), of one moved by an update operation (`_apply_update` checks nothing), of
  one whose words came to mean another slot, nor of one whose neighbour moved or was booked after the check.

Seen while modelling: the creates of one proposal are not compared with each other. The toggle revives canceled
tasks, and an unarchived task comes back unchecked; deleted notes can be converted. The audit event of a note's
conversion or deletion is added after the commit inside `item_repo` and never committed (`notes_service.py:54`).
Zones keep their distance from UTC in the model: the hours around a change to summer time, which pytz resolves,
are left out.

### Realtime

State: `sending` (how far `publish` is), `history` (the stream), `channel`, the connections
(`peer`), the manager's dictionaries (`keyed`, `active`, `entry`), the `task`s, what
Redis holds for each subscriber (`inbox`), and `got`, what each client has been sent. An
action reaches from one await to the next.

| action | code |
|---|---|
| `AppendToStream`, `PublishToChannel` | `EventBus.publish`, each with its swallowed failure |
| `Connect`, `Disconnect` | the manager; the first connection creates the task, the last one cancels it |
| `Subscribe`, `SubscribeFails`, `Receive`, `PollFails`, `Retry`, `Stop` | `_subscribe_and_broadcast`; a task that backs off loses what Redis could not deliver, or not, when the connection was never down |
| `Sent`, `NotSent` | one send of `broadcast_to_conversation`, over the list as it is now |
| `Open`, `Yield`, `Close`, `StreamFails` | the SSE endpoint; a stream whose subscription fails ends at once |
| `Leave` | a client goes away |

Seen while modelling: a subscription task that ended by an error keeps its entry in
`subscription_tasks`, so connections that come later start none and hear nothing; a task
cancelled while it backs off is not unsubscribed; `get_history` has no caller,
so what was skipped cannot be recovered.

### Accounts

State: `users`, `zone`, `token` and `heir` (`replaced_by_token_id`), `expired`, `metas`, `options`,
`optionsRow`, and per call what it has read, its locks and its answer.
A call's writes become visible at its commit; `Free` is the wait for a locked row.

| action | code |
|---|---|
| `FindUser`, `CreateGuest`, `MoveGuest`, `Issue` | `register_guest`: lookup, insert or zone update, token, commit |
| `Present`, `Rotate`, `Expire` | `refresh_tokens`: the check, then revocation and successor |
| `Load`, `SetZone`, `AttachMetas`, `DetachMetas`, `ReadOptions`, `InsertOptions`, `MergeOptions`, `CommitUpdate` | `update_user` |
| `Fail` | process or connection lost |

Seen while modelling: two overlapping refreshes with one token both succeed, and the
later one overwrites `replaced_by_token_id`; a client whose refresh response is lost
is left with a revoked token; of two settings updates that do not both move the zone,
one may be lost; a zone equal to the loaded one is not written (`user_settings_repo.py:32`)
even if another update has changed it meanwhile, and the response reports the loaded one.

### Notify

State: `row` and `platform` (the devices), `subscribed` (the tokens OneSignal accepts), `batch` (the calls with
their sends, statistics and uncommitted deactivations) and `pushed`, how often a push arrived.

| action | code |
|---|---|
| `Register`, `Delete`, `Leave` | the devices routes; the app unsubscribes |
| `ReadUser`, `ReadDevice` | `send_to_user` reads all rows at once, `send_to_devices` one by one |
| `WithoutProvider`, `Attempt` | the provider: disabled, or one HTTP attempt with its outcome |
| `Collect`, `Settle` | `gather`, then one result at a time |
| `Commit`, `Abort`, `Victim` | the caller's transaction, a failure, PostgreSQL's deadlock detection |

Nothing in the repository calls the service yet, and it never commits itself. Its caller is
therefore an assumption (`TargetsAssumption`): who calls `send_to_devices` names at least one device, and
each once; for no device at all the call would return at once. Grouping by platform keeps the order within
a platform.

Seen while modelling: `routes/devices.py` annotates its user as a `UUID` but gets a `User`, so the routes
fail as written; the results of `send_to_user` come grouped by platform and are matched with the
ungrouped list, which deactivates the wrong device when the platforms alternate
(excepted in `OwnTokenRefused` by name); a late "invalid" deactivates a device that has
registered again meanwhile; a timed-out push may have arrived and is sent up to three times.

### McpClient

State: `proc`, `nextId`, `line` (the lock's holder and who waits), `servers` (every process with its pipes),
`call`, `closing`.

| action | code |
|---|---|
| `BeginStart`, `BeginRpc`, `Create`, `CreateFails` | `start` and the calls, up to the first await |
| `Restart`, `Write`, `Drain`, `DrainFails`, `Read`, `EndOfFile` | `_rpc` with the lock |
| `Cancel`, `Close`, `Closed`, `Dies`, `Answers` | a caller gives up; `close`; the server |

A call that ends gives up its place in the line, and, if it has the lock and waits for it once more to
restart, the second place too (`Leave`).

Seen while modelling: `_rpc` calls `start` while it holds its lock, and `start` sends
`initialize` through `_rpc`: a restart, and any call before the first `start`, waits for itself
for good (`WaitsForItself`). Two overlapping `start`s both create a process; `_proc` is looked up
again after `drain`, so a call may read from a process it has not written to
(`ReadsElsewhere`). `close` forgets whatever is `_proc` when it returns. A cancelled call leaves
its answer in the pipe, and the next call fails on its id. `CallsEnd` names the first two as the
only ways to hang. No code calls the client yet. The model has one `close` at a time.

## Runs

Mutants of the modelled code live next to the definitions they replace (comment
`mutant:`); `PROJECT.json` names the property each must break.

| run | instance | shows |
|---|---|---|
| `messages` | three retries of one client id and one call without; two of them may fail anywhere | versions identify messages and leave no gap, one message per client id, responses are true, the handler implements `Ingest`, every call ends |
| `proposals` | `ProposalsHistory`: two messages, two deliveries, one request, overlapping; failing commits, refreshes and sessions, a lost host with redelivery, a killed worker; payloads with creates, a change and an unresolved reference (about 750,000 states) | an event is there only for a committed change; a creation never lacks its event; an overtaken message is never offered; an APPLIED proposal is complete; operations execute at most once and become permanent together; a settled proposal stays settled: with the exceptions named by the history and no others |
| `proposals_live` | `ProposalsHistory`: two messages, three deliveries; one may lose its host, two may be killed or fail in any statement | a message in the broker gets its answer, unless its delivery was killed or its session broke |
| `proposals_twice` | two overlapping `POST /proposals/apply` | *violation*: both pass the check commented "idempotency", and the items are created twice |
| `proposals_empty` | one message, one delivery, one request, no failures | *violation*: APPLIED without an operation executed, which `PROPOSAL_STATUS_FLOW.md:78-92` excludes |
| `realtime` | two events of one worker, three websockets, one SSE stream, two subscription tasks, a stream of length 1 | order without duplicates (`Feed`), one task speaks, the history has what was seen, only who is behind a leaver misses something, and what Redis holds is heard |
| `realtime_skipped` | the same | *violation*: a leaving connection shifts the list of a broadcast, and the next connection is skipped |
| `accounts` | two registrations, two refreshes, two updates with crossing metas, an unknown meta or an empty object of options | one user, true and surviving token chains, options ordered by the users row, every call ends |
| `notify` | a batch to all three devices, one to two of them by id | who is deactivated, what is reported, that both batches end although they may lock rows crosswise |
| `calendar` | two workers, a confirmation, an item call, a task and a note, create and update operations; one move, three instants (before the named time, after it, the next day), about two million states | what was checked is what is booked as long as the words mean the same, and not beside what the check could see; suggestions were free |
| `routing` | two messages, OpenAI with MCP | a message is answered from its own words, with bounded attempts |
| `mcp` | two `start`s and one call, three deaths, closes or cancellations | nobody gets another's answer, and every call ends except in the two named hangs |

Bounds. Three retries of one key are the least with which two wait behind a third
that rolls back; a fourth call interleaves versions with them. Two messages make
one of them overtaken, active in a chat, or both; in a payload of `create, change, create`
the commit of the change carries the first insert along and leaves the second behind, `skip, create`
has an unresolved operation before a real one, `<<>>` is the payload without operations. A
delivery or request runs once, which bounds redeliveries by the size of
`Deliveries`. In `Realtime`, three websockets are a leaver, who is skipped and who
is behind; two tasks are an old one that is cancelled and its successor (`Tasks`
bounds how often); two events show an order. `MaxStreamLen` is 1 so that trimming
happens. In `Accounts`, two calls of each kind are what races need, and a third
refresh token comes from the registrations. In `Notify`, two phones and a
browser are the least with which platforms alternate; `MaxRetries` is the code's
2. In `Calendar`, `Wishes` bounds the slots a client asks for on its own, `NextZones` how often the user
moves, `Moments` the instants; they are chosen so that one text collides with the task in one zone, or
before its time has come, and not in the other or after it. `RetryAttempts` in `Routing` is the code's 3. `Troubles` bounds what
befalls the MCP client: a death, a cancellation and a close together.

`CHECK_DEADLOCK FALSE` everywhere: when all calls, deliveries and requests have run, the
system has nothing to do. That calls are not stuck before is what `CallsEnd` says.

Fairness. Weak fairness of what a call, task or coroutine does once it has begun: the
event loop and PostgreSQL schedule it, LLM and HTTP calls have timeouts whose
outcome is a step. In `Messages` the row lock needs only weak fairness because each of the
finitely many holders releases it for good; the same holds of the locks in `Accounts` and `Notify`.
The broker delivers a message it holds while a worker is free. The MCP server answers
while it lives: nothing in the client bounds its wait. In `Notify` the batch's caller commits or fails.
Clients and users owe nothing, and failures are never fair. `Settles` is
checked with lost hosts, failing commits, broken sessions and killed workers. The last two leave the proposal RUNNING
for good (`SessionBreaks`, `Kill`), since nothing in the code picks it up again; `abandoned` names these messages,
and the property says that no other stays unanswered.

## What the code does that is worth knowing

Three disagreements with the code's own comments and documents are runs of their own (`proposals_twice`,
`proposals_empty`, `realtime_skipped`). The following are visible in the actions; no property forbids them
because the code has no means to prevent them, and where a property comes near it names
the exception.

- A message is lost when its call dies between the commit and `send_task`
  (`messages_service.py:108`); retries are told that it is there.
- A request lost after `item_repo.update` has committed (`item_repo.py:92`) leaves the proposal
  actionable, and the next attempt repeats its operations; and it leaves
  the change without its event.
- A chat rejection and a confirmation overwrite each other's final status
  (`message_processor.py:402`); a redelivered task sets a settled proposal back to
  RUNNING (`message_processor.py:213`).
- The version check of `apply_proposal` is commented out (`proposals_service.py:143`): an
  overtaken proposal that is READY can be applied.
- A proposal whose operation does not resolve is APPLIED without effect
  (`proposals_service.py:584`), and so is one without operations (`message_processor.py:818`), which
  `PROPOSAL_STATUS_FLOW.md:78` and `85-92` exclude (`proposals_empty`).
- An update operation moves a task onto another without any check (`proposals_service.py:355`), and "19:00" applied
  after seven is the next day's (`utils/time.py:106`).
- The soft time limit of 270 s raises in `run_until_complete` and leaves the coroutine pending in the worker's
  event loop, where it may go on during the next task (`celery_app.py:24`).

## Proofs

All theorems hold for every value of the constants that meets the modules' named
assumptions; TLC evaluates those in every run.

`MessagesProofs`: `TypeOK`, `VersionsIdentify`, `OneMessagePerKey`, `ReplyIsTruthful`, and `Spec => ImplementsIngest`.
`VersionsIdentify` is not inductive: that the drawn version is still the next one at commit
needs `LockInv` (the lock is held exactly by the call between `UPDATE` and end of
transaction, and then `drawn = version + 1`), and `ProgressInv` says what a call has stored by
how far it is. The proof of the refinement shows each step to be `Begin`, `Accept`, `Send` or a stutter.

`ProposalsProofs` has several invariants, each resting on those before it. None assumes that sessions do not
overlap, that no worker is lost, or anything of the payloads.

- `IInv`, for `TypeOK`, `AuditIsTrue` and `CreatedIsAudited`. The last two would fail if a commit could make one
  of two things permanent without the other, so the invariant speaks of uncommitted state (`JobOK`): an
  uncommitted event records a change that is committed or among the same session's uncommitted rows, and
  each uncommitted row has its event in the same session. `JobStep` reduces every action to the one job it
  changes, as items only grow.
- `Untouched` and `Passed`, for `SupersededNeverOffered`. Nobody works on a queued
  proposal, so who writes it after the version has moved on has taken it up after that: its own
  delivery does not pass the comparison of versions, and a request finds no actionable status to start
  from. `Passed` says of an overtaken proposal that it is not offered and that no session is about to offer it;
  no step ends that. `StepOffers` sums up what any step does as far as offers go.
- `AInv`, for `AppliedIsComplete`, over `SpecH`. The property is about the last step of an apply, but what it needs
  is that the operations in the proposal are still those that were planned when the apply began. Only the
  delivery of a message writes its operations unread, and only while its proposal is running, whereas whoever applies
  has found it settled; a second delivery breaks that, which is why `again` is excepted. Each operation
  behind the session's step is committed or among its rows (`DoneUpTo`).
- `HInv`, for `TerminalStays`, `AtMostOnce` and `AllOrNothing`, over `SpecH`. Whoever writes a proposal holds it, and
  a session takes hold only of what it has read to be actionable or of its own message. So a proposal settled
  while nobody else held it is out of everybody's reach (`SInv`). A session has executed operations of the one
  proposal it applies, and what it has made permanent before the end came with the commit of a `change`
  (`DInv`). It stops applying when all is permanent, or by failing; then either it has left nothing
  behind, or the proposal is `torn`, or the proposal is settled with exactly its operations (`CInv`).

`RealtimeProofs`: `TypeOK`, `OneSpeaker`, `LiveIsKept`, `MissesNothing` and `Spec => ImplementsFeed`; together with the order
of the abstract feed, which is an induction over its two steps, that every client gets its events in order
and none twice (`InOrderAlways`). The hard case is a broadcast that is under way while the list
changes. A websocket has had the current event only if it is not behind the one that is
being sent to; as the list is in connecting order and elements leave it, the number
of connections up to that one never exceeds the iterator's index
(`Cardinality(UpTo(to)) <= at`), so the iterator never comes to one twice. A new task starts with an
empty inbox and its first event is later than what its predecessor sent; a cancelled
task sends no more. `MissesNothing` needs the other direction (`SocketsInv`): as long as nobody who connected earlier has
left, that number *is* the index, so the iterator leaves nobody out, and whoever is earlier in the list has what
the later ones have. For a stream, what the client has and what Redis still holds for it
are the last events of the channel, without a gap (`Upto`).

`AccountsProofs`: `TypeOK`, `OneUser`, `HeirsAreTrue`, `ChainEndsLive`, `ZoneSerialises`. A call that has not ended has issued
nothing, so no link leads to it,
and the token it presents is another call's; no row is locked by two calls (`LocksInv`), which makes a registration
that has seen no user and holds the row the only one to insert it. That a chain ends in a live token
would be an induction over its length; `ChainEndsLive` says it of *families* instead, the sets of issued tokens
that are closed under `replaced_by_token_id`: each has a live member. A rotation keeps that, because a family with
the old token has the new one too, and one with neither is as before. An update that moves the zone
has the users row locked from that statement to its end, so among updates that all move it the options
each one has read are those its commit merges into (`OrderInv`).

`NotifyProofs`: `TypeOK`, `OwnTokenRefused`, `ReportIsTrue`. The rows a batch has read and the order it sends in are
permutations of each other, and the same list unless the platforms of a `send_to_user` alternate; there the
position of a result is the position of its row, which is what deactivation relies on (`OffOK`). The
counters are the cardinalities of the results settled so far (`CountsOK`), and stay true when one more is settled
because no device comes twice. A device is reached at most once per attempt, and at least once if its
send was accepted (`PushedOK`).

`CalendarProofs`: `TypeOK`, `BookedAsChecked`, `NoSeenOverlap`, `SuggestionsWereFree`. A check is of no use unless what it says stays
true until the booking. The invariant keeps it with the operation it is about (`CheckOK`): the slot it found
is what the operation's words meant in its zone at its instant, which is not later than now, and no task that it
saw is near. A booking has the slot that the same words meant later (`BookOK`), and the arithmetic of days and clocks
(`SameMeaning`) shows when the two are one: a time of day is the same slot until it comes, although midnight may lie
between, and "tomorrow" is the same within a day. What a session has flushed is kept like what is
committed, because an update commits it before its time; an item that is moved unchecked loses its check.

`RoutingProofs`: `TypeOK` and `OwnWords`. Ranks are drawn in the order of beginnings and versions in that of commits
(`RanksInv`); who passes the comparison of versions was accepted last of all, and
what stands last in its context began no earlier: either it is the message itself or the two overlapped.

`McpClientProofs`: `AnswersOwn` and `TypeOK`. An id is drawn once and goes with its request, into whatever pipe; so an
answer with the id a call waits for is the answer to that call. The argument needs neither the
lock nor that there is one process, which is why it survives the races of `start`. That nobody writes or reads
without the lock, which is part of `TypeOK`, is an invariant of its own (`LockInv`): calls join the line behind its
head, and who leaves it leaves the order of the others.

Only model-checked: liveness (`CallsEnd` of `Messages`, `Accounts`, `Notify` and `McpClient`, `Settles`, `Heard`), which is out of the
prover's reach. Of every other property of a passing run there is a theorem. The three runs that
expect a violation need none.

## Not modelled

- The legacy path with the intent router disabled (`intent_handler.py`, `intent_dispatcher.py`): the same
  proposals with the same commits, only run when the router cannot be built. `confirm_time`,
  whose route is commented out, and `approve_proposal`, called only from that path.
- The resolver and prompts, and the regular expressions of time parsing: text in, text out. Their results
  are inputs, any outcome at any point. What a time text *means* is in `Calendar`, but for the change to summer time.
- Titles, texts, pins, tags and priorities of items: no route edits them, and what update operations write of them nothing reads.
- `get_history` of the stream and the legacy `task_repo`, which have no callers.
- The tools of the MCP server, which fetch from outside; what it logs (its stderr is a pipe that nobody
  reads, `mcp_client.py:29`, so a server that logs much blocks).
- Conversations beyond their version; configuration, logging, middleware, migrations and scripts: no state
  that processes race on.
- The interleaving of a coroutine left behind by the soft time limit with later tasks of the same worker; as far
  as the database is concerned it acts like one more delivery.

## What could come next

The legacy path as further deliveries of `Proposals`; a failed session that is not rolled back and a coroutine left behind by
the time limit, which are among the hazards in `PROJECT.json` without a property; the change to summer time in
`Calendar`; a stream of more than one entry in the run of `Realtime`, which now only the theorem covers.
