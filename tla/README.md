# TLA+ models and proofs for the WhatsApp operations console

The repository is a messaging console: a React client, a FastAPI service with a
relational database, and a Node bridge that holds the WhatsApp sockets. This
directory models the parts whose correctness depends on the order of steps of
several actors, checks the models with TLC, and proves their properties, all but
liveness, with TLAPS. Paths below are relative to the repository
(`py/` stands for `src/whatsapp_chat_system/`, `bridge/` for `bridge/src/`).

## 1. The system

```
 web client --HTTP--> FastAPI service --- database (messages, outbox, jobs, batches, accounts, events)
                        |      ^   ^      files (settings, translation memory)
      OutboxDispatcher  |      |   |
      AutoReplyWorker   |      |   |  POST /internal/events/whatsapp
      Translation-      v      |   |
      Dispatcher,    Node bridge (sessions, receipts, event spool) --- WhatsApp
      AccountReconciler

 legacy console: the same idea without database and bridge of its own;
      router and forwarder jobs, cursor files, one settings file
```

| component | state it keeps | operations | what makes it correct |
| --- | --- | --- | --- |
| transactional outbox (`py/outbox.py`) | rows of `outbox_messages` with status, attempts, lease owner and expiry; the message row | enqueue, claim batch, deliver, finalize success or failure | one owner finalizes; the two rows agree; an accepted message settles; a message is not sent twice without cause |
| operations API (`py/api/v1/operations.py`) | none of its own | create and cancel schedules, broadcasts | a cancelled schedule is not delivered |
| bridge client (`py/bridge/client.py`) | none | send, account calls; classifies errors | retryable errors are retried |
| bridge send path (`bridge/account-session.js`, `bridge/send-receipt-store.js`) | operations in flight by key, receipts in memory and on disk | send, put receipt, load receipts | a key with a receipt is never sent again |
| account session (`bridge/account-session.js`) | state, generation, socket, QR, reconnect timer | connect, stop, logout, close, connection updates, QR expiry | an account that was turned off stays off; the last reported state is the real one |
| account manager (`bridge/account-manager.js`) | sessions, lifecycle promise per account | create, connect, stop, logout, delete | deletion and creation of an account do not overlap |
| event spool and sink (`bridge/events/`) | files in `pending`, `inflight`, `dead`; sequence counters; one flush at a time | append, claim, complete, release, dead-letter, recover | no event is lost; events of an account are processed in order |
| event receiver (`py/events/whatsapp.py`, `py/api/internal/whatsapp_events.py`) | `whatsapp_events`, messages, contacts, conversations, account status | process one event in a transaction, retry once on a unique conflict | each event takes effect once; statuses do not go back |
| account control (`py/accounts/`, `py/api/v1/accounts.py`) | account rows | create, update, connect, logout, delete; reconcile loop | a disabled or logged-out account is not connected; an enabled one comes back |
| analysis jobs (`py/ai/job_repository.py`) | job rows with lease, version, attempts | enqueue, claim, start, heartbeat, complete, fail, cancel, recover | a lease has one holder; an old holder changes nothing |
| automatic replies (`py/ai/auto_reply*.py`) | jobs and outbox rows | enqueue for an inbound message, three-phase processing, reconcile | one reply per inbound message; none after a human answered |
| translations (`py/translations_dispatcher.py`, `py/api/v1/messages.py`) | batches and translation rows | queue, process a batch, translate one message | a batch ends and covers its window; a translation is one of the text it is kept under |
| translation files (`py/translation_memory.py`, `py/translations.py`) | a memory file, a cache file | translate, backfill, correct | a correction by a human stays; a save loses nothing of its own |
| settings, users and sessions (`py/runtime.py`, `py/standalone_api.py`, `py/api/v1/{users,settings,personas,plugins}.py`) | one dict, one settings file | log in, log out, register, delete, change password, edit, save | nobody becomes or ceases to be a user by the way; a session stays backed; the file follows |
| legacy console (`py/web_api.py`, `py/config.py`, `py/router.py`, `py/forwarder.py`) | settings file, cursor and number files | the same by other means; route commands, forward transcripts, reply | no command is passed over; a number goes on naming its contact |
| relationship profiles (`py/ai/profile_repository.py`) | claims, evidence, snapshots, revision | propose, transition, rebuild | revisions serialize writers |
| web client (`web/src/`) | caches, cursors | poll, page, send | a late answer does not replace a newer one |

`PROJECT.json` lists every component with its status, and every hazard with the
line where it bites and the properties that watch it.

What is hard here: database transactions that read, decide and commit without
row locks or version checks; HTTP calls that time out while the other side goes
on; two processes that each may die between any two steps; callbacks of a socket
that is being replaced; dictionaries and whole files that several threads read,
change and put back without a lock; and one queue feeding another (jobs, outbox,
bridge, WhatsApp, events, database).

## 2. Modules

| module | models |
| --- | --- |
| `Messages` | the names shared by the dispatcher and the bridge, with their assumption |
| `Outbox` | `enqueue_outbox_message`, `OutboxDispatcher`, `cancel_schedule`, soft deletion and revival of conversations, from-me upserts |
| `MessageLifecycle` | abstract: a message is accepted once, then sent or failed for good |
| `BridgeSend` | `AccountSession.send`, `#sendNow`, `SendReceiptStore`, the death of the bridge and its restart |
| `IdempotentSend` | abstract: no delivery once a receipt is on disk; receipts name delivered messages and are final |
| `OutboxDelivery` | `Outbox` and `BridgeSend` composed through `BridgeClient.send` |
| `Events` | the occurrences reported for one account, with their assumption |
| `EventSpool` | `AccountSession.#emitEvent`, `FileSpool`, the flushes of `EventSink`, death and recovery of the bridge |
| `EventReceiver` | `receive_whatsapp_event` and `WhatsAppEventService.process` as transactions of several threads |
| `EventPipeline` | `EventSpool` and `EventReceiver` composed through `EventSink.#post` |
| `EventLog` | abstract: an event takes effect once, after all events accepted ahead of it took effect or were set aside |
| `AnalysisJobs` | the table `analysis_jobs` and the operations of `AnalysisJobRepository` |
| `AutoReply` | `enqueue_for_inbound_message`, `AutoReplyReconciler`, `AutoReplyWorker`, and the messages that answer a contact |
| `SingleReply` | abstract: a message is taken up once, then answered once or left alone |
| `Translations` | `TranslationDispatcher`, `queue_conversation_translation`, `translate_message`, and edits that events bring |
| `TranslationMemory` | `TranslationMemory`, the cache of `translations.py`, translating, backfilling and correcting in either console |
| `Accounts` | the account's row and session: `AccountService`, the account API, `AccountReconciler`, `AccountManager`, connecting and closing in `AccountSession` |
| `Console` | the settings of the standalone console: `StandaloneRuntime`, login, logout, users, `PUT /settings`, switches |
| `LegacyConsole` | the settings of the legacy console: `AppConfig`, `save_json`, the handlers of `web_api.py` that change settings, jobs that load them |
| `Consoles` | the two consoles under one `build_app` |
| `Relay` | `router.run`, `forwarder.run`, `POST /api/reply`, `send_whatsapp`, `refresh_aliases` and the files they keep |
| `MC*` | values and symmetry sets for TLC |
| `OutboxDeliveryProofs`, `EventPipelineProofs`, `AutoReplyProofs`, `TranslationsProofs`, `TranslationMemoryProofs`, `ConsoleProofs`, `RelayProofs`, `AccountsProofs` | the theorems; `OutboxDeliveryProofs` holds those of the outbox, of the bridge and of their composition |

### 2.1 Outbox

`outbox[i]` is a row of `outbox_messages` and `message[i]` the row of `messages`
it points to. Time appears as the comparisons the code makes: `due` is
`available_at <= now`, `lapsed` is `lease_expires_at <= now`; either may become
true at any moment. A dispatcher `w` walks through `phase[w]`: `idle`,
`claiming` (its transaction has read the expired leases), `working` (it holds
claimed ids in `todo[w]`), `calling` (inside `bridge.send`), `answered`,
`committing` (the finalizing transaction has read the row). A transaction that
reads and commits later is two actions, because nothing locks the row: what was
read is kept in `read[w]` and `seen[w]`, and the commit writes the columns the
ORM would (`Write` leaves a column alone when the new value is the one that was
read). A new process draws a new uuid, so a restarted dispatcher is another
element of `Worker`; `Exclusive` says that at most one runs at a time, which is
what the standalone service starts.

Data left out: the text of a message; the order of the claim query
(`available_at`, `created_at`), any batch of due rows may be claimed; the
statuses `sent`, `delivered` and `read` of a message are one value, `sent`;
`last_error` is kept only as far as it marks a cancelled schedule; the deletion
of an account with its rows. A second cancel of a dead row writes what is
already there and is not a step.

### 2.2 BridgeSend

One operation per key is in flight (`op[k]`), and every `await` of the code is a
boundary between two actions: `sending` (inside `sendMessage`), `acked` (an id
is known), `flushing` (the receipt is in the map), `emitting` (it is on disk).
`delivered[k]` is what WhatsApp has delivered for the key, which no component
knows; the properties do. `SendFails` covers an exception before and after
delivery, the latter at most `MaxUnconfirmed` times. A request whose client has
given up becomes an orphan and is still handled. The eviction of the oldest of
5000 receipts is left out: the models have fewer keys than that.

### 2.3 OutboxDelivery

`Call` joins `CallBridge` with `Request`, `Respond` joins `TakeReply` with
`Answer`, and `Classify` is the client's reading of a response: the HTTP status
decides, the `retryable` flag in the body is not read. `CallTimesOut` and
`DispatcherDies` leave the request behind.

### 2.4 EventPipeline

The spool. `#emitEvent` draws a number (`Number`) and then appends the event
(`AppendEvent`, or `RefuseConflict` when a file of the same key exists). Both
operations queue in `#serial`, which is first in, first out, so an emitter that
drew a smaller number appends first; `NextToAppend` states this order, which is
a property of the queue and not a check in the code. The directories are the
sets `pending`, `inflight` and `dead`, each rename moves an event from one to
the next, and `claim` is the event that the one running flush holds. `waiting`
holds the pending events with `available_at` in the future. `Settle` is the end
of a flush: `complete`, `deadLetter` or `release`. `SpoolCrash` may come between
any two steps; `SpoolRestart` recovers the inflight files. `Reopen` is
`EventSink.start` on a sink stopped by a deletion, which recovers again, also
under a flush that a late emission of the deleted session started. Left out:
corrupt files, `enqueue_order` (it orders events of equal sequence only), and
the window between the two writes of `release` and `deadLetter` (a file
rewritten and not renamed is recovered like one not rewritten).

The receiver. FastAPI runs each request in a thread of its own (`Slot`).
`Arrive` to `Release` follow one request: `KnownEvent` and `UnknownMessage`
answer early, `Read` is what a transaction has read when it decides, `Commit`
its end. A lookup of the event row precedes the other reads in the code; the
model reads them at one moment, and the unique index `Clash` stands guard at the
commit, as it does in the database. What a transaction read may be stale when it
commits: the update then writes the columns whose values differ from those read
(`Write`). `Conflict` is the `IntegrityError`, retried once in a new session.
`Elsewhere` is the rest of the service: the dispatcher commits the id of an
outbound message, a reader marks the conversation as read. Left out: contacts,
chats and history batches, titles and previews, the deletion of the account,
and the automatic reply that an inbound message queues. All messages are of one
conversation, the worst case for its counter.

The call between them. `Post` hands the claimed event to a free thread; `Reply`
is its answer taken by the flush, `TimesOut` an aborted post, whose thread goes
on and ends in `Unheard`. `ServiceDies` breaks the connection of a running post.
`Classify` is what `#flushOne` makes of a status: 422 and every 409 are final.
422 comes from a malformed envelope only and does not occur between these two.

### 2.5 AutoReply

`job[m]` is the row of `analysis_jobs` whose idempotency key names message `m`;
`absent` stands for no row. Unlike the outbox, the repository decides in the
`WHERE` of one `UPDATE` and looks at the row count, so each of its operations is
one action. `lapsed` and `due` compare the lease and `available_at` with the
clock, as in the outbox.

A worker `w` walks through `phase[w]`: `claimed`, `started` (its first
transaction has committed the start), then `declining` or `asking` (the model
is called outside any transaction), `rechecked` (the third transaction has read
the outbound messages), and `failing` or `rejected` after an exception. `lease[w]`
is the `JobLease` with the version of the claim and `job_version`, the version
the start returned; `_fail` uses the first, everything else the second. `Raises`
covers every exception: a `JobConflict` of a worker that lost its lease, the
database, a model that times out. `Dies` leaves the row as it is.

`answered` and `addressed` keep apart what the two queries count as a reply: the
worker compares `occurred_at`, which a message in the outbox does not have before
it is delivered, the reconciler falls back on `created_at`. What `Delivered`
stands for is the dispatcher's success, or a message written on the phone and
reported late: it counts for the messages older than it.

Left out: parent jobs, budgets, progress and heartbeat, which no code uses;
priorities, which are all equal; the limits of active (4) and queued (100) jobs, which delay a claim
or refuse an enqueue; the 72 hours of the reconciler; messages that are not
text; contents that change; several conversations, which share nothing but the
account's settings.

### 2.6 Translations

A text is a message with the number of its version: an edit brings a new one,
and a row of `message_translations` is keyed by the text (`CurrentText`). The
dispatcher is one long transaction: `TakeBatch` is `_process_batch` up to the
call of the model, `Window` the call for all texts at once, `ItemInWindow` and
`ItemAsked` one message each, `Commit` the end. What it has added to its session
is in `disp.out`, and `Written` says which columns the ORM writes of it. The
query that precedes each upsert flushes the row before, so its unique key can be
lost (`LostRace`) at the next message as well as at the commit. `Request1` to
`RequestFlush` are the three phases of `translate_message`, of which the second,
the call of the model, holds no session. `engine` is the database: on PostgreSQL
the transaction locks rows it has flushed, on SQLite it locks out every other
writer, whose request ends in an error after `busy_timeout`. Both calls are
retried (`Retries`). Left out: languages (one of a conversation), the result of
the memory (it may know any text; 2.7), an unsupported language and the listing.

### 2.7 TranslationMemory

`known[i]` is `_entries` of an instance. In the standalone process the threads
share one (`Kept`), except for the dispatcher and the reading of a conversation,
which have their own (`Lone`); in the legacy console each request makes its own; `process` says which it is. The class-wide lock
covers copying and writing: `SaveOpens` copies the dict and truncates the file,
`SaveWrites` fills it, and nothing keeps a reader (`Readable`) out meanwhile.
The cache of `translations.py` belongs to the legacy console; `put_translation`
and `bulk_put` are one step (a lock, and a file that is replaced at once), while
`_update_all_cached_translations` reads first (`ReadCache`) and puts back all it
read (`PutItem`). Left out: languages, hit counts, quality marks, the database
to which the standalone process writes instead (2.6).

### 2.8 Accounts

`row` is the account in the database and `session` its `AccountSession`; `live`
holds the sockets that are open, whether or not a session still knows them, and
`connects` the calls of `connect` between their first await and their socket.
A generation is a number that session, connects and sockets share; numbers
nobody holds are used again, as nothing but equality is asked of them. Requests
(`Request`, `Call`, `Finish`) read the row, call the bridge and change the row,
in the order of `py/api/v1/accounts.py` (`create` inserts first and takes the
row back when the call fails); a call may go unanswered (`TimesOut`) and be carried out
later (`LateCall`). `RoundLists` to `RoundConnects` are `reconcile_once`, whose
decision is taken before it acts. `Announce`, `SocketMade` and `ConnectFails`
are the rest of a connect, which does not look at its generation before its
socket is made; `Reports` are the socket's own events, which do. An expired QR
code is found by its timer (`QrExpires`), which sets the state and tells of it in
one step of `eventWork`, or by `status()` and `getQr` (`CodeExpires`), which set the
state at once and queue the telling (`queued`, `ExpiryTold`). Until then the socket's
further events wait, except for a new code whose image is already in the making:
it tells of itself first, and the row may end up `offline` while the session is
`qr_pending`.
`events` is the way through spool and receiver, first in, first out (2.4).
`Crash` forgets all sessions.

Left out: the primary account, names, the confirmation of a deletion, session
files, several accounts (they share nothing but the loop), the QR image.

### 2.9 Console, LegacyConsole, Consoles

`Console` keeps apart a dict (`dicts`), the root that says which dict is in
place (`root`) and the file. Login and logout hold `login_lock`; registration and
password change take a reference to the dict of users, compute a hash, and put
that dict back. The sessions are read, copied and put in place in two steps wherever
they change (`ListsSessions`, `PutsSessions`): by login and logout under the lock, by
deletion and password change, which come after their change of the users
(`Deletes`, `Changes`), without it; a copy that is stale by then brings back the
session of a user deleted meanwhile. `PUT /settings` copies everything (`PutCopies`) and puts the
copy in place (`PutReplaces`). `Encode` and `Replace` are the two halves of
`_save_json`. A step is what runs between two calls that take time; FastAPI
gives each of these synchronous handlers a thread.

`LegacyConsole` is the same question for `web_api.py`, whose handlers copy other
parts: each list (`sessions`, `workspaces`) is read, copied and put in place;
`chat_ops` is changed where it is; `PUT /settings` copies the outer dict and only
the nested dicts it was sent. `save_json` writes in place, so `Open` empties the
file (`Torn`) and `Write` fills it. `JobLoads` is a command that starts while the
file is empty: it saves the defaults over it.

`Consoles` puts the two under one `build_app`: `mode` is chosen once. It has no
state of its own, and lets one run check both.

Left out: expiry of sessions other than by a request that meets one, the count of
failed logins, the bootstrap password, the catalogues of plugins and personas,
the settings of the AI in the database.

### 2.10 Relay

A runner is a process of the timer or a background task of the console; nothing
keeps two apart. `table` is the table of messages, which Hermes writes, `position`
the two cursor files, `aliases` the file of numbers. `BeginRouter` and
`BeginForward` read the cursor, `NumbersOpen` and `NumbersWritten` are
`refresh_aliases`, `Words` the model asked to word a text, `SendCommand` and
`Fallback` the two ways of `send_whatsapp`, `SaveOpens` and `SaveWrites`
`save_state`. Files are written in place: `Torn` is a file that has been opened,
or that two writers have mixed (`Written`). `Abort` is an exception or a death
at any step. `BeginReply` to `EndReply` are `POST /api/reply`.

Left out: texts, contacts named by name, the ids of handled messages in the state
file (they are never above the cursor, so no later run meets them), several
users of the forwarder, listings and searches.

## 3. Runs

| run | configuration | shows |
| --- | --- | --- |
| `outbox_one` | one dispatcher at a time (two incarnations), a plain message and a schedule | types, `RoundKeepsRows`, `StatusesAgree`, refinement of `MessageLifecycle` |
| `delivery_two` | two dispatchers at once and the bridge, one crash, one unconfirmed delivery | `ReceiptInv`, `DuplicatesExplained`, `CompletedWasDelivered`, refinement of `IdempotentSend` |
| `delivery_settles` | fair dispatcher, any bridge | `AcceptedSettles` (liveness) |
| `pipeline` | two status events, a message reported twice, two threads, one fault | `StatusFollowsSequence`, `UnreadCounts`, `NothingLost`, `ForgottenIsRecorded`, refinement of `EventLog` |
| `pipeline_receipts` | an own message and its two receipts, two faults, fair | `KeptReceiptsMonotone`, `Drains` (liveness) |
| `auto_reply` | two messages, two workers, any lapse, death or answer | `CallsBounded`, `StaleChangesNothing`, `PreemptedInTime`, refinement of `SingleReply` |
| `auto_reply_ends` | one message, two workers, fair | `JobsEnd` (liveness) |
| `translations` | three messages of which one is edited and one padded, two batches, a request, a crash, either database | `BatchCovers`, `FailedByRace`, `MistranslationExplained`, `CompletedStays`, `BatchesEnd` (liveness) |
| `translation_files` | two messages, three requests of which one has an instance of its own, a crash, either console | `MemoryFollowsLastSaver`, `CorrectionStays` |
| `console` | three requests, a restart and saves that fail (one of either in the legacy console), either console | `FileIsCurrent`, `UsersChangeKnowingly`, `SessionsBacked`, `LegacyFileFollows`, `LegacyChangesKnowingly` |
| `relay` | two runners with two runs in all, three messages, two contacts of which one comes and goes | `NothingSkipped`, `ResentExplained`, `PairsForwarded`, `NumbersStay` |
| `accounts` | two requests after one another, the reconciler, one fault, fair | `OffIsOff`, `StatusFollows`, `ComesBack` (liveness) |

Bounds. Two messages are enough to see one claimed and one waiting, one
cancellable and one not, and ids mixed up between keys; a third adds nothing any
guard can tell apart. Two dispatchers give every conflict over a row or a key
between two parties; with `Exclusive` the second is the restart of the first.
`MaxAttempts = 2` shows a retry and its exhaustion; attempts beyond
`AttemptsCap` are alike to every reader. One crash of the bridge and one
unconfirmed delivery give up to three deliveries of a key, for which there are
three ids. Symmetry is used where no liveness is checked.

In the pipeline two threads are what two overlapping transactions need: the
request of the current post and one that outlived its post; a third could only
repeat one of the two. Two status events show every order of two values, the
repeated message one key with two contents, and each fault (`MaxFaults`: a
timeout, a death of either process, a failed transaction, a sink started again)
meets every step. `pipeline_receipts` allows two faults, so that an event can be
redelivered twice.

In the automatic replies two workers give every conflict over a job: an old
holder and a new one, which is what a restart or a second process produces (the
standalone service starts one worker). Two messages give an answer that counts
for one of them and not the other, and a batch of the reconciler that leaves one
out. The column `max_attempts` is 2 for the first message, which shows a retry
and its exhaustion, and 1 for the second; the service writes 6. Nothing else is
bounded: versions and calls are limited by the attempts.

In the translations the window of two messages leaves one out, whichever of the
three is the anchor; an edited, a padded and a Chinese text take the three ways
through `_process_batch`; one request beside two batches gives each order of two
writers of one row. In the files two threads share an instance and a third does
not, which is every relation between two savers; two messages give a correction
that puts back another message than its own.

In the consoles three threads are a request that holds something old, one that
changes it meanwhile, and one that was there before (a login whose session is
lost). Two users, one of them registered. Every case that `SessionsBacked` excepts is
needed in the run but one: a dict of users that is no longer in place when a
session loses its backing by it takes four threads, and is left to the theorem. In the
relay two runs overlap or follow
each other; three rows are a text, its answer and a command in any order; one
number that commands name and one that they do not.

In the accounts one request at a time meets the reconciler, a late call and what
the session does by itself; `MaxGen = 2` lets a connect or a socket be overtaken
by one other. The safety properties were also checked by hand with two requests
at once (7 557 215 states), with two faults (2 455 451 states) and with two events
on their way (3 059 149 states); the delivery with two messages and one dispatcher
(1 586 480 states); the relay with any listing of the two contacts (1 862 089 states).

All models of the database assume READ COMMITTED transactions of a server
(PostgreSQL in production; SQLite serves development,
`docs/sdd/09-performance-and-realtime.md:58`).

Fairness (`OutboxDelivery!Fairness`). The dispatcher's loop
(`py/standalone_api.py`, `outbox_loop`) runs for as long as the process does and
`requests` has a read timeout, hence weak fairness of `DispatcherStep`; systemd
starts a dead process again; time passes. Nothing is assumed of the bridge.

Fairness (`EventPipeline!Fairness`). The sink schedules a flush whenever files
are pending and after every backoff (`EventSink.#schedule`), a post ends by its
timeout at the latest, threads of the service run to their end, and a process
that died is started again: weak fairness of `ClaimNext`, of some `Post`, of
every thread's steps, of the timers and of `Restart`. Faults are bounded and
owe nothing, nor do the emitters and the rest of the service.

Fairness (`AutoReply!Fairness`). The worker's loop runs as long as its process,
and the client of the model has timeouts: weak fairness of each worker's steps
and of claims; `_recover_if_due` comes round every 30 seconds; time passes.
Deaths, contacts, operators and settings owe nothing.

Fairness (`Translations!Fairness`). `translation_loop` calls `run_once` for ever,
a call of the model ends by its timeout and its retries are bounded: weak fairness
of `Dispatch`. A batch that fails is marked and not tried again.

Fairness (`Accounts!Fairness`). The loop of the reconciler comes round again
whatever a round has met (`reconcile_forever` catches everything), and its calls do not
fail for ever: weak fairness of reading, strong fairness of `RoundCreates` and
`RoundConnects`, which a deletion in progress disables and enables again. What is
under way in the bridge and in the pipeline goes on (`GoesOn`): one weak fairness
for all of it is enough. Nothing is assumed of the console, of late calls, or of the
phone: `ComesBack` promises that the account is tried, not that WhatsApp lets it in.

Observations, met while modelling and not the subject of a run:

- `409 account_offline` carries `retryable: true` (`docs/sdd/05-optimization-backlog.md:116`),
  which `BridgeClient` does not read (`client.py:114`): a message due while the
  account is offline fails at once.
- The from-me upsert of a message can be stored before the dispatcher commits its
  id (`outbox.py:224`); the unique index then refuses every commit and the row is
  claimed again after every lease (`docs/sdd/02-system-architecture.md:200`
  has the success saved).
- A receipt that arrives before the dispatcher has committed the id of its message
  gets `409 message_not_found` with `retryable: true`
  (`docs/sdd/04-api-and-events.md:480`), and the sink sets it aside for good, as it
  does with every 409 (`event-sink.js:120`).
- `_fail` passes the version of the claim (`auto_reply_worker.py:248`), which the
  start has replaced, so no failure after the start is ever recorded: neither the
  error nor the backoff nor the end of the job
  (`docs/sdd/05-optimization-backlog.md:138`). The job stays `running` until its
  lease expires and is then due at once.
- The finalizing transaction of the dispatcher tests the owner on the row it
  read; with two dispatcher processes its commit can overwrite a row the other
  has claimed meanwhile. `outbox_one` shows that one at a time cannot.
- A schedule cancelled while its send is in flight is delivered all the same.
- A delivered receipt that was set aside while its first request was
  still running can commit after the read receipt; `KeptReceiptsMonotone` shows
  that this is the only way a message steps back.
- Every upsert of one message has the event id `message:<WhatsApp id>`, so a
  second occurrence with other contents (an edit, a history copy) is refused by
  the spool while the first is stored, or answered 409 by the service and set
  aside; `UnreadCounts` relies on it.
- A history batch does change the content of a message it repeats; the input hash
  of its job then differs, `enqueue` raises `JobConflict`, and the reconciler's
  batch is rolled back for as long as the message is unanswered and recent.
- The reconciler's batch is the oldest unanswered messages, those whose jobs have
  ended included: twenty of them hide every later message from it.
- A job cancelled because the account went offline keeps its key and is never
  created again, although `docs/plans/2026-07-14-engineering-phase2-auto-reply.md:36`
  says "账号 offline 时不丢 Job，恢复后继续发送".
- An operator's message still in the outbox has no `occurred_at` and does not stop
  the worker; an automatic reply, once delivered, cancels the jobs of all messages
  written before it, not only of the one it answers.
- At 100 queued jobs `enqueue` raises inside the transaction of the event: the
  bridge gets a 500, and the head of its spool waits until the queue is shorter.
- `translate_message` translates the text its client shows and writes the result
  under the text the message has by then: after an edit meanwhile the new text has
  the translation of the old (`MistranslationExplained` shows that this is the only way).
- The dispatcher calls the model inside its transaction, which on SQLite locks out
  every writer for that long; the endpoint was rewritten to avoid just that
  (PERF-006, `py/api/v1/messages.py:140`).
- A padded text is looked up under the hash of its stripped form and saved under
  the other, so every batch translates it anew.
- A memory saved by one instance loses what the others learnt since it was loaded,
  and one that starts while the file is being written starts empty.
- A correction puts the whole cache it read back: a correction made meanwhile, or a
  newer translation, comes undone.
- `PUT /settings`, registration and password change put back users, passwords and
  sessions of the moment at which they began: a user deleted meanwhile returns.
- Login, logout, deletion and password change put back the sessions they copied
  (`py/standalone_api.py:544-561`, `577-579`, `py/api/v1/users.py:139-143`, `182-187`),
  and the last two take no lock: the session of a user deleted in between returns,
  and one issued in between is lost.
- In the legacy console a file that cannot be read counts as absent: a job that
  starts during a save replaces the settings, the password among them, by the
  defaults.
- An account can be connected from the console although it is disabled, and a
  connect by a round that had read before its disabling goes through; both sockets
  stay. A creation whose call went unanswered can leave a
  session behind without a row.
- The row of a disabled account cannot be deleted after a restart of the bridge:
  the bridge answers 404, and the reconciler does not create a session for it.
- An expired QR code leaves its socket open; the next connect puts another in its
  place and never ends the first.
- A QR code found expired by `status()` or `getQr` is told of after whatever was in
  hand (`bridge/account-session.js:517-528`): when that was a new code, the row says
  `offline` and the session is `qr_pending`.
- A forward that failed is not repeated: the cursor passes the pair all the same
  (`py/forwarder.py:96-101`). `PairsForwarded` counts it as tried.
- A stop during a connect leaves the row `connecting`: the connect tells of itself
  after the stop did.
- `logout` writes the columns that differ from the row it read before its call, so
  an enabling meanwhile stays or goes depending on what the row said then.
- `/api/reply` answers 502 for a message that the bridge may have delivered.

Hazards that no property covers: marking a conversation as read writes 0 over a
count that was raised meanwhile (`py/api/v1/conversations.py:434`), and the
reconciler of the automatic replies starves behind ended jobs
(`py/ai/auto_reply_reconciler.py:51`). `UnreadCounts` is exact only until the first
reading, and `JobsEnd` speaks of messages that have a job. Known besides, and not modelled: the
receipt store drops its oldest keys (`bridge/send-receipt-store.js:58`), `attempts`
is counted up by every claim but compared only on a failure (`py/outbox.py:138`),
`ProfileRepository` compares a revision in one statement and writes claims in others
(`py/ai/profile_repository.py:49`), and the client merges answers that come out of
order (`web/src/chatSync.js`).

## 4. Proofs

Every property of section 3 that is not about liveness is proved, for every value
of the constants, of the specification that the runs check (of its part without
fairness). Listed with the property that a run checks on a small instance:

| theorem | statement |
| --- | --- |
| `OutboxDeliveryProofs!OutboxTypes` | `OutboxTypeOK`, and where a dispatcher has rows open |
| `OutboxDeliveryProofs!OutboxSole`, `OutboxAgrees` | `RoundKeepsRows` and `StatusesAgree` of the outbox, whatever the bridge answers |
| `OutboxDeliveryProofs!OutboxLifecycle` | with one dispatcher at a time, `Outbox` implements `MessageLifecycle` (`LifecycleKept`) |
| `OutboxDeliveryProofs!BridgeCorrect`, `BridgeDuplicates` | types and `ReceiptInv`; `DuplicatesExplained` of the bridge alone |
| `OutboxDeliveryProofs!BridgeKeepsPromise` | `BridgeSend` implements `IdempotentSend` |
| `OutboxDeliveryProofs!DeliveryKeepsPromise`, `DeliveryDuplicates`, `DeliveryCompleted` | the composition: `PromiseKept`, `DuplicatesExplained`, `CompletedWasDelivered` |
| `OutboxDeliveryProofs!DeliverySole`, `DeliveryLifecycle` | the composition keeps what the outbox promises: `RoundKeepsRows`, `StatusesAgree`, `LifecycleKept` |
| `EventPipelineProofs!PipelineCorrect`, `PipelineLosesNothing` | types, `ForgottenIsRecorded`, `NothingLost` |
| `EventPipelineProofs!PipelineInOrder` | `EventPipeline` implements `EventLog` (`AppliedInOrder`) |
| `EventPipelineProofs!StatusCorrect` | `StatusFollowsSequence` |
| `EventPipelineProofs!UnreadCorrect` | `UnreadCounts` |
| `EventPipelineProofs!ReceiptsMonotone` | `KeptReceiptsMonotone` |
| `AutoReplyProofs!ReplyCorrect` | types and `CallsBounded` |
| `AutoReplyProofs!StaleIsHarmless`, `PreemptionInTime` | `StaleChangesNothing`, `PreemptedInTime` |
| `AutoReplyProofs!OneReply` | `AutoReply` implements `SingleReply` (`OneReplyEach`) |
| `TranslationsProofs!TransInvariant` | the invariant `TransInv`, types included |
| `TranslationsProofs!BatchesCover`, `FailuresByRace` | `BatchCovers`, `FailedByRace` |
| `TranslationsProofs!MistranslationsExplained`, `CompletedKept` | `MistranslationExplained`, `CompletedStays` |
| `TranslationsProofs!OldestFirst` | `TransTypeOK`: the dispatcher works on the oldest pending batch |
| `TranslationMemoryProofs!MemoryTypes`, `FileFollowsLastSaver`, `CorrectionsStay` | types, `MemoryFollowsLastSaver`, `CorrectionStays` |
| `ConsoleProofs!ConsoleTypesHold`, `FileCurrent`, `UsersKnown`, `Backing` | types, `FileIsCurrent`, `UsersChangeKnowingly`, `SessionsBacked` |
| `ConsoleProofs!LegacyTypesHold`, `LegacyFile`, `LegacyKnown` | types, `LegacyFileFollows`, `LegacyChangesKnowingly` |
| `RelayProofs!RelayTyped`, `NumbersKept` | types, `NumbersStay` |
| `RelayProofs!CommandsHandled`, `PairsSentOn`, `ResendsExplained` | `NothingSkipped`, `PairsForwarded`, `ResentExplained` |
| `AccountsProofs!AccInvariant`, `AccountsTyped` | the invariant `AccInv`; `AccountsTypeOK` |
| `AccountsProofs!OffStaysOff`, `StatusTold` | `OffIsOff`, `StatusFollows` |

Assumptions. Each module names what it assumes of its constants, and TLC evaluates
it on every run that extends the module. They are bounds that are natural numbers,
names that differ (`NoEvent`, `NoSlot`, and `None` and `Torn`, which stand for
nothing and for a file being written, are no user, text, dict or number), and one
fact of the code: status events have keys of their own, because `#emitEvent` draws a
uuid for them (`ReceiverAssumption`). `OutboxLifecycle` and `DeliveryLifecycle` are
stated under `Exclusive`, a definition over constants that the standalone service
satisfies.

How the proofs go. For each module: lemmas that say what each action does to each
variable, then one lemma for each part of the invariant that says that every step
keeps it, then the theorems. The invariants:

Outbox. `RoundKeepsRows` and `StatusesAgree` are not inductive:
leases lapse while a round is running, and a commit writes what was read
earlier. `SoleInv` adds that only one dispatcher is live, that the rows it holds
of uncancellable messages are claimed by it, that what an open transaction has
read is still what the row says, and that an unsent message has no id. The two
places where it could break are `ClaimBatch`, which writes the rows it read as
expired, and `CommitSent` and `CommitFailure`, which write over the row; in both
the row belongs to the live dispatcher, so nobody else has changed it.

Bridge. `ReceiptInv` is inductive with the types: a connected
process, or one with an operation in flight, has loaded every receipt of the
file, and an operation that has not yet put its receipt has none anywhere.
Delivery therefore happens only for keys without a receipt on disk, which is
what `IdempotentSend` asks. `PaidFor` counts for `DuplicatesExplained`: as long as
a key has no receipt and no acknowledged delivery, each of its deliveries is paid
for by a death or an unconfirmed send; the one delivery that is not paid for leaves
an acknowledgement, then a receipt.

Composition. Each step of `OutboxDelivery` is a step of `BridgeSend` and one of
`Outbox` or leaves it alone, the answers being among those that `Outbox` allows the
bridge, so the theorems of both carry over (`DeliveryIsBridge`, `DeliveryIsOutbox`).
For `CompletedWasDelivered`, `CallPlace` says that a call is in one place at a time
and about the message its dispatcher has open, and `AnswerTrue` that an id on its way
to the database was delivered for that message.

Pipeline. `OrderInv` says that appends come in the order of numbers,
so what is ahead of an event never grows after its append; `ClaimInv` that an
event is claimed only when everything ahead of it is settled. `Posted` carries
this on to the threads: settled stays settled, so a request that outlived its
post by any time still has nothing unsettled ahead of it (`ThreadInv`). A success
answer comes only from a recorded event, and the answer a flush takes is that of
its own claim (`ConnInv`), hence `ForgottenIsRecorded`, and with it `ClaimInv` of
the next claim. Every step is then one of `EventLog`: append is `Accept`, commit
`Apply`, dead-lettering `Drop`. For the status, `StatusInv` adds that no status
event is ever answered with a 409 and so none is dead; two status events that
are posted and unrecorded are therefore the same event, and what its transaction
read of the account is still true when it commits. The same lemma (`OneOfTwo`: of two
posted events that are not recorded, one was set aside) carries the counter: what is
set aside is a receipt or a copy of what is recorded (`DeadExplained`), so two
transactions that could still count are about one event, and what either has read of
the counter holds (`UnreadInv`). For receipts it gives `RowInv`: a transaction that
can still commit a kept receipt has read the row as it is.

Automatic replies. `LeaseInv` says that a lease is never
ahead of its row; as every write raises the version, a worker whose versions
differ from the row's can never hold it again, and every write of its own fails
(`StaleIsHarmless`). `CallInv` counts, with the calls of the model, the workers
that have claimed the message and not asked yet: together they never exceed the
attempts, whatever workers die or lose the job in between. `WindowInv` says that
a worker past its recheck with an answered message is in the history variable
`late`. For the refinement every step but `Commit` is an operation on the table
(`StepsQuiet`) that takes up some messages or leaves some (`OpensSome`,
`LeavesSome`), and `Commit` ends an open job with the reply in one step.

Translations. `TransInv` says what an open transaction knows of rows that others
write: a row it found is still there, and on SQLite, or once it has flushed an
insert, one it did not find is still missing (`OutOK`); every text of the window
is translated, in hand or still to do (`Covered`), so the batch that completes
covers it; a batch gives up only over a row that has appeared meanwhile (`Raced`),
and rows never disappear. For requests `ReqOK` keeps the same two facts and that a
text translated before the request began is an earlier one of the message.
`OldestFirst` rests on `QueueInv`: batches are numbered in the order of their queueing,
so a new one is never the oldest.

Translation memory. `WritesNewest` says that what is being written is the dict of the
instance, or that another of its threads has changed the dict and is about to save;
with one writer at a time this gives `MemoryFollowsLastSaver`. `SawKept` says that
what a thread has read as a correction is one in what it puts back.

Console. For the file, `NewestSave`: the newest save is to come, or has come and
what is to come besides is late, or the file has been overtaken by a late save and
all that is to come is late. For users, `TouchedKnows`: where what a request is going to
put back differs from what there is now, the user is in its history variable
`touched`. It needs `CopyIsOwn`: a dict is nobody's before its copy is put in place.
Sessions need `AllIssued`, in memory, in the file and in every list, copy and save under
way: a session belongs to a login that has verified its user. A session that has lost
its record counts as backed while a request is about to withdraw it (`Doomed`): whoever
deletes or changes the user has it on its list, and another step can take it off that
list only by putting a stale one in place. `NewestWrite` and `ChangedKnows` are
the same for the legacy console, where a write can also clash, fail or be a job's.

Relay. `HandledOK`: a router that goes on from a position has handled every command
behind it, so the position it saves skips none. For `ResentExplained`, `SentInv`: what was sent is behind
the saved position or behind a router that is still going on, or it is excused
(`SentBehind`); what a router has before it was not sent (`UnsentOK`); and two
routers share no command (`ApartOK`), each as far as a run that began could know.
`PairsOK`: a pair that a forwarder has passed was sent or cut, and a message that it
has just passed waits for its answer.

Accounts. `StaysQuiet` begins at the stop and not at the row: from the moment at which
the bridge has stopped a session for a request that is going to change the row, it has
no socket, no timer and no connect of its own, unless `revived`; the change of the row
then finds it quiet. `Follows`: the status last told, in the row or on its way, is the
session's, or a connect of its own (`ToBeTold`) or its expired code (`queued`) has still
to be told of; a connect
of its own means that the session is `connecting` without a code (`OwnConnect`), so
that an expired code or a report of the socket can only be newer. When the telling of an
expired code comes after something newer, `astray` says so. `Untouched` (nothing
happens before the first request) is needed because a creation writes the row without
a word to the bridge, which is harmless only while there is no session.

Only model-checked: `AcceptedSettles`, `Drains`, `JobsEnd`, `BatchesEnd` and
`ComesBack`. They are liveness properties under fairness, which is outside the
prover's reach, as is ENABLED. Nothing else of section 3 is without a theorem.

The types. `OutboxTypeOK` is checked by a run as well as proved; the others are proved:
those of `BridgeSend`, `EventPipeline` and `AutoReply` in their invariants,
`TransTypeOK`, `MemoryTypeOK`, `ConsoleTypeOK`, `LegacyTypeOK`, `RelayTypeOK` and
`AccountsTypeOK` as theorems of their own. The invariants `TransInv`, `AccInv`,
`MemoryInv`, `ConsoleInv`, `LegacyInv` and those of `Relay` were also evaluated by TLC in
every state of the instances of section 3, the types of `TransInv` excepted, whose sets
TLC cannot enumerate.

## 5. Plan

1. Outbox, bridge send path and their composition (modelled, checked, proved).
2. Event spool, receiver and their composition (modelled, checked, proved).
3. Analysis jobs and automatic replies (modelled, checked, proved).
4. Translations, their files, accounts, the consoles, the relay (modelled, checked,
   proved but for liveness).
5. Next: abstract specifications for the components that have none yet, `Translations`
   (a text is translated, or not, once for each batch) and `Accounts` (what a console
   is promised of an account), and the refinements that follow from `TransInv` and `AccInv`.

Not modelled, and why. Relationship profiles: nothing constructs
`ProfileRepository` (`py/ai/__init__.py` only exports it), so there is no caller
to take inputs and interleavings from. The web client: pure functions that merge
lists, called by components in an order that the browser decides. Event
normalization, prompts, model calls and checks of wording: functions without state.
The API of AI settings, the catalogues of plugins and personas, listings and
searches: queries, or one write in one transaction. Migrations, deployment and the
offline review of translations (`py/review_translations.py`) run alone. History and
contact batches store what the library reports, chat batches also overwrite unread
counts, which is why `UnreadCounts` is about messages alone.
