# A verification project for the server control panel

The repository is a self-hosted control panel for virtual servers: one Go
process (`cmd/controlpanel`, `internal/...`) that serves a REST API and a web
client, keeps everything in one SQL database (SQLite or MySQL) and talks to the
APIs of hosting providers.  This directory holds TLA+ models of it, their TLC
instances and proofs checked by TLAPS.  Paths of Go files below are relative to
`src/internal/`, those of TypeScript files to `src/web/src/`.

Contents: [inventory](#inventory) · [modules](#modules) ·
[correspondence](#correspondence-with-the-code) · [runs](#runs) ·
[fairness](#fairness) · [findings](#findings) · [proofs](#proofs) ·
[limits](#not-modelled) · [plan](#plan)

## Inventory

| part | state it keeps | operations | interacts with | hard behaviour | what makes it correct |
|---|---|---|---|---|---|
| **Job queue and worker** (`jobs/`) | table `jobs`: status, attempts, `available_at`, lease owner and expiry; the loop of each worker | `Enqueue*`, `LeaseNext`, `Complete`, `Retry`, `Fail`; `Worker.Run` | called by connections and operations; calls their handlers; its end ends the application | leases that expire under a running handler (nothing renews them), crash between any two statements, several processes with one default owner name, retries with backoff | a settlement never touches another lease's row; finished rows are final; a queued row has attempts left; every job finishes |
| **Power operations** (`operations/`) | table `operations` with two unique constraints (idempotency key; server and active marker) | `Service.Request`, `CreateQueued`, `Transition`, `Executor.Execute` | enqueues jobs; runs in the worker; reads and writes the inventory; calls a provider; appends to the audit log; publishes events | request, worker, second worker and compensation race on one row; the client's context is cancelled between two statements; provider answers are lost; verification deadline | one unfinished operation per server; one operation per key; 202 only for what is queued and audited; success only after the inventory shows it; only a failing statement leaves an operation unfinished without a job |
| **Inventory** (`inventory/`) | table `servers` (last seen state, `hidden_at`) | `SyncConnection`, `ApplyCompleteSync`, `UpdateRemote`, `FindByID` | runs in the worker; read by operations and console | the connection changes or disappears while servers are listed; a list that is late overwrites a newer state; page limits | a sync is applied whole or not at all; only the connection's servers are hidden |
| **Connections** (`connections/`) | table `provider_connections`: settings, enabled, health, soft deletion | create, update, delete, test, request a sync | enqueues sync jobs, encrypts with `secrets/` | an edit overwrites a concurrent edit; health of an old test overwrites a new state; stored but not enqueued | an enabled connection has a sync behind it; a deleted one never comes back |
| **Console sessions** (`console/`) | table `console_sessions`; in-memory targets by session | create, consume a ticket, proxy, close | provider, inventory, audit log | ticket used twice or after expiry; database and memory disagree after a restart; two pump goroutines and one close | a ticket opens at most one proxy; both pumps end; a session is closed once |
| **Backup and restore** (`backup/`) | files in a directory, table `backups`; replaces every other table | create, validate, restore, delete | reads activity of jobs and operations; rewrites their tables | active work is looked for before the mutex and the safety backup; audit entry fails after the restore | a restore replaces all tables or none, with a recorded safety copy before it, and loses no more than what came between the two |
| **Event broker** (`events/`) | map of client channels, event counter | publish, subscribe, unsubscribe | operations publish, SSE handlers read | slow subscriber dropped while its context ends | each channel closed once; a subscriber sees a prefix in order |
| **Authentication** (`auth/`) | tables `users`, `sessions` | set-up, login, authenticate (touch), logout, change the password | guards every handler | login against a password change; concurrent touches | one user; no session outlives its absolute expiry or the password change that revoked it |
| **Audit log** (`audit/`) | append-only table | `Append`, `List` | called by operations, console, backup | the entry is a statement of its own | what was done is recorded |
| **Database** (`database/`) | schema and versions | open, migrate | everything | migration interrupted; times kept as text on SQLite | ordering of stored times is ordering of times |
| **Providers** (`providers/`) | none that lasts | validate, list, get, start, stop, reboot, console | network | pagination, rate limits, answers of any kind | state maps are total |
| **Web client: signing in** (`auth/`, `api/client.ts`, `app/App.tsx`) | per tab: `AuthState`, `csrfToken`, `pending`; cookies shared by all tabs | bootstrap, initialize, login, logout, any call | session and CSRF middleware | two tabs with one cookie jar; late answers; a 401 for an old session; a session that ends on its own | token only while signed in; the login page appears only by a logout whose session is gone; one set-up at most; nobody waits for ever |
| **Web client: servers and operations** (`servers/`, `operations/`, `events/`, `app/AppShell.tsx`) | path and page, list, selected server, confirmation, submitting | navigate, open and close a detail, choose and confirm an action, refresh on events | inventory list, operations service, event stream | lists overtake each other; events are lost; the selected server vanishes or changes behind its dialog | the page shows the present, and after a submission its own change; the buttons come back |
| **Web client: connections** (`connections/`) | cards, form, submitting | create, test, sync, delete, poll every two seconds | connections service, worker | polls overtake the answers of actions; a form closed or sent again | cards converge to the rows; one row per submission |
| **Web client: consoles** (`console/`) | session of the dialog, the handover to a window | open in the page or in a window | console service, WebSocket gateway | the window is ready before or after the session; timers; effects that run twice | a session reaches its window; a press of a button ends; a proxied console is closed in the database |
| **Web client: backups** (`backups/`) | list, dialog, submitting, messages | create, validate, restore, download | backup service | the dialog closed during a submission; answers lost; a restart | the buttons follow the call and the refresh behind them; a submission ends |
| Credentials, configuration, network policy, router | none relevant | | | | |

The components of the server interact in three ways: by direct calls inside one request or
one job; through rows of the shared database, which is the only thing two
requests, the worker and a restarted process have in common; and through the
in-memory broker and console targets, which a restart empties.  The browser adds
a fourth: calls that are sent, worked on and answered in separate steps, in any
order, and an event stream.

`PROJECT.json` lists every component with its status, and under `hazards` what
in this code is hard to test, each at its line.

## Modules

| module | contents |
|---|---|
| `JobQueue` | the `jobs` table and the worker loop; the handler is left open |
| `OperationLifecycle` | abstract: what is promised of a power operation |
| `PowerOperations` | `JobQueue` composed with the request handler, the `operations` table, the executor, inventory, audit log and provider |
| `WebSession` | tabs of one browser, `apiRequest`, the two forms, and the session handling behind them |
| `WebServers` | `AppShell`, `ServersPage`, `OperationsPage`, the events hook, and the broker and stream behind it |
| `WebConnections` | `ConnectionsPage` and its form, the connections service, the synchronisation jobs |
| `WebConsole` | console buttons, the handover to a window, tickets, targets and the gateway |
| `WebBackups` | `BackupsPage` and the backup service over the tables that it replaces |
| `MC...` | the TLC instances: owner names, views, symmetry |
| `JobQueueProofs`, `PowerOperationsProofs`, `SingleProcessProofs`, `WebSessionProofs`, `WebServersProofs`, `WebConnectionsProofs`, `WebConsoleProofs`, `WebBackupsProofs` | theorems and proofs |

`PowerOperations` EXTENDS `JobQueue`: the job of operation *o* is row *o*, the
worker's handler is `Execute`.  It INSTANCEs `OperationLifecycle` with the
status and server columns and the audit log as refinement mapping.  Each `Web...` module composes a
page of the browser with the part of the server that answers it, down to the
statements whose order matters to both; they share no variables, since the pages
share none beyond the session.

## Correspondence with the code

Every SQL statement or transaction, every provider call and every reading of
the clock that a later statement uses is one step; between two of them anything
else may happen.  Local computation belongs to the step it follows.  Where
a handler only reads before its first write, reading and writing are one step, as
long as no property turns on what may come between: the user and the session of a
login, the session that the middleware reads and whose last use it notes, row and file
of a backup, and what `CreateEmbedded` looks up before it inserts a session.
`PROJECT.json` maps every definition to its lines.

**JobQueue.** A row has the columns the statements compare: status, attempts,
availability, creation time, lease owner and expiry.  `StartPoll` is the clock
reading of `RunOnce`, `LeaseJob`/`LeaseNothing` the leasing transaction (its
`ORDER BY` included; ties are left open), `HandlerReturns` the end of the
handler with one of three kinds of result, `Complete`/`Fail`/`Retry` the
settling statement with its `WHERE id, status, lease_owner`, and `LeaseLost`
the case of no matching row, after which `Run` returns and the application
exits (`app/app.go:75`).  `Crash` stands for every other way the worker ends
between two statements: the process dies, is told to stop (the cancelled
context makes later statements fail), or a statement of the worker fails.
`Restart` is the supervisor.  `RetryDelay` is the shift of one second by at most eight
places, capped.  Times are ticks; the clock is shared and only moves forward.

**PowerOperations.** A request goes through `Lookup`, `Check`, `CreateQueued`,
`EnqueueJob`, `AppendQueued`, in the order of `Service.Request`;
`StatementError` is the error path of whichever statement is next and leads to
`Compensate` after the second and third write.  `Depart` cancels the request's
context, after which each remaining statement can only fail, the compensating
`Transition` included.  `FindOperation` ... `AppendOutcome` are the statements
and calls of `Execute`, `succeed` and `finishError`; `GetServer` may report any
state at any time, a write may be refused, carried out, or carried out with its
answer lost.  `ExecutorFault` is a failing statement of the executor, which
returns the error as it is everywhere but in the inventory lookup.  A process
that goes down loses its execution and its requests (`Volatile`).
`SyncInventory` is the effect of a synchronisation on one server, as an
independent step.  `issued` is a history variable: it counts provider writes
and nothing reads it.

Abstractions: identifiers and names are model values; error texts, payloads,
events for browsers and the read-only handlers are left out; the capability of
a server is left open; errors of `GetServer` and the writes are the two kinds
the code distinguishes, retryable and permanent, and a connection that is
disabled or deleted during an execution shows as a permanent one.  `cancelled`
is a status of the transition table that no statement of the program writes.
Transactions are atomic steps; the one place where an isolation level shows is
`CreateQueued`, where the loser of a race may not see the row that beat it.  That
`SKIP LOCKED` passes over a row whose transaction is rolled back afterwards is
left out: it only delays that row.  A graceful stop cancels the worker while requests may still be served for a
moment; as they share only tables with it, this is the same as serving them
first.

**The Web modules.** A call of the browser is sent with what it carries, is
worked on by the server in the steps of its handler, and is settled by the code
after the `await`; it may be lost before or after the server worked on it.  What
JavaScript runs between two awaits is one step.  What React does is modelled
where it shows: a state setter takes effect at once (no code between two awaits
reads what it has set), an unmounted page ignores its answers, a disabled button
cannot be pressed and a backdrop keeps nothing from the keyboard.

*WebSession.* The server sets and clears its two cookies together, so the jar is
one number.  `Request` reads jar and token when the call is sent; `Serve` is the
handler with its middleware; `Arrive` the browser applying `Set-Cookie`, a step
before `Settle`, the code after the await, since another tab may come between.
Two handlers take two steps, with the phase "admitted" between: a logout passes
`requireSession` and `requireCSRF` (`AdmitLogout`) and then deletes its session
without asking whether it was there (`AnswerLogout`), so that two overlapping
logouts of one session are both answered 204; a set-up inserts the user
(`InsertUser`) and then logs in or fails to (`AnswerInitialize`), and another tab
may log in between.  `TokenAfter` is the token forgotten on any 401
(`api/client.ts:52`), `Adopt` the cookie read again after the await.  A session
that cannot be read counts as an invalid one (`auth/http.go:178`), so a refusal is
always possible.  `Revoke` is every end of a session that is not a logout of the
tabs, and `InitializedElsewhere` every set-up that is not one of theirs; both also
stand for what the server still does for a call that the browser gave up (`Lose`).

*WebServers.* `world` is the sequence of what the lists would answer after each
change, so that a list is an index.  `Announced` is a write that is published
afterwards (executor, accepted request), `Silent` one that is not: a
synchronisation, or a request that marks its own operation failed
(`operations/service.go:113` and 121).  `lists` keeps the calls in the order they
were sent; `overtaken`, `missed`, `own` and `known` are history variables for the
properties: the last two are the change that the page's last submission made, and
the same once the list asked for after it has arrived.  `Mount` is the change of
the page: new state, closed event source, ignored answers.  Nothing guards what lies
behind a backdrop: table, navigation and buttons can be used while a detail or a
confirmation is shown, as the keyboard can, and `OpenDetail` then leaves the
confirmation set, which goes on to ask about the server opened last.

*WebConnections.* A row keeps what cards and jobs look at.  `Insert` and
`EnqueueFirstSync` are the two statements of `Service.Create`, `Validate` and
`StoreHealth` those of `Test`; an edit is `Update` (the row is found), `StoreEdit`
(the `UPDATE` with its `deleted_at` condition) and `EnqueueSync`, a requested
synchronisation `RequestSync` and `EnqueueSync`, and `EnqueueSync` may fail after
the edit was stored.  Both are asked for by a client of the API; the variable
`request` holds the one under way.  `StartSync` reads the connection, and
`ApplyCompleteSync` or `RecordFailure` end the job: the first is a transaction
that is rolled back when the connection is gone.  A list is read by the server
when `Poll` puts it into `polls` and arrives later, in any order, or fails, as
often as it likes; `faults` counts only creations that fail after their insert or
whose answer is lost.  `submitting` belongs to a form and goes on living after the
form was closed, as the promise of `submit` does.

*WebConsole.* An attempt is one press of a button and the session created for
it, or the window that the browser blocked (`Open`).  `ready` is the promise of
`openEmbeddedConsoleWindow`, `HandsOver` is `Promise.all`, `PopupTimesOut` the timer,
whose rejection closes the window while the session may still be created.  `socket` is the handler of each presentation
of the ticket, from `ConsumeTicket` over `Take` and `Accept` to `EndProxy`; what
runs under the context of the request fails when the client has left; the last
statement, which has a context of its own, may fail as well, and its error is
dropped (`websocket.go:80`): the history variable `unsaved` remembers that the row
stays active for ever.  `Crash` empties targets and handlers and keeps rows.

*WebBackups.* A change is anything in the replaced tables; the browser's session
is one of them, since `sessions` is replaced too.  `log` is `audit_logs`, a
replaced table as well, as far as the service itself writes it: every archive
carries it, and `AppendAudit` adds an entry after the archive of its call was
exported.  `logged` remembers every entry ever written, and `exported` how many
changes a safety archive holds, so that `raced` collects those that came between
it and the transaction.  `Fail` is the failure of whichever statement, file or
passphrase is next, with the `defer` that releases the mutex; `TablesKept` is the
transaction rolled back.  `Catch` is the page being told of a failure;
`LoseAnswer` is its `fetch` failing while the handler goes on, or after it has
ended, so that the page may say "not replaced" before the tables are replaced.
A failing statement is assumed to have no effect, and the directory to keep a
file once it was renamed into place.

## Runs

| run | question | instance |
|---|---|---|
| `JobQueue_two` | is settling fenced by the lease, are finished rows final? | 2 workers with names of their own, 2 jobs, leases of 1 tick, 2 attempts, 1 crash |
| `JobQueue_one` | does every job finish, and how many attempts does it take? | 1 worker, 2 jobs, any results, 1 crash, fair |
| `PowerOperations_requests` | do two racing requests keep key and server constraints, and do table and audit log implement the lifecycle? | 2 clients, 2 keys, 2 operations, 1 server, a departing client |
| `PowerOperations_crashes` | is an operation stranded by nothing but a failing statement, is success recorded first, for which operations is the provider written to? | 1 worker, 2 operations one after the other, 1 crash and 1 failing statement anywhere |
| `PowerOperations_finishes` | does every operation with a job reach a final status? | 1 operation (start or reboot), 1 crash, a departing client, fair |
| `PowerOperations_two_processes` | when leases do not fence, is 202 true, and how often is the provider written to? | 2 processes with the default owner name, 1 failing statement, stop and reboot |
| `PowerOperations_queued` | is a queued operation waiting for a worker? **no**, see [findings](#findings) | 1 client that departs, 1 operation |
| `WebSession_tabs` | do view, token, cookies and sessions stay in step in every order of answers? | 2 tabs, 2 calls in flight in all, 2 logins, 1 reload, calls lost and sessions ended at any time, fair |
| `WebServers_page` | when is a page stale, does it show its own change, do its buttons come back? | 2 servers, buffer of 1, 2 changes, 1 navigation, 1 lost connection, fair |
| `WebConnections_page` | do cards converge, is a deleted row left alone, when does a form create two rows? | 2 connections, 1 form, 1 list in flight, 2 clicks (edits and synchronisations among them), 1 fault of a creation, polls that fail at any time, fair |
| `WebConsole_attempts` | do tickets open one console, are proxied ones closed, does a finished handover reach its window? | 1 attempt in the page, 1 in a window, 2 presentations each, 1 restart, the closing statement may fail, fair |
| `WebBackups_restore` | what is lost by restoring, is it replaced as a whole, does a submission end? | 2 submissions, 2 changes, 1 restart, failures and lost answers anywhere, fair; deadlock is checked |

Why the bounds are enough for these questions: two of a thing that races (jobs,
workers, requests, operations) is what each property compares; two attempts
distinguish the last one from the others; a lease of one tick can expire between any two
steps, since a tick may come between them; one crash can fall between any two
steps, and the restart that follows meets every intermediate state of the tables.
`MaxClaims`, `MaxCrashes`, `MaxFaults`, `MaxDepartures` bound how often a thing
happens, never when.  `Horizon` bounds only how long the clock runs with no
deadline ahead: it always runs on while a lease, a retry delay or a
verification window lies ahead, so that no property holds because time stopped.
Retry delays are 0 and the verification window is 0 ticks in the operation instances (a job
may be retried at once; the deadline passes one tick later), which leaves every
order of events and fewer ticks between them.

In the Web instances two of a thing that can overtake another (tabs, calls in
flight, changes, rows, presentations, submissions) and one of each fault are
explored, at every point.  `MaxCalls`, `MaxLogins`, `MaxReloads`, `MaxChanges`, `MaxMoves`,
`MaxDrops`, `MaxRows`, `MaxForms`, `MaxPolls`, `MaxClicks`, `MaxFaults` and
`MaxCrashes` bound how often a thing happens.  `WebConnections` was also explored
with two forms and with two lists in flight, which take longer than a run should.
`Buffer = 1` is the smallest buffer that can be full; the program's is larger,
which only makes a loss rarer.  Three bounds sit in guards of user actions and are
commented there: submissions of `WebBackups` are used in order, its dialog is
opened only while a submission is left, and a deletion or a test of
`WebConnections` is asked for one at a time.  No view or symmetry is used.

`StateView` identifies states that differ by a shift of the clock: every guard
compares one time with another, and `Horizon` is 0 wherever the view is used.  It
drops columns of finished rows, which no statement reads, and `issued`; the
action property about it is evaluated on every transition.  `WritesView` keeps `issued`
and the attempts of every row, which `WritesOncePerAttempt` compares.  Symmetry is over jobs, clients and keys (and
workers with names of their own), which are interchangeable; no run of a
liveness property uses a view or symmetry.  Deadlock is not checked where the bounds stop the
system: with all claims, crashes and requests spent and no deadline ahead, only
polling is left, and a worker that is down with nothing to do is a legitimate end;
the same holds of pages whose user has spent all clicks.

## Fairness

`FairSpec` and `PowerFairSpec` assume weak fairness of

- the steps of each worker loop and the return of a handler: `Run` is a loop
  that a timer wakes, every statement either returns or fails;
- the restart of a stopped process: `compose.yaml` declares
  `restart: unless-stopped`;
- the statements of a request, and the steps of the executor that end by
  themselves;
- the clock.

The Web modules assume weak fairness of what ends by itself: a call is answered
or fails and the code after its await runs (a `fetch` settles, and each `await` is
followed by code or by a `catch`), the polling timer ticks (`setInterval`), the
handshake timer fires (`setTimeout`), a job of the worker ends, a handler of the
server goes on until it returns, and a proxied console ends by its idle and
absolute timeouts at the latest (`console/websocket.go:75`).  Nothing is assumed
of users, of other tabs, of windows saying that they are ready, of restarts and
of losses.  `apiRequest` sets no timeout, so that a `fetch` settles is an assumption
about the browser and the network, and `WaitsEnd`, `ButtonsReturn`, `FormAnswers`,
`SubmissionEnds` and `AttemptEnds` rest on it.  `WebConnections` assumes strong
fairness of `PollArrive`: a poll may fail again and again, but not every poll
does, without which no page would ever be right.  In `WebConsole` the fairness of
an opener's steps includes its timer, and in `WebBackups` a failing call is as fair
as a succeeding one.

Nothing is assumed of `Poll` of `PowerOperations`: a provider need never report the state a
verification waits for, so an operation has to finish by its deadline.
Nothing is assumed of crashes, faults or departures: they may or may not happen.

## Findings

1. **A queued operation nobody takes** (`PowerOperations_queued`). The client
   leaves after `CreateQueued`; enqueueing and the compensation fail under the
   same cancelled context.  The operation blocks its server for good.
   `PROJECT.json` quotes the document it is measured against.

Other places where code and documents disagree, met while modelling.  The models
contain them; none has a run of its own.

- *Attempts beyond the limit*: `LeaseNext` claims an expired lease without
  comparing `attempts` with `max_attempts`, so a crash or a graceful stop during
  the last attempt adds one more (docs/operations.md:27).  What does hold is
  `AttemptsBounded`: with one process, one more for each crash and no other.
- *A failed statement of the executor strands the operation*: the error is not
  retryable, so the job fails while the operation stays unfinished
  (executor.go:75, 83, 115, 133, 199, 204).  `StrandedOnlyByFaults` says that one
  failing statement strands one operation and nothing else does;
  `EnqueuedOperationFinishes` is checked without such faults.
- *A failed operation that still runs*: the job is enqueued before the audit
  entry; when that fails the operation is marked failed although the worker may
  already execute it, and go on to write to the provider.  `WritesOnlyWhileActive`
  names this case and allows no other.
- *Reboots may be repeated* after a crash or a lost answer; every repetition is
  a new attempt of the job (`WritesOncePerAttempt`).
- *An outcome may miss its audit entry* after a crash between the two statements
  (docs/operations.md:39); it is never a wrong one (`PowerLogTrue`).
- *A page stays stale after a reconnection*: docs/operations.md:52 has the client
  refresh when its event stream is back; `useServerEvents.ts` does not.  And a
  synchronisation publishes no event, although the design document expects one
  (`StaleOnlyByLossOrOvertaking` names both).
- *The dialog changes its server*: a server that vanishes while its confirmation
  is open leaves `confirmation` set, and the next detail opens with the dialog;
  with the keyboard the next detail can be opened behind the dialog.  No property
  is about it, since none holds.
- *A late logout signs a later login out in the browser*: the button of the logout is not disabled
  (`AppShell.tsx:52`) and the server answers 204 to each of two logouts of one
  session that overlap.  When the second answer comes after a new login, it clears the
  cookies of that login and shows the login page while its session is valid.
  `LogoutEndsSession` says of such a step that the session *the logout was sent
  for* is gone.
- *"Cannot create the administrator" although it was created*: `SetupPage.tsx:19`
  shows one text for a set-up that failed and for one whose login failed after the
  user was inserted (`auth/http.go:108`).
- *"Not saved" although it was*: an error of the queue or a lost answer leaves the
  row of a connection (`SecondRowOnlyAfterFault`).
- *"Data not replaced" although it was*: the text of `BackupsPage.tsx:80` is shown
  too when only the audit entry of the restore failed, and when the connection was
  lost, before or after the tables were replaced.  No property is about the text,
  since none holds; `ReplacedAtOnce` says what is true of the data.
- *Every restore loses an audit entry*: `backup_created` of the safety archive is
  written after the archive was exported and before `audit_logs` is replaced
  (`backup/service.go:122`, `snapshot.go:96`), so it is in neither
  (`NothingLost` names it).
- *A console row may stay active for ever*: the error of the statement that closes
  it is dropped (`console/websocket.go:80`), and nothing looks at such rows later.
- *A restore does not always end the sessions*: `BackupsPage.tsx:108` and
  docs/backups.md:24 say that it does; a session that the archive holds survives.
- *A restore may run beside work*: activity is looked at before the mutex and the
  safety archive, and what is written in between is lost (`NothingLost`).
- *An operation reported as not submitted although it was*: the `catch` of
  `confirmAction` also sees a failed refresh after a queued operation.
- *"Allow popups" although the window opened*: `window.open` with `noopener`
  returns null, which `openConsoleWindow` takes for a blocked window.
- *A failed logout is silent*: `AppShell.tsx:52` drops the rejection.
- *A reloaded console window waits for ever* for a session that is posted once, and
  so does one whose opener was reloaded during the handover.

## Proofs

The theorems hold for every number of jobs, processes, clients, servers and
keys and for every value of the bounds, from the named ASSUMEs of the modules.

*Clock.* TLC needs a clock that stops; the theorems are about `OpenSpec`, the
same queue under a clock without a bound, which every behaviour of `Spec` satisfies
(`BoundedClock`, a lemma).  `PowerSpec`, whose clock also runs for verification
deadlines, implements `OpenSpec` but not `Spec`.

*Queue.* `TypeOK` alone is not inductive: an executing worker must also have
been given attempt 1 or later (`QueueInv`), for the shift of the retry delay.
`QueueFencing` needs two more conjuncts: clock readings carried by a worker lie
in the past (`ReadingsPast`), so that a lease claimed again has expired; and the
property itself, whose inductive step is that a claim of one worker leaves the
other either owner of its lease or superseded.  It assumes `DistinctOwners`.
The application as wired gives every process the default name "worker", so this
holds of the shipped program only for a single process; with two, the owner
comparison does not tell them apart, which is why `PowerOperations_two_processes`
checks what must hold without fencing.

*Attempts* (`QueueAttempts`, `QueueNoLeaseLost`). They assume `SingleProcess`,
which is how the application runs.  An expired lease is claimed without regard to
`max_attempts`, so a bound on the attempts rests on who left the lease behind.
`AloneOwns`: a lone worker that executes owns its row, expired or not, as nobody
else could claim it; hence it never meets `ErrLeaseLost`.  Every running row that
is not being executed is what a crash left (`Orphans`) and still lies one below the
bound, so the claim that takes it over reaches the bound and no more.  A queued
row has attempts left in any case (`QueueBudget`).

*Composition.* `PowerRefinesQueue` shows that the whole system implements
`OpenSpec`: requests only enqueue their own fresh row, executions end with one
of the three results, everything else leaves the queue alone.  Queue theorems
carry over by one line each (`PowerFinal`, `SingleNoLeaseLost`).

*Operations.* The invariant `PowerInv` is a conjunction by variable: `QueueInv`,
`OpsInv` (marker = unfinished; server and key are set exactly for existing rows), `ReqInv` (a request
past `CreateQueued` has an operation) and `ExInv` (an execution has a verdict
before it writes one; executor and worker loop agree).  `OpsSteps` reduces a
step of the system to what it does to the table: nothing, an insertion that
passes both constraints, or a valid transition.  From it follow
`PowerExclusive` and `PowerKeys` and, for the table, `PowerImplementsLifecycle`
(initial states, then each step is an abstract step or a stutter).  For the audit
log `AuditSteps` leaves two statements; what they append is true because jobs and
requests never run ahead of the operations table (`Backed`) and because an
execution that is about to report has written its verdict before and no valid
transition leaves a final status (`Verdicts`).  `PowerLogTrue` is proved of the
abstract lifecycle and carried over by the refinement.  `PowerAccepted` adds what
stands behind an answer: rows of the job table and entries of the audit log are
never removed, and a request gets past `EnqueueJob` only with its row.

*Writes* (`PowerWritesOnce`). Nothing tells a repeated write from the first, and
`issued[o] <= jobs[o].attempts` is not inductive: an execution may be about to
write.  `WritesInv` adds up the writes of an operation and its executions that
have not come to `Act` yet (`Due`, a finite set as processes are finitely many)
and keeps the sum below the attempts: a claim raises both sides by one, a write
moves one from the second summand to the first, a crash or an error drops one.
Leases play no part, so the theorem holds for any number of processes with any
owner names.  With one process it combines with the bound on attempts:
`SingleWriteBudget`, at most `max_attempts` writes and one more for each crash.

*A single process* (`SingleProcessProofs`), which is how the application runs.
Two processes can break the three properties proved here (their owner names
are the same, and a synchronisation of the other may write another state between
`Record` and `Conclude`), so each theorem assumes `SingleProcess`.  The
invariant (`LoopOK`) says of the executor that it owns its row, and of each
pc which status the operation then has and what the view of its server shows
(`Known`); only the request that took the operation back may have moved it
meanwhile (`Late`, for the operations in `Abandoned`).  No theorem here assumes
that statements succeed, that clients stay, or that nothing crashes.
`SingleStranded` counts: `Lost` is the set of operations that are stranded, or will
be when their worker settles since its handler came back without finishing the
operation or an attempt to come (`Settled`), and every step that adds to it is a
failing statement, which `faults` counts (`LostInv`).  `SingleWrites` says of the
operation written for that it runs, or is in `Abandoned` (marked failed, and not
logged), which is the case the property names.

The theorems on the Web modules assume of the constants that the pages' paths
are no server names (`ServersAssumption`), that no console is both in the page
and in a window (`AttemptsAssumption`), and that bounds and slots are natural numbers;
`FailingAssumption` names the states a failing provider may leave.

*Signing in* (`WebSessionProofs`). The invariant is per tab.  `Screens`: a tab
that boots has one call in flight, and a form waits exactly with its call.
`Sound`: a logout that was admitted carries the header of the session it is for,
and one that was carried out leaves that session deleted for ever, which is what
`SessionLogout` needs: another tab may change the cookies at any moment, but a
call keeps its header and the server compares the two.  `OneSetUp` and `Setup`:
a call past the insert of a set-up is the only one, and nobody has logged in
before it; both hold because the user is never deleted.

*Servers* (`WebServersProofs`). `StaleOnlyByLossOrOvertaking` speaks of the
moment when nothing is in flight; its strengthening (`FreshOK`) says that, with
no event on its way, the newest list call in flight reads the present.  The
calls that are late come before those that are not (`CallsOK`), so the newest
call decides.  `OwnOK` is about what `OwnChangeShown` needs: a call that was
sent after the list of a submission has read what that submission changed, and
once that list has arrived, no call that is not late has read less (`OwnReads`).
`DialogOK` ties `submitting` to the submission and its list call.

*Connections* (`WebConnectionsProofs`). Every write but an insertion looks at
the row it changes (`RowsKept`), which gives `ConnectionsDeleted`.  `FormOK`
counts the rows a form inserted against the failures: a form can be submitted
again only when its call has ended, and a call whose row was inserted ends
without a success only by a failure.

*Consoles* (`WebConsoleProofs`). What is known of an attempt (`AttemptOK`) speaks
of this attempt alone, so a step is looked at for the attempt it changes.  One
presentation of a ticket at most is past the row, and the target is gone once it
was taken; it can be taken only in the run of the server that put it.

*Backups* (`WebBackupsProofs`). The mutex keeps one call between the beginning of
its safety archive and its transaction (`CallOK`), and the archive of a restore
holds what was in the tables up to `exported` (`SafetyOK`); the transaction
therefore loses only what came later, which is `raced`.  For the audit entries a
second invariant (`AuditOK`) says that the safety archive of a restore holds every
entry but the one about itself (`EntriesSafe`).  `BackupsReplacedAtOnce` needs the
mutex once more: the call that applies an archive holds it and has its row.

*Lists* (`ConnectionsTypes`). The list that the server answers with is a set of
rows put in order (`InOrder`), chosen by `CHOOSE`; that such an order exists, and
so that a list is a sequence of cards, is an induction over the number of rows.
The provers cannot instantiate the library's induction principles, so it is done
by descent: among the numbers `k` for which the rows up to `k` had no order there
would be a least one (`WFMin` over the initial segments of `1..n`), and the order
of the rows before it extends by one (`ListOneMore`).

Only model-checked is liveness (`EveryJobFinishes`, `EnqueuedOperationFinishes`,
`WaitsEnd`, `ButtonsReturn`, `SubmissionEnds`, `CardsConverge`, `FormAnswers`, `AttemptEnds`,
`ProxiedSessionCloses`), which is out of the prover's reach.  Every other property
of a passing run is stated by a theorem.

## Not modelled

Everything marked `not_modelled` in `PROJECT.json`: encryption, configuration,
the network policy, the migration loop and the text form of times on SQLite
(hazard at `jobs/sql_repository.go:158`) have no interleaving a model would add
to.  Within the modelled parts: clocks that differ between processes or go
backwards; the clocks of sessions (idle and absolute expiry, concurrent touches)
and the race of a login with a changed password, all of which are the one step
`Revoke`; pages and limits of a provider's listing; the two goroutines that copy a
console's messages; the closing of broker channels; downloads; filters, fields,
labels and layout of the pages; the repeated effects of React's development mode except where a one-time
ticket meets them.

## Plan

1. **Done:** `JobQueue`, `OperationLifecycle`, `PowerOperations`, their proofs;
   `WebSession`, `WebServers`, `WebConnections`, `WebConsole`, `WebBackups`, their proofs.
2. An abstract specification of the console ticket and of the restore, with the
   pages and services of `WebConsole` and `WebBackups` shown to implement them.
3. Session clocks and `ChangePassword` as a module behind `WebSession`; theorem:
   no session passes its absolute expiry.
4. The listing of a provider page by page; abstract specification: the visible
   servers of a connection are those of one complete listing.
5. The order of formatted times as a pure function.
