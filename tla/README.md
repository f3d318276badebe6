# imauth: a TLA+ verification project

imauth keeps web logins for other programs: a client asks the server to log in
to a platform, a person completes the login in a Chrome tab the server opened,
and the server stores the session cookies, encrypted, in SQLite. This directory
holds TLA+ models of it, the TLC configurations that check them on small
instances, and TLAPS proofs of the properties that matter most. Paths are
relative to the repository; file names without a directory are in
`crates/imauth-core/src`, `crates/imauth-server/src`, `scripts` or, for the
CDP driver, in `patches/chromiumoxide/src`.

To check a model: `tlc -config LoginOne.cfg Login`. To check proofs:
`tlapm LoginProofs.tla`. `PROJECT.json` maps each definition to the lines it
models and lists runs, seeded faults, hazards and theorems.

## 1. Inventory

| Component | State it keeps | Operations | Talks to |
|---|---|---|---|
| Login use case (`login.rs`, `login/control.rs`) | one task per Login RPC: its await, deadline, poll-error counter, outcome | `execute`, `login_in_browser`, `LoginControl::run` | browser pool, session and cookie repositories, event channel |
| Auth RPC service (`grpc.rs`) | `login_capacity` semaphore | Login, GetStatus, Cancel | login use case (spawned task and channel), session repository |
| Session domain and repository (`domain/session.rs`, `sqlite/session_repo.rs`) | `sessions` table: status per id | create, get, update, delete, transition | SQLite |
| Cookie repository, session RPC service (`sqlite/cookie_repo.rs`, `application/cookies.rs`, `grpc.rs`) | `cookies` table, unique by platform, name, domain | `save`, `save_login`, get with migration of plaintext values, export, validate, status, update | SQLite, encryption |
| Platform domain (`domain/platform.rs`) | none | domains, session cookies, expiry | - |
| Credential service (`grpc.rs`, `credentials.rs`, `sqlite/credential_repo.rs`) | `credentials` table | save, get, delete | SQLite |
| Configuration, container, server process (`config.rs`, `container.rs`, `main.rs`, `sqlite/mod.rs`, `auth.rs`) | the settings in use, TLS identity, schema, requests being served | load, `from_config`, migrations, serve, drain | files, environment, SQLite |
| Browser pool (`browser_factory.rs`) | one `Semaphore(1)` per Chrome slot | `acquire`, `wait_for_slot`, `connect` | Chrome through the CDP driver |
| Browser session (`browser_factory.rs`) | connection, target id, page-creation task, permit | `new_page`, `reconnect`, `close`, drop, detached `cleanup_session` | Chrome; the pool through its permit |
| Page driver (`page_driver.rs`) | a page handle behind a mutex | navigate, read cookies | CDP driver |
| CDP driver: handler, targets (`handler/mod.rs`, `handler/target.rs`) | targets, sessions, pending commands, navigations | calls of browser and pages, responses, events, eviction | Chrome through one WebSocket |
| CDP driver: frames, network (`frame.rs`, `network.rs`) | frame tree, contexts, watchers; requests, interceptions | one handler per CDP event | the target that owns them |
| CDP driver: listeners (`listeners.rs`) | queues of the subscribers of a method | subscribe, send, poll, drop | subscribers' tasks |
| CDP driver: pages and elements (`page.rs`, `element.rs`, `handler/page.rs`) | none of their own; they change Chrome's | sequences of awaited commands | the handler |
| Desktop runtime (`chrome-runtime.py`) | leases, running, closing, start failure; known process ids | lease acquire and release, idle monitor, start, stop, close | the desktop's processes; CDP clients through the relay |
| CLI, Python and TypeScript SDKs | none that survives a call | RPC wrappers | the server |
| Provider record tools (`provider_record.rs`, `provider-record.mjs`) | scripts under way, checkpoints, what is written | prepare the runtime, record, `finish()` | Node.js, Playwright, files |

How they interact: an admitted Login RPC spawns a task that stores a session
row, acquires a browser, opens a tab, stores `loading` and `waiting_for_user`,
polls the tab's cookies, and finally commits cookies and status in one
transaction. It reports over a channel; the client may leave, or call Cancel,
which deletes the row the task watches. The task holds a capacity permit; the
browser session holds the permit of its slot, which travels into a detached
cleanup when the session is closed or dropped. Everything a session asks of
Chrome goes through one handler task, which the desktop runtime's relay
connects to the Chrome it starts and stops.

What is hard in this system:

* **Dropped futures.** `LoginControl::run` is a biased select over client gone,
  deadline, operation and row deleted, which drops the operation at any await.
  A SQL statement dropped this way may already be with SQLite and land later; a
  `CreateTarget` may still open a tab; a queued semaphore future may just have
  been granted a permit.
* **Timeouts with late answers.** `save_login` is awaited for 5 s and then
  rechecked; the caller of `close` goes away after 5 s while the cleanup runs
  on; a command the driver has given up on may still be answered.
* **Two lifetimes.** A permit is released by a task that outlives the login.
* **Crashes.** Rows outlive the tasks behind them; a schema is half migrated.
* **Resources.** Two semaphores (admission and slot) with one permit each to
  lose on every early return.
* **Events in any order.** Chrome tells of one request twice, of a target
  before or after it answers its creation, of frames, contexts and sessions
  that come and go under calls that wait for them.
* **Half-done operations.** A click, a screenshot or a record is several
  awaited steps, each of which may fail or be the last.

What makes each component correct:

* *Login*: cookies and the connected status are stored together; a failure
  leaves no cookies; Cancel is final; the stream follows its protocol and ends
  with an outcome; permits come back; a cancelled task stops at once.
* *Cookie store*: a batch is written at once; migration never undoes one; an
  answer is complete; what a login stored is recognised as a session.
* *Credentials*: a write answered later replaces one answered earlier; what a
  client is told was so at one moment of its call.
* *Server start*: a server that serves has TLS, API key and schema as its
  operator configured, whatever earlier starts left.
* *Browser pool*: one login per slot until its tab is gone; no permit lost;
  no login asleep on a free slot; first come, first served; every acquire ends.
* *Browser session*: no tab, connection or task is left behind by a call that
  was dropped; cleanup always ends.
* *CDP driver*: sessions lead to their targets; a goto is answered when command
  and navigation are both in, and not for an older document; frames form a
  tree; a request is paired with its own pause; subscribers get their events,
  once and in order; what an operation puts in force it undoes; calls end.
* *Desktop runtime*: leases are counted exactly; whatever the supervisor owns is
  known to its idle monitor; the idle timer spares leases; an unused desktop
  goes; there is one desktop at a time; every start ends.
* *Recorder*: a record with a manifest is whole, scanned and summed; success
  means such a record, found clean.

## 2. Modules

| Module | Models | Proofs |
|---|---|---|
| `Login` | login use case, admission, stream, tables | `LoginProofs` |
| `LoginLifecycle` | abstract: what the tables promise about one login | |
| `CookieJar` (with `Platform`) | cookie table, session RPCs, platform rules | `ServerProofs` |
| `Jar` | abstract: what the cookie store promises | |
| `Client` | credential service and its table; the SDKs and the CLI as callers | `ServerProofs` |
| `Boot` | configuration, start, migrations, API key, drain | `ServerProofs` |
| `Recorder` | `imauth provider record` | `ServerProofs` |
| `SlotPool` | `PooledBrowserFactory` and its semaphores | `SlotPoolProofs` |
| `SlotLock` | abstract: exclusive use of Chrome slots | |
| `BrowserSession` | session, cleanup, Chrome | `BrowserSessionProofs` |
| `BrowserPool` | `SlotPool` and `BrowserSession` composed | `BrowserPoolProofs` |
| `DesktopRuntime` | leases, start, idle stop, close of `chrome-runtime.py` | `DesktopProofs` |
| `CdpHandler` | the driver's handler, targets and sessions | `CdpHandlerProofs` |
| `FrameManager` | frames, contexts, navigation watchers of a page | `ManagerProofs` |
| `NetworkManager` | requests and interception of a page | `ManagerProofs` |
| `Listeners` | subscriptions to one method | `CdpHandlerProofs` |
| `PageCalls` | operations of pages and elements | `CdpHandlerProofs` |
| `MCServer` | instance: `CookieJar`, `Boot`, `Client`, `Recorder` | |
| `MCDriver` | instance: the five modules of the CDP driver | |

The composition still missing is `Login` with `BrowserPool` (acquire, new page,
reconnect and close as joint steps). The two meet in the permit only, which
`BrowserPool` follows into the cleanup; `Login` takes the browser's answers as
they come.

## 3. How the models correspond to the code

### Login

`pc[l]` names the await the task of login `l` is in, in the order of
`login.rs:62-265`. `Controlled` are the awaits under `LoginControl::run`,
`Bounded` those under the 5 s `CLEANUP_TIMEOUT`. The biased select is
`OperationWins` (client there, deadline not fired) for the operation and
`Abort` for the other branches; a deleted row can lose against a ready
operation, as in the code. `expired` is reset when the user-login control
replaces the preparation control.

The store is `row`, `jar` and `inflight`. A statement either executes in the
step of its await, or its caller is gone and it is put in `inflight`, from
which `Land` executes it at any later time, in any order, or `Discard` drops
it. `Execute` gives each its effect: the INSERT, the unconditional
`UPDATE ... WHERE id`, and the `save_login` transaction with its
`status IN (...)` condition. Cookies are abstracted to the set of logins that
wrote to a platform's jar; statuses are the domain's.

`Cancel` is the RPC, `CloseStream` a client that goes away, `Crash` the death
and restart of the server, which loses tasks, permits, streams and statements
in flight and keeps the tables. Nothing reconciles rows at start, as in the
code.

The refinement to `LoginLifecycle` maps a row and the recorded failure to the
phase of the login: open, stale (the row says the login goes on and the task
has given up), connected, failed, deleted. `Relapse` of the abstract module is
the late `loading` or `waiting_for_user` UPDATE that lands over `failed`; it is
allowed because the code allows it, and it is where it stops.

### CookieJar, Platform and Jar

`table` maps a slot (platform, name, domain: the table's unique key) to a row
whose `form` is "plain" or the key that encrypted it. A call reads the rows of
its platforms with one SELECT each, decodes them one after the other and
encrypts plaintext rows with an UPDATE conditional on the value read; between
any two statements everything else may happen, and a caller that goes away
leaves the statement it sent in `inflight`. A restart ends all calls and may
bring another key. `Platform` has domains, session cookies and their expiry;
where the code takes the first of several rows, `HasSession` has both readings
(for every choice, for some choice).

`Jar` promises that the store changes by whole batches only, and that an answer
is complete: a call says which parts of the store it wants, looks at each of
them once, at all of it at one moment, and answers when no part is left, with
everything it has seen. The refinement maps a row to its value, whatever its
form, so that migration is a stutter; the parts of a call are the rows of each
of its platforms, in the domains it asks for; and its answer is made of the
rows it has *decoded* (`cookies`), not of those it has selected. A row that is
skipped because it cannot be decrypted, or a reply before the last row or the
last platform, is therefore no step of `Jar`: such a call must fail as a whole.

The path of a cookie is not part of its row's key, and a page gives its cookies
in no order: of two cookies of one slot in a batch the last one stays, and
`Kept` is what any order may leave. `signedIn` is a history variable, what was
kept of a platform's last login; an update or a new key clears it. What
`LoginLeavesSession` says is that those cookies stay a session among the rows
the key can decrypt. It does not say that a call answers with it: a single row
of the platform that cannot be decrypted fails the whole read (`Decode`). Nor
does it say whose session: older cookies of other names or domains stay beside
those of the login, and for novelpia, where values count, `active_cookie` may
look at one of them.

### Client

A call is sent, executes its one statement, is answered and ends; the
connection may be lost at any point, and then the statement may have run, run
later (`adrift`) or never. `PythonResult`, `TypeScriptResult` and `CliResult`
are what each client makes of a code; `row` is the last write. `Refuse` is the
answer without a statement.

### Boot

`Start` reads file and environment with `Load`, which is `config.rs` field by
field, the derived `Default` of a missing section included. Each stage of
`main()` and `from_config` may end the process, which may also be killed
anywhere; `tables` survives, per data directory. `Serve` is a request that
passes the interceptor.

### Recorder

`at` follows the command from the preparation of the runtime to `finish()`.
The page's handlers (`Request`, `Response`, `Body`, `RequestFailed`) run
between any two awaits. `raw` and `out` are the two directories, `manifest`
what was written last. Every write may fail and every wait be interrupted.

### SlotPool and SlotLock

`at[u]` is where login `u` is in `acquire` (scan, wait, connect), its session
or its cleanup; `slot`, `busy` are the cursor and `busy_slots` of the scan.
`permit` and `queue` are the tokio semaphores: `Keep` is what dropping permits
and `acquire_owned` futures does, handing a permit straight to the oldest
waiter, who has it from then on even before it is polled. `TakeSlot` is the
return of `wait_for_slot`, which drops the other futures; `Enqueue` is the
first poll of one of them. `try_acquire` cannot overtake a queue, because a
permit with waiters never becomes free.

A failed connect gives the permit back before the scan goes on; after waiting
it ends the acquire. `Abandon` is both `acquire_timeout` and the caller that
drops the future.

`SlotLock` is the promise: owner per slot, `Take` only when free and only with
no other slot, `Give` only by the owner. `owner` maps each slot to the login
that connects to, drives or cleans up its Chrome.

### BrowserSession

One action per await of `new_page`, `finish_page_creation`, `reconnect` and
`cleanup_session`. `Close` stands for `close()` and for the drop of the
session, at any await: whatever was pending is dropped and the fields move into
the cleanup. `conn` is `none` (the field is `None`), `up` or `down` (there is a
`BrowserConnection` but its handler has ended). Chrome is external: a requested
tab opens at any later time, also when nobody waits; tabs close, connections
break and the process stops and starts without notice. `lost` is a history
variable that records the steps at which a tab may have been lost (creation
aborted or failed, reopen failed, close failed, close on a dead connection), so
that a property can say that there are no others.

### BrowserPool

The two modules instantiated over the same logins, with the session's slot
being the pool's. Joint steps: `Connect` (the connection acquire makes becomes
the session's), `Close` (connection, tab and permit move at once),
`EndCleanup` (the permit is dropped when `cleanup_session` returns). Everything
else is a step of one module.

### DesktopRuntime

`at[h]` is where a relay handler is: idle, in one of the three stages of
`start()` (probe, launch, boot), or leased. `_start_shared` runs `start()`
while it holds the condition, so at most one handler is in a start and all
other threads wait for the lock (`LockFree`); the waiting loop on `_starting`
is therefore never entered and has no action. `leases`, `running`, `failure`
(none, within the cooldown, past it) and `closing` are the fields of
`BrowserLifecycle`; `idle` stands for the comparison with `_idle_since`.
`monitor` is the monitor thread at its two waits, `main` the main thread in
`close()`.

A desktop is one value for a whole process tree; identities are used again.
`process` is the desktop whose supervisor process still runs, `known` what
`_known_pids` records, and `Owned` what `_owned_pids` then finds. `Stops` is
what `stop()` kills: recorded processes always (SIGKILL in the end); those of a
desktop not yet recorded get a SIGTERM and, if they outlive it and their
supervisor does not, are out of reach of the SIGKILL. The constant `Stubborn`
says whether that can happen. Desktops boot, die and lose their supervisor at
any time.

### CdpHandler

A call of the browser or of a page is its kind, its target and its answer;
`at[c]` says who holds the sending half of its channel: nobody yet, the
handler's inbox, the command map, a target that still initializes, or a
navigation. `AskBrowser` and `AskPage` begin one, `Receive` is the handler
taking it, `Response` Chrome's answer, `Evict` the `REQUEST_TIMEOUT` sweep over the command map,
`GiveUp` the deadline a page command has on its own side. A sender that is
dropped answers "canceled". `nav[c]` has the two halves of a goto: the response
of `Page.navigate` and the end of the navigation its frame manager watches.

A target goes through its stages (attach, frame, network, page, emulation,
ready); a chain of initialization commands is reduced to one that succeeds,
fails or expires. `sessions` is the handler's table from session to target.
Chrome creates, attaches, detaches and destroys at any time, and the handler
may stop (`Stop`), which drops everything it holds.

`task` is the task that polls the handler. It acts while it is awake
(`InPoll`); a message of Chrome, a call of the browser or of an initialized
page wakes it (`Heard`); and it sleeps (`Sleep`) once a poll has nothing left to
do. The last thing a poll looks at is the timer of the sweep: if its time is
not up it keeps the task's waker ("armed", `TimerWakes`), and if it is up the
job runs, resets the timer and does not poll it again, which leaves nothing to
wake the task ("unarmed", `job.rs:20-26`). Deadlines of the handler's own
(`Evict`, `ChainExpires`, `NavigationEnds` by its timeout) pass only in a poll.
So `CallsEnd` has two exceptions: the calls that wait where the code has no
deadline (`NoDeadline`), and those whose deadline nobody looks at, because the
task sleeps unarmed for good (`Overslept`).

A session of an unknown target is in the table too, as is an older one of a
target that is destroyed; and a page keeps the session it was created with, so that commands of a page may go to a session
that is detached: `SessionReachesTarget` speaks of the sessions targets call
their own, which is where events go, and not of those commands.

### FrameManager and NetworkManager

One action per CDP event and per result of `poll`, in any order Chrome may send
them. `frames` is the map of tracked frames; `RemoveFrames` is
`remove_frames_recursively`, `MainNavigated` may bring the main frame under
another id, and `contextIds` files contexts by the frame they were created for.
A document is a number that grows with every "init" of the main frame;
`Complete` is `check_lifecycle_complete`, `Polled` the fact that the target
polls until nothing is left to report before it takes the next event. What
Chrome never does is said at the head of the module.

In `NetworkManager` Chrome counts the hops of a request (`hop`) and tells of
each one twice, in either order, when interception is on; `tracking` is what
the manager keeps. A request for a `data:` URL (`data`) is not paused: the
manager announces it when it is sent, without an interception id, whatever the
settings. `announced` is a history variable, how often a request was announced,
so that `RequestsPaired` can say that every hop is, once, and as soon as Chrome
has told all there is to tell of it. `steady` marks requests during which nobody
switched interception, which is when this can be promised; `announced` counts
as long as that holds.

### Listeners and PageCalls

`subs` is the Vec of one method's listeners, each with its queue; `turn` is the
index of the pass that moves queues to channels, so that a subscriber may go
away in the middle of a pass. `due` is a history variable: what a subscriber
was to be sent.

In `PageCalls` each operation of a page or an element is its sequence of
commands (`Commands`), one step each, interleaved with those of other users;
any may fail, or be the last one before the caller drops the future. `held` is
what the operations have put in force (device metrics, background, a pressed
button, a search) and `left` what the failed ones never undid.
`OperationsCleanUp` is about those that ended: what a failure half-way leaves
behind is excused through `left`, as the code has no step to undo it.
Operations of a single command are represented by two of them.

### MCServer and MCDriver

The modules of the server, and those of the driver, share no variable. `part`
is chosen in the initial state, and each behaviour is of one module while the
others stay where they are: one run checks them side by side, without their
product. Where modules do share state they are composed (`BrowserPool`, or
`CookieJar` over `Platform`).

In `MCDriver` only the handler has a liveness property; in behaviours of the
other parts its task is asleep and its fairness asks for nothing.

## 4. Runs

| Run | Instance | What it shows |
|---|---|---|
| `login_one` | 1 login, 3 poll errors, 5 rechecks (the constants of the source), 1 crash | `ConnectedRowHasCookies`, `OnlySaveTimeoutTears`, `ReportedConnectedIsDurable`, `EndsWithFinalEvent`, `CancelledStays`, `StreamFollowsProtocol`; `Login` implements `LoginLifecycle`; `CancelStopsTask` under `CancelSpec`, where no deadline need fire |
| `login_live` | 2 logins, 1 permit, 1 crash | `PermitsHeldByRunningTasks`, and `PermitsReturn` under `FairSpec` |
| `login_torn` | 1 login, no crash | violation of `NoCookiesUnderFailedSession` |
| `server`, jar | 2 calls over 2 platforms, 6 slots, 2 keys, 1 restart, cookies that expire | `LoginLeavesSession`; `CookieJar` implements `Jar` |
| `server`, boot | 7 files, 12 environments, 3 keys, 3 requests, any number of starts | `ServesAsConfigured` |
| `server`, client | 3 calls of the four clients | `CredentialsAreCurrent` |
| `server`, recorder | 2 scripts, 3 checkpoints | `RecordIsWhole` |
| `slot_pool` | 3 logins, 2 slots | `ExclusiveUse`, `NoPermitLost`, `NoLostWakeup`, `ServedInOrder`, `EveryAcquireEnds`, refinement of `SlotLock` |
| `browser_session` | 2 sessions, 1 Chrome | `NothingLeftUnexplained`, `CleanupEnds` |
| `browser_session_dead` | 1 session | violation of `OwnedTargetIsClosed` |
| `browser_pool` | 2 logins, 2 slots | `NoForeignTab`, `DrivenOnlyByHolder`, `WaitersAreServed` |
| `desktop_runtime` | 3 handlers, 2 desktops, stubborn processes | `LeasesCounted`, `NoneBesideRecorded`, `IdleStopSparesLeases`, `IdleDesktopStops`, `EveryStartEnds` |
| `desktop_second` | 1 handler, 2 desktops, none stubborn | violation of `OneDesktop` |
| `driver`, handler | 2 calls, 1 target, 2 sessions | `SessionReachesTarget`, `GotoNeedsBothHalves`, `CallsEnd` |
| `driver`, frames | 3 frames, 1 context, 2 gotos, 2 documents | `FrameTree`, `ContextsForgotten`, `GotoWaitsForItsDocument` |
| `driver`, network | 1 request, 3 hops, queue of 2 | `RequestsPaired` |
| `driver`, listeners | 3 subscribers and 1 event or 2 and 2, 2 custom types | `EachGetsItsEvents` |
| `driver`, page | 2 users, 2 operations, 2 documents | `OperationsCleanUp` |
| `handler_quiet` | `CdpHandler`: 1 call, 1 target, 1 session | violation of `RequestsTimeOut` |

**Bounds.** A login's state depends on other logins only through the capacity
permits and the tables, so one login with the real constants explores every
order of awaits, deadlines, late statements, cancellation and a crash, and two
with one permit explore the rest. One crash is enough for a login to die at
each await; a second one finds nothing running that the first did not. In
`SlotPool` three logins on two slots are the smallest instance with two waiters
behind a holder, a waiter queued on two slots, and a permit handed to a login
that prefers the other. `BrowserPool` needs a predecessor and a successor on a
slot, and a second slot for the scan. Logins are single-shot in `Login`,
`BrowserSession` and `BrowserPool` (a session id is used once) and come back in
`SlotPool`. `MaxPermits` is far below tokio's and only cuts the sum in
`Capacity`. In `DesktopRuntime` three handlers are one in a start, one with a
lease and one to be refused or released; two desktops are one beside another.
When neither is owned any more and a third is started, it takes the identity of
one of them: the bound `Desktops` cuts the number of stranded desktops, not the
behaviour of the supervisor, which does not see them.

In `CookieJar` two calls are a reader that migrates and a writer, or two
writers; a third can only repeat what one of them does to a row. `MaxTime` lets
a cookie be valid, expire, and have expired; `MaxRestarts` allows one change of
the key, after which a row is readable, unreadable or rewritten. Three calls of
`Client` are a write, an abandoned write and a read. Two scripts of `Recorder`
are one that is settled and one that is late; `MaxPoints` is more than the
checkpoints of a default record. In `FrameManager` three frames are a main frame
with a child and a grandchild, or a main frame under two ids with a child.
`FewFrames` keeps gotos apart from contexts, on which they do not depend, and
gives them fewer frames the more gotos there are. `MaxLoader` is two documents:
the one a goto finds and its own. `MaxHops` is a redirect after a redirect,
`MaxQueue` the two commands a switch of interception queues.
`FewReaders`: a third subscriber is what a `swap_remove` puts in the place of
another, a second event what may come out of order; they are checked apart, and
proved together (`SubscribersGetTheirEvents`). Two sessions of
`CdpHandler` are a reattached target; two calls are one that waits for what the
other ends. `InOrder` and `MCSymmetry` remove states that differ by names only
(no liveness property is checked in the run with `SYMMETRY`).

**Deadlock checking** is off where logins, calls or operations are finite in
number and the system rightly stops, and where the process ends
(`DesktopRuntime`).

**Fairness.** `PollFairness`: the executor polls a select one of whose branches
is ready, and awaits under `CLEANUP_TIMEOUT` end; both are what tokio does.
`TimerFairness`: deadlines fire. Neither says that the browser answers, the
user logs in or a client stays. `SlotPool`'s `Progress`: ready futures are
polled, `connect` ends by its own timeout, and sessions and cleanups end, which
`login_live` and `browser_session` justify; `acquire_timeout` is *not* assumed
to fire, so `EveryAcquireEnds` rests on the queues alone. `BrowserPool`'s
`FairSpec` assumes the same of acquire and of sessions, and only the timeouts of
the cleanup. `CleanupFairness`: each await of `cleanup_session` has a timeout.
`HandlerFairness`: a poll of the handler's task does what there is to do and
ends, an armed timer of the sweep wakes the task, and the deadline a page command
carries on its side fires. What only a deadline of the handler ends is as fair
as the task is awake again and again (strong fairness of `Evict`,
`NavigationEnds`, `ChainExpires`): a poll that comes late enough finds it, and
there may be none. No fairness is assumed of Chrome anywhere. `DesktopRuntime`'s `Fairness`: the probe and the
startup have deadlines in the code, timers fire, and a thread that has the lock
to itself runs; nothing is said of clients (a lease may last for ever), of
desktops or of SIGTERM.

## 5. Proofs

All are for every value of the constants. What is assumed of these is
`LoginAssumption`, `SlotPoolAssumption`, `BrowserPoolAssumption`,
`DesktopAssumption`, `HandlerAssumption`, `FrameAssumption`, `ClientAssumption`,
`ListenersAssumption`, `CookieJarAssumption` (constants are naturals, a marker
like `None` is not one of the things it marks), `BootAssumption` (a setting
stands in a section of its file) and `StoreAssumption`: a cookie is its name,
domain, value and expiry, `Slots` has the slot of every cookie of the batches
that is stored at all, and what an older version left is rows of such cookies.
The last two are how the constants are meant; TLC evaluates all of them.

* `LoginProofs`: `TypeCorrect`, `AtomicPersistence`, `TornOnlyBySaveTimeout`,
  `ConnectedIsDurable`, `PermitsBounded`, `ErrorBudget`, `FinalEvent`,
  `StreamProtocol`, `CancelIsFinal`, `Refinement`. None of the properties is
  inductive: that a connected row has its cookies depends on what may still be
  in flight. `IndInv` says, for each await, which failure may be recorded,
  whether the cookies may be stored, and which statements may be in flight;
  `SentInv` adds what has been sent at each await, `FailedInv` that a failed row
  is of a login that failed. The proof treats the acting login operation by
  operation and shows that every other login keeps its part (the frame lemmas).
  `Refinement` looks at the effect of a step on one login's row, failure and
  cookies, and finds the abstract step, or none.
* `SlotPoolProofs`: `TypeCorrect`, `Exclusion`, `PermitsAccountedFor`,
  `Wakeups`, `Fifo`, `Refinement`. Exclusion does not mention permits, so the
  invariant adds that users have the permit of their slot, and that a queued
  login waits, is queued once per slot and does not have that permit already:
  without the last, a permit passed on could go to a login that dropped it.
  Every change of a permit other than a scan's is `Keep`, whose effect is one
  lemma. `Refinement` shows each step to be a `Take`, a `Give` or a stutter.
* `BrowserSessionProofs`: `TypeCorrect`, `CleanupComplete`. The property speaks
  of closed sessions; the invariant `Tracked` follows the tab from the start:
  while nothing has failed, a request under way has its task, an open tab has
  its task or its id, and a cleanup about to close a known tab has a connection.
* `BrowserPoolProofs`: `TypeCorrect`, `SlotsAreClean`, `PermitHolderDrives`. It
  takes the invariants of the two components through `INSTANCE` of their proof
  modules and joins them by `Agree`: where a login is in the pool says where it
  is in its session.
* `DesktopProofs`: `TypeCorrect`, `LeaseCount`, `Ownership`,
  `OneRecordedDesktop`, `IdleStop`. That what is owned is running is not
  inductive: a request refused within the cooldown clears `_running` and stops
  nothing. The invariant adds that the failed start left nothing owned and that
  no start is under way in the cooldown, which needs that there is only one
  start at a time.
* `CdpHandlerProofs`: `HandlerTypes`, `SessionsReachTargets`,
  `GotosNeedBothHalves`, from two independent invariants: `TargetInv`, on the
  table of sessions, and `CallInv`, on where each call waits and which halves of
  a goto are in. The module also proves
  `SubscribersGetTheirEvents`: `VecInv` says that a subscriber is in the Vec
  once and that what the pass has been over is drained, `FlowInv` that what it
  has read, its channel and its queue, one after the other, bring exactly what
  was due, in order. A pass drains from the end and swaps the last listener into
  the place of one that is gone, so the listeners it has still to visit are a
  prefix; that is the lemma about `SwapRemove`. Sending, draining, reading and
  losing an event of another type are each one equation about this
  concatenation (`WayOfSend`, `WayOfDrain`, `WayOfRead`, `WayOfLoss`).
  And `PagesAreCleanedUp`: every list of commands closes, later in the same
  list, whatever it opens (`WellClosed`, shown for each operation's list, and
  kept by what is left of it after a command), an operation under way will close
  what it has opened, and one that is alone knows what is in force, so that a
  screenshot's capture meets what it asked for (`ShotPlan`).
* `ManagerProofs`: `FramesFormATree`, `ContextsDie`, `GotosSeeTheirDocument`,
  `RequestsMeetTheirPauses`. `FrameTree` alone is not inductive: a ring of
  frames that are each other's parents satisfies it, and removing a subtree
  would leave part of the ring. `Rooted` excludes rings (every set of frames
  closed under parents has the main frame) and `GoneIsBelow` shows that what a
  removal takes is closed under children. Contexts need that ids are not used
  again. For gotos, the newest document is always the main frame's, a watch is
  of the main frame or of what once was, and only a goto that found nothing
  before it can be at the head of the queue unqueued.
* `ServerProofs`: `ServesWhatWasAsked`, `CredentialsStayCurrent`,
  `RecordsAreWhole`. For the first, each stage of a start says how much of the
  configuration has been acted on, and `PathsAreNamed` follows a TLS path
  through file, defaults and environment. For the second, what the row held when
  an answered write began was overwritten by it (`RowIsNew`). For the third, the
  handlers run while `finish()` writes, so what was written is compared with a
  set that only grows; what was answered before `finish()` began to wait is
  settled once the tasks it waits for have ended. `LoginsLeaveSessions` needs
  that the cookies of `signedIn` are in their rows, in plaintext or under the
  key in use (`JarInv`): the table alone may hold rows of any key. A later login
  may replace some of them only by its own, a migration changes a row's form and
  nothing else because its UPDATE compares the value, and that a larger set of
  cookies has a session if a smaller one has is a lemma about `HasSession`.
  `JarRefinement` uses the same invariant: of each call, what it has seen is
  what `Jar` calls its view (nothing before the first SELECT, which is why
  `JarInv` says so), a save is one `Write`, a SELECT one `Look` at a part, a
  restart one `Fail` of every call that was under way, and a decoded or migrated
  row a stutter. That a `Reply` answers with the whole view is the conjunct
  `AllDecoded`: each row a call has seen is decoded or still to do, and of a
  platform it has still to read it has seen none.

Only model-checked: liveness (`PermitsReturn`, `CancelStopsTask`,
`EveryAcquireEnds`, `CleanupEnds`, `WaitersAreServed`, `IdleDesktopStops`,
`EveryStartEnds`, `CallsEnd`), since the prover does not reason about fairness.
Every other property of a passing run is stated by a theorem.

## 6. Findings

* **Cookies under a failed session** (`login_torn`). `CHANGELOG.md:24` says
  "cookies can no longer land under a session marked failed". After
  `save_login` times out, the row is reread at most five times and the login
  is then marked failed by an unconditional UPDATE; a commit landing in between
  leaves cookies under a failed session. `TornOnlyBySaveTimeout` proves that
  this is the only way.
* **A tab stranded by a dead connection** (`browser_session_dead`).
  `cleanup_session` reconnects only if the session has no connection; if it has
  a dead one, closing the tab fails and the tab stays open in a browser that
  would have accepted a new connection, for the next login of that slot to
  find. `browser_factory.rs:360` and `:407` say this cannot happen and why it
  must not. `CleanupComplete` proves that, besides this, a tab stays
  only after a creation, reopening or closing that failed.
* **A deadline that nobody looks at** (`handler_quiet`).
  `browser/config.rs:83` says of the request timeout: "The duration after a
  request with no response should time out". `PeriodicJob::poll_ready` resets
  its timer when it has fired and does not poll it again (`handler/job.rs:20`),
  and the poll ends there, so the timer wakes nobody. If Chrome is silent and
  no call comes, a call of the browser or of an element that was too young at
  that sweep waits for ever; commands of a page have a deadline of their own.
  The next message of any kind sets it right, which is why it is hard to see.
* **A second desktop** (`desktop_second`). `CHANGELOG.md:23` says that a browser
  that survives its supervisor is adopted instead of a second desktop being
  started. That holds once the desktop answered CDP, when its processes are
  recorded (`OneRecordedDesktop`). If the supervisor dies while Chromium boots,
  `stop()` at `chrome-runtime.py:237` finds nothing to signal, and the next
  start removes the profile's locks and starts another desktop beside it.

Weaknesses, met while modelling, that no run checks:

Server and login

* `proto/imauth/v1/auth.proto:8` has the stream begin with Loading; the first
  event carries the session while it is still idle, and `loading` is stored but
  not streamed (`login.rs:96-98`, `149-153`). `StreamFollowsProtocol` says what
  the stream does.
* A login waits only for slots that were busy during its scan. A slot whose
  connect failed in the scan is not waited for, even if it becomes usable first
  (`browser_factory.rs:283`).
* A section that the config file leaves out takes its type's derived `Default`:
  without `[server]` the address is empty and the start fails, without
  `[storage]` the database is opened in the working directory
  (the field defaults are for sections that are there, `config.rs:407`).
* `IMAUTH_CDP_URLS=""` configures no browser at all. A wrong bearer token hides
  a valid `x-api-key`. An open health watch keeps a graceful shutdown from
  ending. A huge `acquire_timeout` overflows the sum the container computes.
* `PageDriver::close` takes its page before the close is answered: one that
  times out leaves a tab without a handle (`page_driver.rs:140-152`).
* Two logins of one platform may leave a mix of their cookies, and cookies that
  differ only in path collide in the table's unique key.
* For Novelpia, `session_cookie` takes the first LOGINKEY row; an older, empty
  one of another domain makes a session invalid right after its login.
* After a change of the encryption key, rows of the old key make Get, Validate
  and Status fail for the whole platform, a fresh login notwithstanding.
* A credential save whose answer was lost may land after a later acknowledged
  one; `CredentialsAreCurrent` allows exactly that. The Python client documents
  that `delete_credentials` tells whether there was one (`client.py:197`), and
  the server answers success in either case.
* The CLI's `login` ends with exit code 0 when the login has failed.

CDP driver

* A goto submitted while another is under way remembers the document of its
  submission, so that it can be reported as loaded by the document of the one
  before (`frame.rs:345-352`); `GotoWaitsForItsDocument` excepts it, and a goto
  without a main frame leaves its entry in `navigations` for ever.
* A closed WebSocket does not end the handler, which then answers nothing until
  its requests are evicted; a page that is created, and the commands that wait
  for a target, have no deadline.
* `GetTargets` replaces targets that are known; the detach of one session
  clears the session of its target even if another one is newer; a page handle
  keeps the session it was created with, and goes on sending commands to it
  when it is detached (no property forbids that).
* When the main frame gets another id its contexts stay filed under the old one
  (excepted by `ContextsForgotten`).
* Switching interception during a request can leave a stale interception id,
  and the cache command is queued before the flag it reads is set.
* Two custom event types on one method stall the stream of the second
  (`listeners.rs:198-202`).
* `wait_for_navigation` and what builds on it may return at once for the old
  document (`page.rs:806-813`); a screenshot of an element adds the page offset
  twice; `find_xpath` panics without a match; a screenshot or `set_cookie` that
  fails half-way leaves the page changed (`OperationsCleanUp` excuses it), and
  two screenshots at a time are taken under each other's settings.

Desktop runtime and recorder

* `start()` probes for every lease. One probe that misses its 0.2 s stops the
  desktop under all other leases (`chrome-runtime.py:217-226`); that is why
  `IdleStopSparesLeases` speaks of the idle timer only, and no property forbids
  that stop.
* A request that comes after `close()` has stopped the desktop starts it again
  (`chrome-runtime.py:96-99`), for the short time the process still has.
* A checkpoint that fails, or an interrupt, loses the whole record; scripts that
  arrive while `finish()` writes are in some of its files and not in others
  (`RecordIsWhole` speaks of those answered before); an interrupted npm install
  can pass for a complete one.

## 7. Not modelled

`PROJECT.json` lists every component with its reason. In short:

* Layout and wording: protobuf conversion, printing, the Netscape file, argument
  parsing, `grpc_wire.ts`.
* Data whose algorithms have no states: the cipher, the redaction rules of the
  recorder (regular expressions over texts), the key table and the geometry of
  clicks.
* The viewer proxy, which writes one file and executes nginx.
* Finding and launching a Chrome of one's own, and browser contexts: parts of
  the driver this program does not use.
* The drop of a browser session outside a tokio runtime
  (`browser_factory.rs:548`), which happens only while the process ends.
* `Login` composed with `BrowserPool`, see section 2.
