# Verification of key-router

key-router is a local LLM gateway written in Go: it accepts OpenAI and
Anthropic requests, picks an upstream provider and one of its API keys, relays
the request (converting between formats when needed), fails over to other keys
and providers, and keeps per-key status, rate windows, budgets and statistics in
SQLite and in memory. This directory holds TLA+ models of its core logic, the
TLC configurations that check them and TLAPS proofs of their main properties.
Paths below are relative to the repository's root.

## 1. Inventory

| Component | Code | State it keeps | Operations | Hard part |
|---|---|---|---|---|
| Key status machine | `selector/selector.go`, `handler/admin.go`, `handler/chat.go` (spend) | key row, cached key, streaks, per-key mutex | RecordResult, RecordEmptyResponse, failKey, MarkKeyDisabled, MarkKeyActive, ResetOutcome, Refresh, applySpendLimit, admin writes | relays, probes and admins on one key; row and cache written in two steps; crashes |
| Selection and failover | `selector/selector.go`, `handler/chat.go` | routes, exclusions, retry counter | GetRoutes, SelectKey, RetryLoop, handleRelay | stale route entries, bounded retries, terminal status |
| Health checker | `health/checker.go` | loop generations, latch, probe times | Start, Stop, Disable, Restart, checkAll, checkKey | concurrent restarts, shutdown, billable probes |
| Probe classification | `health/checker.go`, `health/bodyclassify.go` | none | classify status code and error body | word lists |
| Rate windows | `window/window.go` | ring of buckets per key and window | Add, Count, Reset, Export, Restore, Prune, Save, Load | clock steps, restore after downtime, concurrent adds |
| Billing | `billing/billing.go`, pricing in `handler/admin.go` | pricing rules, each process's cached prices, consumption rows by key, hour and model | resolvePricing, RecordConsumption, loadPricing, the pricing handlers | lookups that fail, a stale cache, rules changing under a request |
| Stream conversion | `relay/relay.go`, `format/format.go`, `format/responses.go` | one upstream stream, its converter, what was seen of it | StreamResponse, the converters' Convert and CloseStream | event order, open blocks, tool calls by index or id, who writes the end, usage after the end |
| Request and body conversion | `format/format.go`, `format/responses.go`, `relay/relay.go` | none; the client resends the transcript | ForwardRequest, six request and five answer converters, tool choices | merged turns, tool calls and results regrouped, a conversation answered by providers of different formats |
| Admin API | `handler/admin.go`, `web/src/api/routeOrder.ts` | routes, groups, providers, the route order version, settings | CRUD, reorder, settings, restart, update | versions drawn by several tabs, one statement at a time, cascades, refresh |
| Event hub | `events/events.go` | subscribers | Subscribe, Publish | slow subscribers |
| Server life cycle | `main.go`, `server/server.go`, `middleware/shutdown.go`, `update/relaunch.go` | stopping flag, requests in flight, windows.json and its temporary file | start, prune, persist, shutdown, drain, restart | order of stop, save and exit; crashes; two processes on one file |
| Database | `db/db.go` | schema, settings, markers of migrations, seed data | migrations, seed | exactly-once migrations, two processes, crashes |
| Updates | `update/*.go` | downloaded files | Check, Apply, swap scripts, relaunch | file replacement |
| Data directory | `datadir*.go` | directory choice, legacy copy | resolve, migrate | file system |
| Platform shell | tray, autostart, window code | - | - | operating system calls |
| Web UI | `web/` | browser state | - | separate program |

How they interact: a request handler asks the engine for a route and a key
(memory only), calls the upstream, then reports the observation to the key's
status machine, bills it, adds to its windows and its lifetime spend. The health
checker reads rows and reports probes to the same status machine. Admin handlers
write rows directly, then clear streaks and latches, then refresh the engine's
cache. A status change calls back into the event hub. At shutdown the server
stops accepting, the persister stops, the checker is disabled, in-flight requests
drain and the windows are saved.

## 2. Modules

### KeyStatus - one key, all the goroutines that work on it

`KeyStatus.tla` keeps the row (`row`), the engine's cached copy (`mem`), the
streaks (`outcome`), the key's mutex (`lock`) and, per goroutine, where it is
(`pc`) and its locals (`job`). One SQL UPDATE is one step, the cache write that
follows it another: `CoolRow`/`CoolCache`, `RelabelRow`/`RelabelCache`,
`DisableRow`/`DisableCache`, `ReadmitRow`/`ReadmitCache`. Admin handlers
(`UpdateKey`, `ResetKeySpend`, `CreateKey`, `DeleteKey`) write the row without
the mutex, then `ResetOutcome` takes it, then `Refresh` reloads the cache, as in
the code. `AddSpend`, `ReloadSpend`, `DisableCapped` are applySpendLimit.
`DbError` lets a status UPDATE fail, `Restart` kills the process and reloads.
The two cache writes that follow a cooling UPDATE (status, then reason) are one
step: selection never reads the reason. `Refresh` holds the engine's lock while
it reads, so it is one step too; a failing Refresh is not modelled.

History variables (`lastTwo`, `sinceEdit`, `edits`) record what was
observed; no action reads them.

`KeyLifecycle.tla` is the abstract specification: which automatic changes of a
row may happen and on which two observations each rests. `ImplementsLifecycle`
says that KeyStatus implements it.

### HealthChecker - loop generations and one key's probes

`HealthChecker.tla` models `Checker`: `running`, `disabled`, `stoppingDone`,
`activeLoops` and, for every generation ever launched, where its goroutine is and
whether its stop channel is closed. main starts the checker and disables it at
the end. A settings handler saves the interval (`UpdateSettings`) and, if the
request's other settings could be saved too, spawns Restart and answers "ok"
(`Answer`); otherwise it answers an error and restarts nothing. `Launch` reads the
saved interval or, because GetSetting hides a failing query, keeps the last one
(`Interval`). A saved interval is represented by the number of the save. History:
`asked`, the newest save whose request was told "ok", and `read`, whether the last
launch could read the setting. A pass reads the key's row (`kind`),
reads it again, looks at the latch, probes and reports; traffic and admins change
the row at any time. main's status callback forgives the failed probes of a key
that observations made active (`Forgiven`); `ResetKeySpend` writes the row past it.

### RelayLoop - requests of one model group

`RelayLoop.tla` models handleRelay around RetryLoop and SelectKey, for any number
of concurrent requests. `pc` is the request's place (select, scan, nokey,
forward, sent, stream, settle, spend, done), `job` the locals of handleRelay's
loop, `scan` those of the RetryLoop call in progress: the tier's remaining
routes, the weighted order (any order: each has a positive probability), the
position, which of the two passes it is in. Every key and route examined is a step of
its own, so keys cool, windows slide and admins edit the group in between. A key
is reduced to its availability (`up`) and its request window (`usage`; one window
stands for all of a key's). Refresh replaces the key objects: a selection that
began before it goes on reading the old ones, which nobody updates any more
(`scan.frozen`).

Upstream answers are a status and what the body turns out to be; each class of
answer handleRelay tells apart is one action (`KeyFault`, `PassError`,
`EmptyAnswer`, `Complete`, `BeginStream`, ...). RecordResult is one step here, its
interleavings being KeyStatus's subject; a failed key that KeyStatus would let
stay in rotation is cooled and readmitted here. Requests refused before the loop
(unreadable body, unknown model) and ForwardRequest's second tries with
another wire format are left out. Priorities are natural numbers: only their
order matters.

History variables: `trace` (contacts, the last fault, the keys seen failing and
not re-admitted since), `sight` (the keys up at some moment of the running
selection, and whether anything it reads has changed) and `stayed` (the keys usable
ever since that selection began, on routes of the table it began with that can
serve the request).

### SlidingWindow - one rate window across restarts

`SlidingWindow.tla` models one window of one key: the ring, its head and the time
of its last rotation. A Go time carries two readings. `now` is the monotonic one,
`skew` how far the wall clock has moved against it (set by hand, by a time server,
or because the monotonic clock stands still while the machine sleeps). `Elapsed`
subtracts as `time.Sub` does; `Later` adds as `time.Add` does; `Export` drops the
monotonic reading, as UnixNano does, so the first rotations after a restart go by
the wall clock. Tokens and costs rotate like requests: a bucket is the set of the
hits recorded in it. `Save` is the persister's or the shutdown's, `Stop` an exit or
a crash. History: when each hit was recorded, what was dropped by a deletion or a
crash, and how far the wall clock has moved ahead and back in all.

### StreamRelay and the converters - one streamed answer

`AnthropicStream.tla`, `OpenAIStream.tla` and `ResponsesStream.tla` are the three
stateful converters of `format/`: a converter is a record, each of its methods an
operator from record to record, and `out` all it has returned. A fragment of text,
reasoning or tool arguments is the stamp `<<frame, place>>` of where it was said,
so that loss, duplication and reordering show. One sequence of blocks (Anthropic)
or items (Responses) stands for the flags, maps and buffers of the code; a block
is held, open or dropped. Places count from 1 where the code counts from 0.

`StreamRelay.tla` is StreamResponse: `Frame` reads one SSE frame, notes what it
says (`saw`), takes its usage and converts it; `EndOfStream` is the clean end with
the ends the relay adds, `Broken` a lost connection or an oversized or unfinished
frame, `ClientGone` a failing write, `JsonBody` an upstream that ignored
stream:true. (`Loop.tla` holds the loop the converters share.) The upstream sends any frames in any order, but for what its protocol
promises (`Follows`): nothing after its last frame; an Anthropic server numbers
its blocks and keeps deltas between start and stop; a chat server reports usage
once, on its finish chunk or on a chunk without choices after it. SSE comments and
frames without data are only forwarded, and left out.

`StreamClients.tla` states the properties over what the client received, what the
upstream said and what the relay's caller is told. `FrameAssumption` and
`BodyAssumption` say what kinds of frames and bodies upstreams send: anything may be
malformed; the rest are chat chunks or Anthropic events, each of its fields free.

### Lifecycle - the processes of one installation

`Lifecycle.tla` models main from the restore of the windows to the last save. A
process has two goroutines that touch windows.json, `<<p, "main">>` and
`<<p, "saver">>`; both prune (`List`, `Prune`) and save (`Export`, `Fill`,
`Rename`) through one temporary file, so these are steps of a goroutine. `Load` reads the
file or fails, and main goes on with empty windows then (window.go:483-490,
main.go:104-106); the history variable `unread` keeps what was in the file. `Quit`
is BeginShutdown, `Join` the wait for the persister, `Drain` the end of
Server.Shutdown. Of a window only its hits matter, a relayed request is its hit,
and an event stream is a request that ends only when it is told to. Keys are rows
whose ids are never used again (AUTOINCREMENT). `Restart` schedules the helper,
`Relaunch` is its success and `Abandon` its giving up; `Crash` ends a process
anywhere, and a full disk ends a save (`Fill`). Processes are numbered in the
order they are started. `Together` says whether a process may be started while
another one runs. DeleteKey's two writes are one step: between them only hits of
the deleted key differ. The hard exit of a POSIX update is not modelled; it is a
crash as far as windows.json is concerned.

### Bodies and Dialogue - a conversation across formats

`Bodies.tla` has the stateless converters of request and answer bodies: a body is a
sequence of messages, a message a role and a sequence of parts. `Dialogue.tla` is
the conversation they serve. The client keeps the transcript in its own format and
resends it (`Speak`, `ReturnResults`, `Instruct`); `Forward` converts it for
whichever provider selection or failover picked, `Fallback` is the second try on
chat completions of an upstream without /v1/responses, `Reply` converts the answer.
A part is the stamp `<<turn, place>>` of where it was said. A part that exists in
one format only is "odd", the empty text that converters pad with is "blank", a
"refusal" is what a model of OpenAI's says instead of a text. An Anthropic client may
keep an answer of texts alone as one string (`plain`).
Only the kinds, roles, order and identity of parts are kept; the scalars a
converter copies are not.

### Routes - the admin's route table and the engine's copy

`Routes.tla` has browser tabs, the reorder handler, any number of editing handlers
and the engine. A tab draws a version (`Save`, nextRouteOrderVersion) and sends an
order; `net` is all the orders ever sent, each of which may arrive late, again or
never. ReorderRoutes is `Refuse` (409) or `Accept`, a `WriteRank` per route,
`Commit` or `Rollback`; SQLite has one connection, so nothing else runs while a
transaction is open, and single statements of handlers interleave between
transactions: `UpdateRoute` reads a row, three checks later `SaveRow` writes it
whole. `DeleteRoute`, `DeleteModelGroup` and `DeleteProvider` cascade. Each then
refreshes: `Lock`, one query a step, `Publish`. UpdateRoute's and CreateRoute's
checks are the same actions. History: `latest`, `applied`, `touched`, `gone` and a
job's `victims`.

### Ledger - migrations, prices and consumption rows

`Ledger.tla` runs db.Init's migrations step by step, in any number of processes
started on one database; a failing statement or a kill ends the process anywhere
(`Fail`). The database starts as any older build left it: with prices per 1K or per
1M, cached tokens folded in or not, recorded by upstream model or by the model
asked for. A serving process looks prices up (`LookupExact`, `LookupWildcard`, each
of which may fail), records (`RecordConsumption`), edits rules and reloads its
cached prices from two goroutines (`LoadPricing`, `InstallPricing`). A request has
one cached and one uncached input token, so a fold done twice or never shows in the
sum. History: `said`, `held`, and a request's `free`.

## 3. Runs

| Run | Shows | Bounds |
|---|---|---|
| `key_status` | the cache agrees with the row whenever nobody owes it an update; every automatic change is one of the life cycle | 2 goroutines, a permanent and a transient fault, cooldowns 1-2, clock to 2, budget 0 or 1, six admin edits, failing UPDATEs, crashes |
| `key_status_live` | a capped key leaves the rotation; an admin edit gets through; a failure that was dealt with has left the key out of rotation; all with empty-answer detection | 2 goroutines, threshold 2, window 1, clock to 2, with fairness |
| `health_checker` | one loop at most, none after Disable, no lost restart, a loop that stays uses the interval that was answered "ok" if it could read it, due keys are probed | main and 2 handlers, 2 saves, failing saves and reads, latch at 1 |
| `relay_loop` | failover never returns to a key it saw fail, attempts are paid by contacts, selection finds the documented best and never gives up while a key that can serve stays usable, terminal errors are true, requests end | 1 request, 3 routes in 2 tiers sharing an eager and a lazy key, 2 attempts, every answer, edits at any moment |
| `relay_pair` | a limit is overshot by at most the other requests in flight; stale route entries yield no key that was not available | 2 requests, a key limited to 2 and an unlimited one, 1 attempt |
| `windows` | a hit counts for N - 1 buckets and for no more than N, but for what the wall clock moved, across saves, crashes and restarts | 3 buckets of 2 ticks, 2 hits, 8 ticks, the wall clock moves 3 in all |
| `streams` | the client's protocol is kept at every moment, for each of the three client formats; what was said arrives whole and in order, each tool call with its own arguments; one end and no false one; tokens billed are tokens told; an answer counted as empty said nothing | all 7 routes; 4 chat frames of 20, 7 Anthropic frames of 25, 4 native frames of 8, 12 JSON bodies |
| `streams_null_usage` | a null usage ends the message early (section 6) | 3 chat frames |
| `lifecycle` | windows.json is never half written, what was saved stays and a graceful exit loses no hit (but for what a process could not read), shutdown ends, a restart comes back | 2 processes one after the other, 2 relays, 1 event stream, a key that is created and deleted, crashes, full disks, failing key queries and reads of the file |
| `dialogue` | every converted request is one its upstream accepts, whatever mix of providers answered before; everything said is heard, in order, in the right mouth, with its tool results and choice; section 6 has the exceptions | 5 turns, 3 client formats, 2 prompts, 2 tool outputs, 5 chat and 9 block answers, refusals, plain strings |
| `routes` | no order comes back or is half applied; an up-to-date tab is never refused; no answered delete is routed to | 2 tabs with an order each and clocks that tie, 2 handlers and 2 edits, 3 route ids, 2 providers, one group |
| `ledger` | once a process serves every request is recorded once under the model asked for with its tokens counted once, and every price is one that was set; no failed lookup makes a request cheaper | 2 processes, 3 slots of 2 providers and a deleted key, 3 routes, one request, one price edit |

Why these bounds are enough: the locks serialise goroutines in pairs, so two
goroutines show every order of two critical sections, with the clock ticking and
an admin or a crash between any two of their steps. Streaks count to 2, and the
counters stop where the code stops comparing them. `MaxNow` and `MaxSpent` are
the only bounds in KeyStatus's guards, `MaxSaves` the only one in HealthChecker's.
Type invariants are proved (section 5), not run, in the modules with proofs.

One request against changing surroundings covers failover: other requests act on
it only through `up`, `usage` and `empties`, which the surroundings change freely.
Three routes give a shared tier and a fallback, two attempts the reuse of a
failed key and of an earlier status. The overshoot needs a second request; two
contend for the last slot of a limit of 2, and the theorem covers the rest.
`MaxRetries` is a constant of the code; `RelayLoop` has no bound in its guards:
attempts end, and a window is bounded by its limit and the requests.

Three buckets are the fewest with a first, a middle and a last one; 8 ticks let a
whole window and more elapse, and 3 is more than a bucket and less than a window,
so a clock step can move a hit by a bucket either way. `MaxTime` and `MaxMove`
are SlidingWindow's bounds in guards; the theorems have none.

Four chat frames hold a late id or name, another tool or text that must wait, the
finish chunk and the usage chunk; a frame may itself carry reasoning, text and a
tool, or two tools. Seven Anthropic frames are a message with one whole block and
the start of another, or two blocks with no end. `MaxFrames` is StreamRelay's only
bound. A finished stream stops, so the run does not look for deadlock.

Two processes are a predecessor and its successor; hits matter one by one, so two
show one saved and one not. One key goes through all a key can: not there when a
list is read, then there, then deleted. `Processes` is Lifecycle's only bound;
when both processes have ended nothing is left to do, so deadlock is not looked for.

Five turns are an answer with calls, their results, a second answer by another
provider, a user turn and the request that carries it all: every converter is
applied to what every other one made. `MaxTurns` is Dialogue's only bound, and a
finished conversation stops, so the run does not look for deadlock.

Two tabs tie their timestamps until one has seen the other's, one order of each is
sent and may arrive twice; two handlers put a refresh of one between the delete and
the refresh of another. `Clock`, `MaxOrders` and `MaxEdits` bound Routes (`Horizon`
is the code's); the theorems hold for all their values.

Two processes run any two migrations against each other. The slots are the three
cases of a row (a provider whose usage leaves cached tokens out, another, a deleted
key); a target that is also a live group's id, and a name that two groups share,
are the cases the remapping tells apart. `MaxRequests` and `MaxEdits` bound Ledger:
one edit falls between any two steps of the one request.

Each property has a mutant (definitions named `..Broken`): a plausible slip in
one definition under which TLC finds the property violated.

## 4. Fairness

KeyStatus: a goroutine that can run runs (weak fairness), and a waiter on the
key's mutex gets it if it is free again and again (strong fairness; Go's mutex
hands over to a starving waiter after 1 ms). HealthChecker: goroutines run, the
ticker ticks, a probe answers or times out after ten seconds, and a `select` that
is offered its stop channel again and again takes it. RelayLoop: a request's
goroutine goes on, and an upstream answers or its client times out, so each
request's own steps are weakly fair; arrivals, disconnects, admins and the other
traffic are not. Lifecycle: main and the persister go on, a `select` that is
offered stopPersist again and again takes it, a scheduled restart closes the
window, event streams see the shutdown signal, and a relay in flight ends: the
drain has no deadline, and server.go (112-116) accepts that a request that never
ends blocks it. That a crash, a tick or the user closing the window happens is
not assumed. Nothing forces requests,
admins, failures or crashes to happen.

## 5. Proofs

`KeyStatusProofs.tla`, for any number of goroutines, any faults, edits, budgets
and bounds:

* `TypeCorrect`: the type invariant.
* `LockHeld`: a goroutine is inside the status writes exactly when it holds the
  key's lock.
* `CoherenceAtRest`: at rest the cache agrees with the row. The invariant is
  `CacheInv`: a goroutine about to write the cache writes what the row says,
  unless an admin has written the row since (`Blocked`) - and that admin has not
  yet passed the lock, so its Refresh comes later. It is needed because between
  the two writes cache and row do disagree.
* `LifecycleImplemented`: every step refines `KeyLifecycle`, shown write by write.
  The abstract guards are what the goroutine saw some steps earlier; `WarrantInv`
  says that what it saw still warrants its write, so each UPDATE maps to one
  abstract step and everything else to a stutter.
* `FailureTakesOut`, for the constants of its run, where UPDATEs succeed and nothing
  crashes (a failed UPDATE changes nothing, so without the premise the key stays in
  rotation until its next failure). The invariant `PassedOver` says that a goroutine
  at the last statement of its locked section finds the key out (`AlreadyOut`): all
  others who could put it back need the lock (`HolderSees`), and an admin, who does
  not, is exempt while it edits (`Blocked`).

`HealthCheckerProofs.tla`, for any number of handlers and restarts: type
correctness, `OneLoopAlways`, `QuietAlways`, `FreshAlways` (any saves and reads may
fail; `SaveInv`: no request claims a save that was not made). The invariant is
`LoopInv`: every generation but the last is gone, because `stoppingDone` keeps
naming a stopped last generation until it is gone; `DisableInv` adds what holds
after Disable.

`RelayLoopProofs.tla`, for any number of requests, keys, routes, limits and retry
settings:

* `RelayTypeCorrect`: types, a request holding a key holds one of its route's
  provider, and selection never runs off its list of routes (`TierNonEmpty`:
  a set of routes always has a first tier).
* `OvershootAlwaysBounded`: the invariant `Booked` adds the requests in flight
  with a key (`InFlight`) to its count: picking needs a count below the limit,
  counting takes the request out of flight.
* `FailoverNeverRepeats`: the invariant `Clean` says that neither the engine nor
  the key objects a running selection reads hold a key the request saw fail.
* `PickAlwaysAvailable`: `Seen` says that a running selection reads only keys
  that were available since it began; `FreshOutside` that a selection starts on
  the engine's objects.
* `EveryAttemptPaid`, `AnswerTellsLast`: `Accounts` says, for
  each place in the retry loop, how contacts made and attempts spent compare there
  (`Paid`), which outcome a request carries to that place (`Claim`) and that it is
  the one it met last (`Told`).
* `SelectionIsBest`: `Tracking` says what a selection that saw nothing change has
  found out: routes it has passed serve nothing, the routes at hand are of one
  priority and those still to come of later ones, and hot routes come first. The
  lemma `LeastNonEmpty` finds the first tier that can serve.
* `StayedAlwaysFound`: whatever changes while a selection runs, it does not give up
  while a key stays usable. `Promised` says that such a key is in the key objects the
  selection reads, swapped or not, and `Ahead` of it: on a route to come, or on one of
  this tier if the second pass is still to come; `NextRouteAhead` that leaving a route
  that does not have it keeps it ahead, `SelectKeyFinds` that a route that has it is
  not left. `Barred` says that only routes that cannot serve the request are excluded.

Every action of a request is shown to be a walk of its selection (`Walks`) or the
handling of an outcome (`Handles`); the invariants need no more than that.

`SlidingWindowProofs.tla`, for rings of any size, any hits, clocks and restarts:
`WindowTypeCorrect`, `LimitEnforced`, `LimitReleased`. The invariant `Sound`
relates a bucket's place in the ring to the age of its hits: the time since the
last rotation plus the bucket's lag behind the head is the age, up to one bucket
and what the wall clock moved, on whichever clock the window goes by. `RotateRing`
is the arithmetic modulo N, `AdvanceSound` carries `Sound` through advance() and
shows that what it drops is old.

`LifecycleProofs.tla`, for any number of processes, requests and keys, provided no
process is started while another runs (`~Together`; section 6 says why): `LifecycleTypeCorrect`, `FileAlwaysWhole`,
`SavedAlwaysStays`, `ExitAlwaysKeepsAll`. `OneProcess` says that one process runs
or is awaited, `Places` that the persister lives between main's two savings, so
that one goroutine at a time prunes or saves (`Exclusive`). What was in the file when
a process failed to read it (`unread`) is outside the last two. `KeptSaved` follows a
saved hit through every place the next file may come from (the memory, the keys a
pruning has listed, the export under way), `KeptAll` a counted one. Steps that
leave the hits alone share `StoredKept`.

`RoutesProofs.tla`, for any tabs, clocks, handlers, tables and numbers of orders and
edits: `TypesAlways`, `OrdersAdvanceAlways`, `RefusedUnseenAlways`,
`OrderWholeAlways`, `EditsShownAlways`.
* `Versions` carries the first: a tab's orders have timestamps in the order of their
  sequence numbers (`Sent`), the open transaction's order is still newer than the
  stored version, and the stored version is the latest of all committed (`Past`),
  each an order of its tab, perhaps with its timestamp raised. Two orders of one tab
  are compared through it even after another tab has overwritten the first.
* `Ahead`: a tab's timestamp is above every version it had seen.
* `Written`: the transaction has written all it does not have to write any more.
* `Shown`: the engine's lock is held by the handler that reads (`OneReader`); what a
  reader has read is what the tables say unless some handler has still to refresh
  (`UpToDate`); deleted routes are in nobody's hands (`Buried`, `Caught`). One lemma
  (`EditEffect`) says what any statement of an editing handler may do, and the
  invariant needs no more of them.

`LedgerProofs.tla`, for any processes, slots, routes, names and prices:
`LedgerExactAlways`, `NeverUnderbilledAlways`.
* `Stage`: what the steps of Init before the one a process is at have left behind, as
  no process takes back what another's migration did (`Lasting`).
* `Book`: every price, in the table, in a cache or on its way there, is one the rule
  was given; `Requests`: one that falls back to the wildcard lost its rule (`Fair`).
* `Kept`: cached tokens are folded in exactly when the flag says so, in the open
  transaction too (`Counted`). Without the marker a slot still has the one row an
  older build left, under a name that is right or that the transaction has still to
  change (`Unmarked`, by `RemapLone`). With it, rows are by the model asked for and a
  process that checked too early finds nothing left to rename (`Marked`, by
  `RemapSettled`).

`StreamProofs.tla`, for any chunks and bodies an OpenAI upstream may send, any events
an Anthropic one may send in its order, any Responses frames, and answers of any
length: `AnthropicProtocol`, `OpenAIProtocol` and, both together, `MessagesProtocol`;
for all seven routes `AnswersEnd` (`EndsOnce`) and `EmptyAnswers` (`EmptyIsEmpty`).
`StreamStates.tla` defines what these proofs speak of: the types of the converters'
records, what a client has received so far, and the inductive invariants.
* The converters fold over the fragments of a chunk and flatten the events of all
  blocks. The library's induction theorems cannot be used, so `Upwards` counts up to
  n by the well-foundedness of `<`, and from it follow what these proofs need of the
  folds: an invariant of every step is one of the fold (`FoldedStays`), FlattenSeq
  concatenates (`Flattening`), a loop that emits emits the concatenation
  (`EmittedAll`).
* Anthropic clients: a converter is silent, talking, stopped (it has its finish
  reason and waits for the usage chunk) or over, and every frame leads from one of
  these to one of these (`ConvertOrders`). While it talks, exactly its open blocks have
  started, in their order, and deltas belong to started ones (`BlockOrder`); those
  that have stopped have stopped once (`StopOrder`); blocks after a held one are held
  (`HoldOrder`). The last is what makes the order true: a block that waits for its
  name holds back all later ones, so that letting them go at once
  (flushAllPendingStarts) starts them in order. `Fine` is what is then true of all
  the client received.
* OpenAI clients: every tool with an index was announced with it, and once a finish
  chunk is out the upstream has sent its message_delta (`Speaking`), after which an
  Anthropic server says nothing of blocks (`AnthropicOrder`). Without that promise the
  theorem is false: the converter itself does not look.
* A JSON body is proved apart: its events are all written at once
  (`AnthropicBodyFine`, `CompletionFine`).

* Ends (`EndsInv`): what a client has received is ongoing, complete (one end, last, and
  no error) or failing (an error and no end), and which of these it may be follows from
  the converter's flags and from what the relay has seen (`AnthropicEnds`, `OpenAIEnds`,
  `NativeEnds`, `ResponsesEnds`). finishStream writes an end exactly when the flags say
  that none has come, so the ends of the converter and of the relay never add up to two.
  Upstreams are assumed not to send `"error": null` in a chat frame
  (`NoNullErrors`): the converters take it for an error and the relay does not
  (section 6), and then `EndsOnce` is false. The run's frames have none either.
* Responses clients: a converter is fresh, talking, completed or failed (`RState`), and
  all it says while it talks belongs to a set of events E (`RTalk`): framing only
  (`Mute`) until content has come, deltas as well (`Loud`) from then on. The same
  lemmas, with both sets, give the ends and the empty answers.
* Empty answers (`EmptyInv`): as long as the relay has noted no content, an Anthropic
  converter has no block at all (`Quiet`), an OpenAI one has sent no chunk with content
  (`Void`), a Responses one is mute, and what was forwarded is hollow. It needs no
  premise about errors.

Only model-checked: the order of what Responses clients receive
(`ResponsesOrderKept`) and `NothingLost`, which select subsequences with SelectSeq, a
recursive definition of the standard modules the prover cannot expand; `UsageTold`;
the dialogue (its converters are folds whose results need induction over data); and
everything under fairness (liveness and ENABLED are beyond the prover).

The proofs rest on the named assumptions of the constants only (`..Assumption`).

## 6. Disagreements between code and comments

Shown by a run:

* `streams_null_usage`: a finish chunk with `"usage": null`, which OpenAI sends when
  asked for usage, ends the Anthropic message with 0 output tokens; the usage chunk
  that follows is billed but not told.

Seen while modelling; the properties named leave them out:

* A key that a spend reset makes active again keeps its failure latch and is never
  probed again (checker.go:341, admin.go:1640-1656; checker.go:28-31 and
  main.go:92-95 have the latch forgiven on re-activation). `DueKeyIsProbed` asks for
  an open latch.
* A second process loads windows.json and starts its persister before it finds the
  port taken, or while the first still drains (main.go:142); both then save to one
  file through one temporary file, and saved hits disappear. `~Together` is an
  assumption of Lifecycle's theorems and of its run.
* A settings request that saves the interval and then fails on another setting
  answers 500 and does not restart the checker (admin.go:1390-1405): the interval is
  saved, GetSettings shows it, and no loop uses it until some later restart.
  `FreshInterval` and `SettingTakesEffect` are about requests answered "ok".
* GetSetting hides a failing query (db.go:547), so a restarted loop may go on with the
  interval of the one before (checker.go:100-106). The same properties ask only for
  loops that could read the setting.
* A windows.json that exists and cannot be read is reported by LoadFromFile
  (window.go:483-490), main logs it and goes on with empty windows (main.go:104-106),
  and the next save replaces the file: the hits in it are lost. `SavedStays` and
  `ExitKeepsAll` leave out what could not be read (`unread`).
* handleRelay tells "no route can serve this request" from "all keys exhausted" by
  comparing the number of routes excluded with the number of routes there are
  (chat.go:188-189). An edit between the two reads skews it: with one unable route
  excluded and then replaced by another, untried, route the client is told 400
  instead of 429, though the comment (chat.go:190-191) says every route was
  unsupported. No property is about this answer.
* An assistant message whose content is a plain string, which Anthropic's format
  allows, becomes a chat message without content (format.go:2168-2171): the text is
  lost, and a chat upstream may refuse the request. `ConvertAnthropicAssistantMessage`
  does the same; `NothingLost` and `UpstreamAccepts` exempt exactly these messages.
* Refusals that a client sends back with the conversation are dropped when its request
  is converted (convertOpenAIAssistantMessage, responsesAssistantContent,
  responsesInputItemToChat): the next model does not learn that an answer was refused.
  `NothingLost` asks only for the rest (`Audible`). On the way to the client a
  refusal is kept: as a refusal, or as a text for an Anthropic client.
* applySpendLimit decides on a reloaded row and takes the key's lock later
  (chat.go:821-831): a key whose spend was reset in between is disabled all the same.
  `ImplementsLifecycle` and `CappedKeyTakenOut` allow it.
* A key that a spend reset or a status edit makes active keeps its cooldown time, and
  failures with a shorter cooldown then do not cool it (`FailureLeavesRotation`
  exempts it), though selector.go:430-432 says a failed key is immediately cooled.
* A body that cannot be converted for the route's provider costs an attempt and cools
  the key (`AttemptsPaid` exempts it), though chat.go:180-181 has attempts consumed
  by upstream failures only.
* A Responses client that sends back an answer with a message or reasoning between
  its calls makes a chat request whose first calls are not answered by the messages
  that follow them (responses.go:66-95), which the comment at 126-130 says upstreams
  reject. `UpstreamAccepts` exempts `Interrupted` answers.
* An Anthropic user message of nothing but parts that chat cannot express becomes one
  without content. `UpstreamAccepts` exempts it.
* Reasoning that a Responses client sends back reaches only a native upstream.

Behaviours that no document speaks about:

* UpdateRoute saves the whole row it has read: it takes back the priority that a
  reorder gave the route in between, and inserts a route again that was deleted in
  between (admin.go:1104). `OrderWhole` leaves out routes written since the order, and
  `EditsShown` a route that was saved again.
* Two CreateRoute calls may both find no duplicate and insert one each (admin.go:1014).
* UpdateKey writes the row without the key's lock (admin.go:717): a failure observed
  in between may be overwritten or overwrite.
* A crash between the spend increment and the disabling of a capped key leaves it
  active until its next success (chat.go:831).
* When the exact rule is absent and the wildcard's lookup fails while the cache is
  empty, a request costs nothing (billing.go:161-171); two concurrent loads of the
  prices may install the older one last (billing.go:39-48). `NeverUnderbilled` is
  about requests whose model has a rule.
* Both stream converters take any "error" key, null too, for an error and end the
  stream (format.go:757), the relay's detection does not.
* An admin who creates a group named like an upstream model while a second process
  stands between the marker's check and the remapping has its rows renamed. In Ledger
  groups are fixed.

## 7. Plan

Done, in this order: the key status machine (with its abstract life cycle), the
health checker, the relay loop, the rate windows, the stream converters composed
with StreamResponse, the life cycle of the processes, the body converters composed
into a dialogue, the admin's routes with the engine's refresh, migrations and
billing. All but the dialogue have proofs; of the streams, the order of Responses
events, the completeness of what was said and the usage told are model-checked only.

Next: the order of keys within a provider (the routes' scheme without versions); a
failing Refresh.

## 8. Not modelled

* Event hub (`events/`): bounded queues that drop when full; nothing but a browser's
  refresh depends on them.
* Updates (`update/`): download, unpacking and file replacement by scripts of the
  operating system. The relaunch helper's wait is in Lifecycle.
* Probe classification (`health/bodyclassify.go`): word lists and tokenising, pure
  functions of text. HealthChecker takes any classification.
* Data directory, platform shell (tray, autostart, windows): file system checks and
  operating system calls.
* Router and access middleware: a static table and stateless checks of one request.
* Web UI: a separate program; what its tabs send when routes are dragged is in Routes.
* Of the Admin API: creating and updating providers, groups and settings (single
  writes followed by the modelled Refresh), key order, statistics, logs, activity,
  autostart.
* Everywhere: HTTP and JSON details, provider authentication, the database engine,
  logging and wording.
