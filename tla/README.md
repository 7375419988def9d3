# A verification of tickcorn

tickcorn collects the five-level tick stream of Chinese futures exchanges over
the CTP market data API, archives it as parquet, classifies every quote change
and shows the result live in the browser. This directory models the parts of
that system whose correctness depends on the *order* of things (file operations
against crashes, coroutines against each other, bounded queues against slow
readers) and the two places where the same thing is computed twice, live and for
a report. It holds TLA+ modules, TLC configurations that check them on small
instances, and proofs checked by TLAPS. `PROJECT.json` is the machine-readable
index: which definition stands for which lines, which run checks what, which
deliberate mutation of the model each property catches, the hazards of the code
and the theorems. Paths below are relative to `src/` of the repository's copy
(so `src/app/...` is `src/src/app/...` in `PROJECT.json`).

## 1. The system

    CTP front --(C++ threads)--> md_shim / ctp_binding --> gateway process
        gateway process:  inbox -> drain task -> normalizer -> publisher -> unix socket
                                             \-> archiver  -> raw parquet store
                                                           \-> PostgreSQL / TimescaleDB
    unix socket --> API process: ingest client -> event bus -> analysis, WS hubs -> browsers
    API process --(control frames)--> gateway process
    legacy: collector process -> raw parquet store;  dashboard -> collector, reports
    ops/monitor: polls the API, sends reports

### Inventory

| Part | State it keeps | Operations | What is hard, and what makes it correct |
|---|---|---|---|
| raw parquet store (`storage/parquet_store.py`) | per partition `_staging/part-*.parquet`, `snapshots.parquet`, `snapshots-<digest>.parquet` | write_staging_part, finalize, list, read | Crash or error between any two file operations, a writer beside a finalize. *An acknowledged row stays on disk; final files are immutable; repeated publication is idempotent.* |
| archiver (`gateway/archiver.py`) | batch, row buffers, part counters, active partitions, an asyncio lock | begin_batch, add_row, flush, finalize, prepare | Flush in a worker thread while rows arrive, partial failure, restart. *Rows are stored once, in order; nothing is forgotten.* |
| gateway runtime (`gateway/process.py`) | connection state, credentials, instruments, client, batch, inbox | connect, disconnect, subscribe, unsubscribe, shutdown; eight CTP events; main loop | Awaits inside commands, several control connections, reconnections, shutdown. *One api, owned; status is true; stop loses nothing.* |
| publisher (`gateway/publisher.py`) | clients with bounded queues, closing flag | broadcast, control dispatch, drop | A client that is cut in the middle of its command. *Commands end; order of frames.* |
| native binding (`gateway/native`) | one process-wide `g_api`, one callback | create, release, login, subscribe | Threads of the library, a callback registered before creation may fail. *Nobody calls into a dead object.* |
| ingest client (`ingest/client.py`, `protocol.py`) | socket, pending acks by ref, latest status | send_control, read loop, reconnect | Timeout of a command that is still running, disconnection with commands pending. *Every caller gets one answer, the right one.* |
| event bus (`ingest/bus.py`) | subscriptions with bounded queues | subscribe, publish | Overflow. *Order; counted losses only.* |
| WS hub, endpoint, tickets (`ws/`) | connections with bounded queues, tickets | register, route, push, kill, unregister; issue, redeem | Slow browsers, endings from three sides. *No silent gap; dead connections leave; a ticket works once.* |
| realtime analysis (`analysis/realtime.py`) | rolling windows, regime | on_event, metrics | Event time, window edges. *Live metrics and reports count the same moves.* |
| normalizer, classifier, statistics (`core/`) | previous quote per instrument | normalize_row, classify, aggregate | Two implementations of one classification. *They agree; nothing is paired across a boundary.* |
| time-series writer (`storage/timescale.py`) | bounded row buffer, flush task | add, flush, stop | Cancellation during a flush. *Events are stored in order, and none is lost unaccounted for.* |
| authentication (`auth/`, `api/routers/auth.py`, `api/ratelimit.py`) | refresh tokens in families, failure counts | login, refresh, logout | Concurrent refreshes with one cookie. *A family has one live token; reuse ends it.* |
| legacy collector (`legacy/collector`) | queue, buffers, writer thread | callbacks, stop, finalize | Threads, a full queue, a failing writer. *As for the archiver.* |
| legacy dashboard (`legacy/dashboard`) | collector process, report job | start, stop, report | A collection and a report exclude each other. |
| browser client (`frontend/src/ws`, `stores`, `api`) | socket, subscriptions, tokens | connect, close, reconnect, refresh | An awaited ticket across close and connect. *One socket per channel.* |
| ops monitor (`ops/monitor`) | last sent times, test request | tick, deliver | Restart within a minute. *A report is sent once.* |
| API routers, config, CLI, plots, views, deployment | – | – | Stateless, presentational or wiring. |

The full list of hazards, each with its line and the properties that cover it
(or the reason none does yet), is in `PROJECT.json`.

## 2. The modules

| Module | What it is |
|---|---|
| `RawStore` | the raw store, every file operation of `finalize()` a step |
| `RowLog` | abstract specification: what the archiver promises for a row |
| `Archiver` | the archiver on top of `RawStore` (EXTENDS it), implements `RowLog` |
| `GatewayRuntime` | runtime, publisher and binding between control connections, the CTP front and the archiver's lock |
| `WsHub` | event bus, hub and endpoint |
| `LegacyCollector` | the legacy collector's threads on top of `RawStore` (EXTENDS it), with the dashboard's manager and reports |
| `JumpClassifier` | the two classifications of a pair of quotes, as operators |
| `MarketStats` | from stored rows to the counts of a report's tables, as operators (EXTENDS `JumpClassifier`) |
| `LiveMarket` | a snapshot's way through normaliser, realtime metrics and the legacy live state (EXTENDS `MarketStats`) |
| `TimescaleWriter` | the bounded, transactional event writer |
| `MarketPath` | composes `LiveMarket` and `TimescaleWriter`: one gateway, with a database or without |
| `Session` | login throttle, refresh token families, the tabs of a browser |
| `Link` | ingest client, socket and publisher, the control routes, reports beside collections |
| `ApiServer` | composes `Session` and `Link` in one API process |
| `BrowserSocket` | one channel's socket in the browser around the ticket it awaits |
| `WebSockets` | both ends of a channel, `WsHub` and `BrowserSocket` |
| `ApiProcess` | composes `ApiServer` and `WebSockets`: all that the API process serves |
| `RawStore_proofs`, `Archiver_proofs`, `GatewayRuntime_proofs`, `WebSockets_proofs`, `LegacyCollector_proofs`, `MarketStats_proofs`, `MarketPath_proofs`, `ApiServer_proofs` | TLAPS proofs of the module of that name and of those it composes, see section 4 |
| `MC*` | instances for TLC |

### RawStore

A row is its arrival number and a file the sequence of its rows, so the sha256
digest of a file is the file itself. `staging[k][i]`, `base[k]`, `segs[k]` and
`tmp[k]` are the files of partition `k`; `unsynced[k]` the final files whose
directory entry a power loss may still undo. `StartFinalize`, `MergePart`,
`Publish`, `SyncDirectory`, `UnlinkPart` and `EndFinalize` are `finalize()`
(`parquet_store.py:110-164`) with its local variables `flist` (`parts`), `ftodo`
and `ffile`. `FailFinalize` is an exception anywhere in it, `CrashStore` the end
of the process or of the power. One `finalize()` runs at a time: the archiver's
lock arranges that inside the gateway (unless a command is cancelled in the
middle, see section 5) and `collector.lock` between the legacy collector, the
CLI and the reports. Between the gateway (which holds `gateway.lock`) and those
it is an assumption, that one of them is used per data directory. Staging writes
interleave freely. `write_staging_part()` is one step: a part gets its name by
`os.replace` after its content is fsynced, and the directory is fsynced before
it returns (an error between the two is `WriteFailsLate` of the archiver). A
power loss undoes the renames of final files whose directory is not fsynced;
unlinks of parts and the entries `mkdir` makes are taken as durable. `torn`
remembers an interruption whose recovery does not merge exactly the parts it
published: a cleanup cut short between two unlinks, or one cut short before its
first unlink when a part it had not listed was there or is staged before the
recovery. It delimits `RepublishIdempotent`, and the run `raw_store_crash` shows
what happens beyond.

### Archiver and RowLog

`Archiver` adds the event loop's side: `buffers`, `flight` (the worker thread's
`remaining`), `counters`, `active`, and `op`/`step` for the call that holds the
lock. `flush()` is `FlushStart`, a `WritePart` per partition, `FlushEnd`; the
write may be refused, fail before the rename or after it, and `WriteRaises` puts
what is left in front of the newer rows. `finalize()` is `FinalizeStart` (forced
flush), `ListPartitions`, then `RawStore`'s steps for each. An exception leaves
the lock free and no thread at work; a handler cancelled at `archiver.py:194`,
whose thread goes on, is not modelled (section 5). The three callers differ in
what an exception does (`CallRaises`, `PartitionFails`): the main loop ends,
`_stop_stream()` swallows it, `prepare()` and `_shutdown()` end the process.
`begin_batch()` clears what the buffers hold, which matters when the previous
finalize failed. `collector.finalize_on_start` is true (its default).

`RowLog` says what this amounts to: an accepted row is volatile, then durable
for good, or lost, and lost only by the death of the process or by an attempt to
open another session. `RowLogImplemented` is the refinement, with volatile,
durable and lost computed from memory and disk.

### GatewayRuntime

All Python code of the gateway runs on one event loop, so a step is the code
between two awaits that can suspend: `to_thread(release)`, the archiver's lock
and its worker threads. (`broadcast_status` and `broadcast_event` only put into
queues and do not suspend.) `at[a]` says where the call of connection `a`, or of
`_shutdown()` (`"main"`), is suspended. The native side is `api` (the client
whose `md_create` made `g_api`), `link`, `subs`, `reqs`, and `dangling`: the
registered callback belongs to an object nobody keeps; a callback then may work
or end the process, which is the undefined behaviour of the build. The front is
external: it may connect, drop, answer and push whenever its state allows.
`FinalizeStart`/`FinalizeOK`/`FinalizeFails` are the archiver as its lock, its
batch flag and whether rows wait, which `Archiver` details.

The drain task handles an event without suspending and takes the next one from
the inbox at once (`process.py:365-379`), so no other Python code runs between
the first and the last of them: `busy`, and `LoopFree` in every other step of
the event loop. CTP threads go on posting meanwhile.

Three history variables say what the properties have to except. `orphan`: a tick
came when the archiver had no batch. `late`: a `front_connected` was handled
after its session had ended and the next one had begun, so the login went to the
later session, which will get a second one; the answer of the second may then
come in a state that accepts a connect, and ticks with it. `stale`: the state
became "streaming" on a *refused* subscription, because an instrument that
streamed in an earlier session still counts (`_instruments` is not reset when
the front disconnects, `process.py:398-403` and `422-428`). The last two need a
front that reconnects, or refuses, within a few milliseconds, and nothing in the
repository promises otherwise; `RowsHaveBatch` and `StopLeavesNoRows` except
`late`, and the first half of `StreamingIsTrue` excepts `stale`.

Abstracted or left out: simulate mode, the `remember`ed credentials file, status
frames, heartbeat, error and logout events (they change no state), and
`publisher.stop()` (`publisher.py:144-183`), which is part of the last step. Two
assumptions are made explicit in the module: at most one unhandled tick stands
for any number; and when a client is created the inbox holds no event of the
previous one (`md_release` joins the CTP threads, and the drain task needs less
time for what is queued than a connect command takes to arrive). A constructor
that fails while no api is alive leaves everything as it was and is no step
here; the batch it begins and ends is in `Link` (`HandleBadConnect`).

### WsHub

The bus queue and its pump, then per connection its send queue, sender task,
receive loop and closing task. `route()` never suspends, so it reaches all
connections in one step. A frame is a service frame or the number of an event in
publication order. A failed send is taken to mean that the transport is broken,
so that the receive loop is about to end. One instrument stands for all, since
subscriptions only select.

### LegacyCollector

`held` is the tick in the CTP thread's hands, `queue` the bounded queue,
`buffers`, `flight` and `counters` what the writer thread has, and `run` where
the collector thread is in `run()`: preparing (finalizing what a crash left),
collecting, releasing the client, joining the writer, finalizing. `OnDepth`,
`Put` and `GiveUp` are the callback and `_enqueue()`; `WriterGet`, `FlushStart`,
`WritePart`, `FlushEnd` and `FlushFails` the writer; `RunStart` to `FilesDone`
the collector thread with `RawStore`'s `finalize()` steps inside; `StopCollect`,
and `ReportStart` the web requests, each under the manager's lock.
`CollectorManager` lets a report start only when the collector *thread* is gone,
while its `running` turns false as soon as a stop is requested.

`collector.lock` (`ProcessLock`) is not waited for: `run()` takes it in its own
thread after the manager has let it start (`RunLocks`), `run_analysis()` in the
report's (`ReportLocks`), and either fails if it is taken. `AdmittedFindLockFree`
says that the manager's two guards make that impossible. The `finalize` of the
command line (`cli.py:224`), which takes the same lock, is not modelled, nor is a
second process. The end of `run()` frees the lock and ends the thread in one step.

A writer thread that outlived its 60 s goes on beside later runs as the orphan:
`oqueue` is its queue, `owed` the rows it has taken out and not staged, and
`OrphanWrites` stages any prefix of them as the next part, at any moment, by its
own part counter. An index that exists ends it (`OrphanRefused`), as it ends the
writer of the new run (`PartRefused`). It has no fairness, and there is one
orphan at a time: no third writer starts before its rows are staged or given up.
`write_staging_part()` looks for the file and writes it in one step; two writers
between whose look and rename the other's rename falls are not covered.

Left out: the live feed (its records share the queue, and its write errors are
swallowed), the metadata database, the settings.

### JumpClassifier, MarketStats, LiveMarket, TimescaleWriter, MarketPath

A price is an integer number of half ticks (0 stands for no valid price), so
off-grid and crossed quotes exist and the tolerance of the floating point
comparisons is 0. `ClassifyPair` is `classify_pair()`, a ladder of early
returns; `ClassifyArrays` is `classify_arrays()`, overlapping masks with
`np.select`'s priority. Both are written as ladders of rules read by `First`.

`LiveMarket` is what `_process_row()` does to a snapshot: numbering, the micro
event against the previous *clean* quote (`MicroOf`), storage, and
`RealtimeMetrics` (`OnMicro`: label window, one-tick counts, regime, when it is
published). Beside it the legacy live state (`OnLegacyRow`) receives the same
snapshots. `Report` in `MarketStats` is what a report computes from the stored
rows: load order of the final files, consecutive duplicates, stable sort,
unusable rows, segments, labels, and the counts behind each table. An order is a
set of pairs of places (`LoadedBefore`, `SortedBefore`), and the sorted rows are
those with 0, 1, 2 ... rows before them (`Arranged`). The
properties compare the two worlds row by row: `LiveMatchesReport` where two
snapshots came one after the other, `PanelMatchesReport` everywhere, as the
repository promises and the code does not do. Floating point ratios,
significance tests, rolling features and rows without an imbalance (both volumes
zero, `transition.py:150`) are left out.

`TimescaleWriter` has the buffer, the events of a transaction in flight and what
the transactions stored. A flush may commit, fail, or fail behind a COMMIT that
took effect (`doubt`); `stop()` cancels the loop in the middle of a transaction
(`cut`) and flushes once more. In `MarketPath` the events of a row go to the
writer, and `finalize()` stops it when the stream ends; the writer never comes
back for a later batch (`archiver.py:231`), as in the code. An exception
while an event is added, after which the archiver forgets the writer
(`archiver.py:138-142`), is left out.

### Session, Link, ApiServer

In `Session` a step is the code between two awaits, and the awaits of the
database are taken apart as far as its transactions can see each other: the
deployed PostgreSQL runs them under READ COMMITTED. A rotation reads its token
(`RefreshReads`), updates it and inserts the successor in the flush of `commit()`
(`RefreshFlushes`, which waits for a row lock), and commits (`RefreshCommits`). A
reuse begins its UPDATE (`ReuseUpdates`), which finds the live rows that are
committed by then (`Found`), and commits when the locked ones among them are free
(`ReuseCommits`). Login checks the throttle before the awaited password check and
counts after it. `tokens` is what is committed. `raced` marks the successors of a
rotation that was *overtaken*: its row was revoked after it had read it, or a
reuse is being dealt with that has not found its successor. `OneLiveToken` is
about the tokens no race produced; `ReuseEndsFamily` is the repository's own
sentence, for all of them. Tabs share a cookie and answer a 401 with a refresh,
whatever the other tabs do (`frontend/src/api/client.ts`).

`Link` has the API's side (`sock`, `status`, `call`, `lock`: the read loop,
`send_control()`, the routes that connect, disconnect and generate a report) and
the gateway's (`queue`, `wire`, `intake`, `handling`: publisher loops). Answers
go to the socket directly and overtake queued status frames. A timed-out
request leaves its command running. What a command does is whether a batch is
running; `GatewayRuntime` has the rest. `Unseen` says what the API could not
know when it allowed a report: a connect on its way, a "batch" status on its
way, a batch the gateway has not announced, an end of the connection it has not
noticed. A connect may be refused at once (`Refuse`), or by the client's
constructor: `HandleBadConnect` begins a batch and awaits `finalize("failed")`
(`process.py:196-213`), which also ends a batch that was open before, and
announces neither. What is on the wire is read before the end of a connection is
noticed; a failing write may end the read loop sooner, which only turns answers
into "unavailable". Event frames are stood for by
heartbeats (they fill the same queue), and a restart of the API is in the run
`gateway_api_restart`. `stop()` at the end of the API process is left out.

The API's event loop serves both and they share no state, so `ApiServer`
explores behaviours with one side at work: `"logins"`, `"tabs"` or `"link"`.
`ApiProcess` adds the live channels the same way, so that one run covers the
process.

### BrowserSocket

A step is a JavaScript handler up to its await. `opening` counts the `open()`
calls that await a ticket, `ws`, `desired`, `state`, `timer` and `keepalive` are
the fields of `MarketSocket`, and `phase`, `handled`, `server` and `silent` are
the WebSockets it created and their endpoints. `Start` is `start()` of the
realtime store, which closes first; `Stop` is `close()`, at any time; `Detached`
is what `close()` does to the socket in use. `onopen` and `onclose` act on
`this.ws`, whichever socket that is by then, which is why `overlap` matters: it
remembers that `open()` was called while another call awaited its ticket, and
delimits what holds. The timing of the backoff and the parsing of messages are
left out. `WebSockets` explores one end at a time: the network between them may
lose either end at any time, which each module allows for by itself, and they
share no state.

## 3. The runs

| Run | Instance | Shows |
|---|---|---|
| `raw_store_crash` | 1 partition, 2 parts, 1 crash | the cleanup loop is not idempotent between two unlinks |
| `archiver` | 2 partitions, 4 part indices, 2 rows, 2 crashes or failures | refinement of `RowLog`, order, stored once, nothing left, liveness of flush and recovery |
| `gateway` | 1 connection, 1 instrument, 2 queued events, 2 open requests, 2 clients | `NoLeakedApi`, `RowsHaveBatch`, `StreamingIsTrue`, `StopLeavesNoRows` |
| `gateway_stop` | the same with 1 queued event, 1 request | `CommandsEnd`, `StopCompletes` |
| `gateway_reconnect` | 1 connection | a refused connect takes the live client's credentials |
| `gateway_api_restart` | 2 connections, 3 clients | a command that resumes after its connection was replaced forgets the new client |
| `hub_conflate` | the hub alone, 3 events | a micro event dropped for a quote |
| `legacy` | 2 partitions, 3 part indices, 3 ticks, a queue of 1, 2 crashes, failures or timeouts | a finished run has filed every tick, a stop ends, `AdmittedFindLockFree`; of the store, beside a second writer, `StagedRowsDurable`, `FinalizeCovered`, `RepublishIdempotent`, `FinalFilesImmutable` |
| `market` | all pairs of 75 quotes in 2 modes; streams of 4 rows over 2 batches; with a database 4 rows, a buffer of 3 | classifiers agree, live labels of adjacent snapshots and live counts agree with the report's, tables do not cross boundaries, events are stored in order and accounted for |
| `market_panel` | the same, 1 batch of 3 rows | after a long pause the panel shows a label the report does not give |
| `api_process` | 2 tabs, 3 tokens, 3 tries, 2 failures; 2 requests, 2 commands, 1 report, a queue of 2, a wire of 1; 1 hub connection, queues of 2, 3 events; in the browser 3 sockets, 2 pending tickets, 1 instrument | one live token where no race was, bounded failures, own answers, overlaps only where the API could not know, every call answered; order, no silent gap, latest kept, dead connections leave; one socket unless tickets overlap, the state shown, never stuck, subscriptions follow, a silent peer is left |
| `api_reuse` | 2 tabs, 3 tokens | a family that was ended for a reuse has a live token |

Why these bounds are enough. *Store* (in `legacy`): the interesting cases need
two parts (to be interrupted between), a third staged meanwhile, a second
collection of the same partition (a segment), and a second interruption during
the recovery of the first; a second partition lets work on one interleave with
work on the other. The mutants of the store's operations are found there, and
the theorems about it hold for any concurrent writer of new rows. *Archiver*:
one row per partition makes a flush that fails half way, two rows in one
partition make order; a retry after a failure needs part indices beyond the
rows. *Gateway*: a client being released and its successor are two; two queued
events are a stale answer and the link drop behind it, or a drop and the
connection after it; a request open on either side of a drop is one. One
instrument is enough for the violations of the mutants; what needs more (the
refusal of one instrument while another still counts as streaming, longer
queues) is covered by the theorems, and the same invariants were model-checked
on two instruments with two queued events (5.1 million states up to symmetry)
and one with three (9.4 million), which takes longer than a routine run should.
*Legacy collector*: a queue of one holds up the CTP thread with the third tick
while the second is queued and the first is being written, which is every place
a tick can be in; two failures are a failed writer and a crash of the recovery,
or a writer left behind and a failure beside it. *Market*: the quotes cover
absent, one-sided, crossed, off-grid and normal prices with moves of half a tick
up to several ticks; the core quotes of longer streams hold a bounce, a genuine
move and an unusable snapshot; pauses of 0, 2 and 3 half minutes are a
repetition, the longest gap that still links and a gap that does not; two
batches give two final files; a buffer of three overflows with the second row's
events while the first are in flight. *API*: two tabs rotate one token together,
or one reuses what the other rotates, in any order of their statements and
commits; three tokens are a family, its successor and the next, or a second
login (a third tab, as in two rotations beside a reuse, takes TLC too long and
is left to the theorem); two commands are a connect and a disconnect or a second
connect, and two requests are one that timed out beside its retry; requests that
are idle are interchangeable, so the first idle one is taken. *Browser*: three
sockets are an owned one, an orphan and a successor. *Hub*: with queues of two,
the frame dropped, the frame kept and the frame that overflows are different,
and connections do not touch each other except through `route()`, which the
module states as a function over all of them.

Deadlock is checked in the archiver, which runs for ever. In the store rows and
part indices are used up, in the gateway the process ends, in the hub
connections and events are used up, and in the legacy collector a run that is
stuck is what `StopEnds` looks for; in `market` rows and batches are used up, in
`api_process` tokens, commands and events; those configurations set
`CHECK_DEADLOCK FALSE`. A request of the API or a browser socket that is stuck
is what `CallsAnswered`, `OneServingSocket` and `SilentPeerLeft` look for.

### Fairness

*Archiver*: weak fairness on `ArchiverStep`, the event loop and the worker
threads going on with what they began, and the main loop coming round
(`_main_loop` wakes every tick). Nothing forces a row, a command, a failure or a
crash. *Gateway*: weak fairness on the drain task and `md_release`; strong
fairness on the start of `_shutdown()` and on `Progress(a)`, since both wait for
turns of the event loop that a drain task at work interrupts, ready callbacks
are run in order, `asyncio.Lock` is first in first out (a waiter cannot be
overtaken for ever), and the drain task empties the inbox in one go before a
release returns. Nothing forces the front.
`CommandsEnd` and `StopCompletes` are conditional on `CatchesUp`, that the
drain task is found idle again and again: while CTP events come faster than it
handles them it never suspends and nothing else runs. A few ticks a second and
instrument are far from that, but the code has no bound. In the run
`gateway_stop`, with one queued event, the condition is nearly always met; it
matters for longer queues.
*Legacy collector*: weak fairness on each of the three threads; no tick,
request, failure or crash is forced.
*Hub*: weak fairness on the end of the receive loop and the closing task only: a
socket may take for ever to accept a frame, and `DeadConnectionsLeave` must hold
all the same.
*Link*: weak fairness on the two event loops reading, writing and handling what
has arrived, and on the native stop and the archiving of a disconnect, and the
archiving of a refused connect, ending.
None on timeouts, heartbeats, requests or reconnections: `CallsAnswered` holds
without the timeout. *Browser*: weak fairness on the timers (watchdog,
reconnection) and on the end of a connection the browser was told to close;
tickets, openings and ends of silent connections are not forced, and the
watchdog is taken to fire only if no other socket of the object receives
messages, since those count for it.

### What the runs found

Six places where the code and its own words disagree, each shown by a run:

1. `parquet_store.py:156` – a crash between two unlinks of the cleanup publishes
   rows twice, though the docstring calls recovery idempotent (lines 113-114).
2. `process.py:209` – a connect command that is refused while the CTP library is
   reconnecting takes the credentials of the live client: the gateway stays
   connected and logged out, though `ctp_binding.py:314` reuses credentials on
   reconnect. A disconnect command recovers it.
3. `process.py:560` – `_client` is overwritten after an await. With two control
   connections, as around a restart of the API process
   (`docs/deployment.md:131` calls it harmless), the CTP api can be left without
   an owner, and only a restart of the gateway recovers.
4. `hub.py:116` – conflation drops the oldest frame whatever its type; the
   README (line 138) and the docstring keep micro events from being dropped.
5. `auth/service.py:153` – a rotation that is flushed and not committed when the
   family is ended, or that had read its token before, commits a live token in
   it, though README (line 126) and the docstring (line 142) say that every
   token of the family is revoked. Two tabs that answer a 401 with one cookie are
   enough.
6. `core/normalizer.py:109` – the previous quote survives a pause and a
   reconnection of the CTP link, so the panel shows a label where the report,
   after more than a minute, begins anew; README (line 34) rules out by
   construction that they disagree, and the docstring of `reset()` names gaps and
   reconnections. The two also differ across a snapshot the report drops as
   unusable or crossed (`pipeline.py:86-90`, `normalizer.py:148`).

A seventh is smaller and has no run of its own: `ratelimit.py:10` calls the limit
"max failures per window", but the throttle is read before the awaited password
check and counted after it, so logins in flight together exceed it;
`FailuresBounded` says by how much (by fewer than can be in flight).

Facts the models take from the code that a reader may not expect, and that
contradict none of its words we know of: `classify_arrays()` computes `dl_ticks` without
regard to the validity of the quotes and `classify_pair()` does not (no report
reaches the difference); `mean_spread_ticks` of the realtime metrics is always
empty, since nothing sets `spread_ticks`; final segments sort before
`snapshots.parquet`, so the load order of a day is not its arrival order, and a
snapshot pushed again after a restart can split a segment; a time-series flush
that fails behind its COMMIT stores its events twice; two tabs refreshing at
once either both succeed or the second ends the family of an honest user; after
a connect is acknowledged the API may still see an idle gateway
and start a report, because the status frame waits in the queue; `send_control`
drains its socket outside the timeout; the gateway may show "streaming" after
a refused subscription, and may log in twice in one session (`stale` and `late`
in `GatewayRuntime`); a stop and a start while `open()` awaits
its ticket (`client.ts:114`) leave two sockets for one channel, and `close()`
no longer reaches the older one (`overlap` in `BrowserSocket`).

## 4. The proofs

All theorems are about the specifications as the runs use them, for any values
of the constants that satisfy the named assumptions.

| Module | Theorem | Says |
|---|---|---|
| `RawStore_proofs` | `StoreInvHolds` | `Spec => []StoreInv`, the inductive invariant |
| | `TypeCorrect` | `Spec => []TypeOK`; the runs check it as a part of `ArchTypeOK` and `LcTypeOK` |
| | `FinalizeCoveredHolds` | `Spec => []FinalizeCovered` |
| | `DurabilityHolds` | `Spec => []StagedRowsDurable` |
| | `ImmutabilityHolds` | `Spec => FinalFilesImmutable` |
| | `RepublishIdempotentHolds` | `Spec => []RepublishIdempotent` |
| `Archiver_proofs` | `ArchiverTypeCorrect` | `ArchSpec => []ArchTypeOK` |
| | `RowLogHolds` | `ArchSpec => RowLogImplemented`, the refinement of `RowLog` |
| | `FinalizeLeavesNothingHolds` | `ArchSpec => FinalizeLeavesNothing` |
| | `ArchiverDurabilityHolds` | `ArchSpec => []StagedRowsDurable` |
| | `FilesInArrivalOrderHolds` | `ArchSpec => []FilesInArrivalOrder` |
| | `RowsStoredOnceHolds` | `ArchSpec => []RowsStoredOnce` |
| `GatewayRuntime_proofs` | `GwTypeCorrect` | `Spec => []GwTypeOK` |
| | `NoLeakedApiHolds` | `Spec => []NoLeakedApi`, this and the next three for one control connection |
| | `RowsHaveBatchHolds` | `Spec => []RowsHaveBatch` |
| | `StreamingIsTrueHolds` | `Spec => []StreamingIsTrue` |
| | `StopLeavesNoRowsHolds` | `Spec => []StopLeavesNoRows` |
| `WebSockets_proofs` | `SocketsTypeCorrect` | `SocketsSpec => []SocketsTypeOK` |
| | `DeliveredInOrderHolds` | `SocketsSpec => []DeliveredInOrder` |
| | `NoSilentGapHolds` | `SocketsSpec => []NoSilentGap` |
| | `LatestEventKeptHolds` | `SocketsSpec => []LatestEventKept` |
| | `OneServingSocketHolds` | `SocketsSpec => []OneServingSocket` |
| `LegacyCollector_proofs` | `LegacyTypeCorrect` | `LcSpec => []LcTypeOK` |
| | `FinishedRunKeepsRowsHolds` | `LcSpec => []FinishedRunKeepsRows` |
| | `LegacyDurabilityHolds` | `LcSpec => []StagedRowsDurable` |
| | `AdmittedFindLockFreeHolds` | `LcSpec => []AdmittedFindLockFree` |
| `ApiServer_proofs` | `OneLiveTokenHolds` | `ServerSpec => []OneLiveToken` |
| | `FailuresBoundedHolds` | `ServerSpec => []FailuresBounded` |
| | `AckIsForCallHolds` | `ServerSpec => []AckIsForCall` |
| | `OverlapOnlyUnseenHolds` | `ServerSpec => []OverlapOnlyUnseen` |
| `MarketStats_proofs` | `ClassifiersAgree` | `ClassifyArrays` equals `ClassifyPair` for all prices and settings |
| | `TablesOfEveryReport` | `ReportTablesOf(Report(m, rs))` for every sequence of rows and every setting |
| `MarketPath_proofs` | `VectorisedMatchesPairwiseHolds` | `MarketSpec => []VectorisedMatchesPairwise` |
| | `ReportTablesHolds` | `MarketSpec => []ReportTables` |
| | `LiveMatchesReportHolds` | `MarketSpec => []LiveMatchesReport` |
| | `StoredInOrderHolds` | `MarketSpec => []StoredInOrder` |
| | `EventsAccountedHolds` | `MarketSpec => []EventsAccounted` |
| | `OneTickCountsAgreeHolds` | `MarketSpec => []OneTickCountsAgree` |

*Raw store.* The theorems rest on `StoreInvHolds`, `Spec => []StoreInv`, where
`StoreInv` is the conjunction of `TypeOK`, `FinalizeCovered` and
`StagedRowsDurable`. Durability alone is not inductive: that the unlink of a
part loses nothing follows only if the part's rows are in a file that a power
loss cannot take. `FinalizeCovered` carries that fact from where it becomes true
to where it is used: while merging, the parts that were passed are in `tmp`;
after publication, every part still to be unlinked repeats rows of `ffile`;
after the directory's fsync, `ffile` is safe. A concurrently staged part cannot
disturb it because `write_staging_part` never reuses an index. Immutability then
follows from `TypeOK` step by step.
`RepublishIdempotent` looks at single moments (a publication, a partition at
rest) and needs to know why the next one will be harmless. `RepublishInv` says,
while no cleanup was cut short, that a partition at rest is `Recoverable`: either
none of its parts repeats a published row, or one final file holds exactly the
rows of all of them, in the order in which merging them would give that same
file, so that the digest comparison finds it. `Cleaning` and `MergeListed` carry
this through the steps of a running `finalize()`, `MergedInOrder` through its
merge loop, and `FreshParts` keeps a part that is staged meanwhile apart from
everything before it. Assumptions: `NoFileAssumption` (an absent
file is not a file) and `BoundsAssumption` (the bounds are naturals).

*Archiver.* `ArchInv` is `DiskInv` and `CallInv`. `DiskInv` adds to `StoreInv`
that a rename which a power loss can still undo takes no row off the disk
(`UnsyncedKept`), without which the refinement fails at a crash: a durable row
would be gone. `CallInv` adds to the types what the call that holds the lock
implies for memory (`LockInv`) and that the parts on disk are those the running
`finalize()` has still to do (`PartsTracked`), from which `FinalizeLeavesNothing`
follows at its end. `RowLogHolds` then takes the initial state and each kind of
step to the log: an arriving row is accepted, a written part makes rows durable,
`begin_batch()` and the end of the process lose the volatile ones, and every
other step leaves the three sets alone. The refinement is of the log's safety;
it states no liveness. `OrderInv` (parts, files and memory are ordered, worker
before buffers; no row twice) is inductive only given `ArchInv`, and only while
no failed write left its part (`halfWritten`). Assumptions: those of `RawStore`.

*Gateway.* `GwInv` has five parts beside the types. `TasksInv` says which call is
suspended where. `LinkInv` is about the front and the queue of its events:
`FrontsApart` and `OffIsAnnounced` (a session's end is queued between two
sessions), `SessionEvents` (what only a logged in session delivers is followed
by its end, or still true), and for each instrument what the queued answers will
leave of it (`WillStream`) against what the front pushes, has been asked for, or
will be asked for by a queued login (`StreamTrue`). `OneLogin` adds, unless
`late`, that a session has one open login and nothing of it is queued behind its
end. `OwnerInv`, while the drain task exists, ties the runtime's fields to the
native client: it holds the client of the api, a call that releases it releases
that one, a stopped or refused stream has no client or no credentials until its
batch is closed, and without a client nothing is queued. `SilentInv` is where
they meet: a runtime that accepts a connect, or has no credentials, has a front
that is not logged in, no open login, and no tick in its queue. So no tick can
come between the end of a batch and the next one (`RowsInBatch`). None of these
is inductive alone, and `StreamingIsTrue` speaks only of quiet states, from
which nothing can be carried over a step.
The last four theorems assume `OneConnection`, that there is at most one control
connection: an API process opens one, and with two the properties fail, as the
run `gateway_api_restart` shows. Assumptions: `ActorsAssumption` (names do not
clash) and `BoundsAssumption` (finitely many instruments, bounds are naturals).

*WebSockets.* `HubInv` is `HubTypeOK`, the order of the bus queue against what
was routed (`HubOrder`) and, per connection, `ConnFlow`: the queue is ordered and
behind what was sent, and on a live connection every routed event was sent,
conflated, pushed out or is still queued. The three
properties of the hub are parts or consequences of it; each is about what has
been sent, so none is inductive without the queue. For the browser, `BsGood`
replaces the count of live sockets in `OneServingSocket` by "the live sockets
are the one in `ws`" (`SoleByWs`), with which handler belongs to which socket
(`BsShape`). Assumptions: `CapacityAssumption` (positive queues, `MaxEvent` is a
natural) and `SocketAssumption` (`None` is no socket).

*Legacy collector.* `LcInv` is `StoreInv`, the types, and `RunInv`: while nothing
has gone wrong in a run, each of its ticks is on its way or on disk
(`RowsInRun`), the writer is told to end only when nobody adds to the queue any
more and begins its last flush only when that is empty (`WriterInOrder`), and
each of the run's staged parts is one the finalization has still to do
(`Covered`). The last is about the run's own rows, not about all parts: an
orphan may add parts behind the list at any time. `FinishedRunKeepsRows` speaks
only of the end of a run. `AdmittedFindLockFree` follows from `LockHeld`: the
lock is held exactly by the run or the report that is past taking it, a report
and a living collector thread exclude each other, and `finalize()` works only
inside a run. Assumptions: those of `RawStore`, and `QueueAssumption` (`QueueMax`
is a natural).

*Throttle.* `FailuresBounded` counts what `_prune()` leaves. `ThrottleInv` is the
bound with the types of the two variables; the work is in the lemmas, that the
suffix `_prune()` keeps exists and is unique, that it loses nothing but grows by
one with a new failure, and that time can only shorten it. Assumption:
`ThrottleAssumption` (`max_failures` is positive, as its constructor makes it;
finitely many attempts in flight).

*Session.* `OneLiveToken` counts tokens, which is awkward to carry through a
step. `SessionInv` says instead that two tokens of a family that are live and not
raced are the same token, and that there is none in a family that was ended
(`FamiliesOK`), with the facts that keep it going: families are numbered below
the length of the table (`TokensOK`), so a login starts a fresh one; what a
request has read is in the table (`RequestsOK`); and an UPDATE that has begun has
found every sound token of its family (`RevokingOK`), so that its commit leaves
none. A rotation that commits while such an UPDATE is under way, or after its own
row was revoked, was overtaken, and its successor raced; any other revokes the
token it read in the commit that gives the successor, which takes its place. No
assumption.

*Link.* `LinkInv` is `LinkTypeOK`, `AcksInv`, `NewsInv` and `QuietInv`.
`AcksInv` says that an answer
on the socket, or held by a request, is what the gateway did with the command of
that number, that commands arrive in the order of their numbers and only
unanswered ones are still on their way. `NewsInv` says how the API will come to
know of a batch on an open connection: its last status is that of a batch, or
such a status follows on the socket or in the queue, behind every "idle"; it
speaks of the batches the gateway has announced (`last`).
`QuietInv` is the aim, made inductive: while a report is being started, or runs,
on a status that was not out of date, there is no batch and no connect on its
way. Assumption: `LinkAssumption` (requests and reports are distinct, the bound is a
natural).

*Classifier.* Both implementations are brought into the form of a ladder whose
value is that of the first rule that applies (`FirstIs`), and the cases are
compared with linear arithmetic over the changes of bid, ask, mid and last
price. `VectorisedMatchesPairwiseHolds` needs of the behaviour only that rows
hold prices and that the mode is a setting (`RowsOK`). Assumptions:
`QuotesAssumption` (prices are integers, an imbalance is a fraction of the two
volumes, exchange time does not run back), `LiveAssumption`.

*Reports.* `TablesOfEveryReport` is about any rows at all, so it needs no
invariant but the types. The library's induction theorems take an operator as a
parameter, which the provers cannot instantiate; induction is by a least
counterexample instead (`LeastElement`, from the well-foundedness of strict
inclusion of finite sets). It gives the minima of sets (`MinIs`, `MaxIs`), that
the ranks in a strict order on a finite set are all taken once and grow with the
order (`RankGrows`, `PlacesInOrder`), hence what loading, cleaning and sorting
leave (`CleanRowsAre`: stored rows, each at most once, usable, in order). A
segment's number is the count of the boundaries up to a row, so that two rows
have one number exactly if no boundary lies between them (`SegmentsGrow`), which
is to say if batch and pauses link them (`SmoothIsLinked`). The reverse scan for
the next move is a recursive function, taken apart step by step downwards
(`FoundStep`, `NextGenuineIs`). The blocks add up because a label tells whether
something moved (`LabelIs`, `FrameTells`) and labels are of one family
(`LabelsApart`); the matrices because each count is over disjoint sets of rows
(`SumOverStates`, `PairsCounted`, `BucketsCounted`).

*Live labels and reports.* `LiveMatchesReport` compares sorted, cleaned rows with
what was published; neither says enough to survive a step. `StreamInv` says where
a row stands in the stream: batches and times do not run back and the rows of a
batch are numbered one by one (`Ordered`, `Numbered`, `NotAhead`,
`CountedBatch`), the normaliser compares with the last row of the running batch
or with nothing (`ComparesWithLast`), and the micro events are exactly those of
the usable neighbours of a batch (`MicrosOfPairs`, `PairsPublished`). TLC checked
it on the `market` instance before it was proved. A report's neighbours then need
not be the stream's: between them in the stream lie only repetitions of the
first, so the pair that was classified live has the same quotes
(`ReportFollowsLive`), and one label by `ClassifiersAgree`.

*Time-series writer.* `StoredInOrder` is not inductive: that a re-queue keeps
the order needs to know that what was in flight is a stretch of older events
that meets the buffer, or that the buffer is full, in which case all of the
older ones are dropped again. `WriterInv` says so (`InflightOK`, `BufferOK`),
with what each state of the task allows (`TaskOK`). `EventsAccounted` is
inductive with that shape. Assumption: `BufferAssumption` (a positive buffer).

*Live views.* `OneTickCountsAgree` compares the counts the legacy dashboard shows
with the moves the gateway publishes. Neither is inductive without the other
facts of `CountsInv`: while a stream runs both classifiers compare with the same
quote (`SameQuote`), the published moves carry batches already begun
(`BatchesBegun`), the legacy counters are the counts of this batch's moves
(`LegacyCounts`), and the window holds the latest moves (`WindowHolds`). The
reason the two agree is `UnitMoveUsable`: a last price can be seen to move by one
tick only between two usable quotes, so the snapshots one of them skips add
nothing to the counts of the other (`LegacyStep`). `LastNAppend` is the bounded
deque, `WindowCounts` and `MetricsOfMore` the counting. Assumptions:
`QuotesAssumption`, `LiveAssumption`.

Every invariant and action property of a passing run is proved. Only
model-checked are `CredentialsReused`, `ApiRestartHarmless`,
`InterruptedPublicationIdempotent`, `MicroNotDropped`, `ReuseEndsFamily` and
`PanelMatchesReport`, which do not hold. Out
of the prover's reach and left to TLC for good: the liveness properties
(`RowsSettle`, `RecoveryPublishes`, `CommandsEnd`, `StopCompletes`,
`DeadConnectionsLeave`, `StopEnds`, `CallsAnswered`, `SilentPeerLeft`), anything
with ENABLED, and what a recursive computation gives as a whole value for every
input (for instance what the merge loop computes, as a sequence). The modules have no
RECURSIVE operators.

## 5. Not modelled, and the plan

Not modelled, and not to be: the CTP library itself, struct layout and field
conversion, parquet encoding, ORM and DDL, floating point statistics, plots,
views, argument parsing, configuration and deployment files. They hold no
protocol, or are outside the repository, or are numeric. WebSocket tickets are a
map with two synchronous operations; the metadata database is single statements
under one lock; the simulated feed is a seeded generator whose rows take the
path `LiveMarket` models.

Left out for now, and known to matter: two `finalize()` of one partition at
once. A control command that is cancelled because its connection was dropped
leaves the archiver's lock, while its worker thread goes on (`archiver.py:215`).
The next `finalize()`, for instance of `_shutdown()`, opens and truncates the
same `snapshots.parquet.tmp`; reading the code, if that falls between the first
call's row count check and its `os.replace`, the first call publishes the
truncated file and deletes its parts. `RawStore` and the theorems about it hold
for one `finalize()` at a time.

Also left out for now: the PostgreSQL bookkeeping of the archiver (a crash between
the unlinks and the registration leaves a final file unregistered), the ops
monitor's delivery across restarts, the replay and cache of reports over several
days, rate and spread windows of the realtime metrics, and `stop()` of the
ingest client.

Next, in this order:

1. Two `finalize()` of one partition at once: files with open handles, names and
   renames apart, and what still holds under the lock.
2. Proofs: what `GatewayRuntime` keeps with two control connections.
3. The PostgreSQL bookkeeping beside `Archiver`.
4. The ops monitor's delivery.
