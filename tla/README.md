# TLA+ models of Turbine

Turbine is a PHP application server: one Rust process accepts HTTP requests and
executes PHP in a pool of worker processes or threads. This directory models the
parts where requests, workers and background tasks share state, checks them with
TLC on small instances and proves the central invariants with TLAPS for every
instance. Paths below are relative to the repository's `crates/`.

## 1. The system

| Part | State | Operations | Talks to |
|---|---|---|---|
| `ThreadDispatch` (`turbine-core/src/main.rs` 180-700) | semaphore `idle_sem`, LIFO `idle_queue`, per-slot `unhealthy` flag and `requests_served`, `worker_fds`, `worker_pids` | `get_idle`, `return_idle`, `mark_unhealthy`, `record_served`, `over_quota_indices`, `refresh_fds`; RAII `IdleGuard` | every request handler, the reaper |
| Background reaper (`main.rs` 2098-2183) | none of its own; holds the pool mutex | every 250 ms: retire over-quota slots, reap and respawn, `refresh_fds` | dispatch, worker pool |
| Persistent workers (`turbine-worker/src/persistent.rs`, `worker.rs`) | one process or thread per slot, a command and a response pipe | boot, ready signal, request loop, shutdown byte, exit | handlers (pipes), reaper (respawn) |
| Channel workers (`main.rs` 358-474, `pool.rs` 1205-1340) | one thread per slot with two in-memory channels | take request, send response | handlers |
| Worker pool (`turbine-worker/src/pool.rs`, `worker.rs`) | `workers: Vec<Worker>`, LIFO `idle_queue`, the master's pipe ends | spawn, claim, return, reap, respawn, grow, shrink, shutdown | handlers of named pools, reaper, auto-scaler, watcher |
| Request and response formats (`pool.rs`, `persistent.rs`, `stream.rs`, `turbine-engine/src/output.rs`) | thread-local output buffers, frames on a pipe | encode, decode; `ub_write`, `flush`, header handler; frame readers, forwarder | handler and worker of one exchange |
| Response cache and coalescer (`turbine-cache`) | `store`, `inflight` with one slot per flight | `get`, `put`, `evict_oldest`, `clear`; `acquire`, `publish`, `wait`, guard drop | handlers of cacheable GETs, operator |
| Shared table, task queue, timers (`turbine-core/src/shared_table.rs`, `task_queue.rs`, `async_io.rs`) | concurrent maps, bounded queues | `set`, `get`, `incr`, sweep; `push`, `pop`; `schedule_timer` | PHP through `/_/` endpoints |
| WebSocket hub (`turbine-core/src/websocket.rs`) | one broadcast channel per name, a session task per client | `publish`, `subscribe`, upgrade, session loop | PHP and browsers through `/_/ws/` |
| Security layer (`turbine-security`) | per-IP profiles of atomics in a concurrent map | `check_input`, `record_request`, `record_sqli_attempt`, `unblock_ip` | handlers, operator |
| Request pipeline (`handle_request`) | temporary upload files, the executor's queue | an ordered list of guards and early returns, then the executor or a pool | everything above |
| Server lifecycle (`main.rs` 1700-2850) | background tasks | startup, auto-scaler, file watcher, two phases of draining | worker pools |
| ACME, metrics, configuration, TLS, CLI, PHP engine | see PROJECT.json | | handlers, background tasks |

What is hard here: handlers run on a multi-threaded runtime and share atomics,
short critical sections and a semaphore that are never updated together; the
reaper changes the same state at any moment; a handler's future is dropped at
any `await` when its client leaves; workers crash, are killed and are replaced
while handlers still hold their descriptors; and wake-ups are one-shot.

`PROJECT.json` lists every component (modelled or not), and under `hazards` each
place where one of these can go wrong, with the properties that look at it.

## 2. Modules

| Module | Models |
|---|---|
| `ThreadDispatch` | the dispatch structure, the handler's use of it and the reaper |
| `SlotLease` | the abstract promise of the dispatch: leases of slots |
| `ThreadDispatchProofs` | theorems about `ThreadDispatch`, and its refinement of `SlotLease` |
| `PersistentDispatch` | extends `ThreadDispatch` with workers, pipes, respawn, crashes and departing clients |
| `PersistentDispatchProofs` | theorems about `PersistentDispatch` |
| `CacheRequests` | the constants the two cache modules share |
| `Coalescer`, `ResponseCache` | the operations of `turbine-cache` |
| `CachedRequest` | composes them: the handler of a cacheable GET |
| `CachedRequestProofs` | theorems about `CachedRequest` |
| `SharedTable`, `TaskQueue`, `WsHub` | the primitives behind the `/_/table/`, `/_/task/`, `/_/async/timer` and `/_/ws/` endpoints |
| `SharedState` | composes them as `ServerState` holds them |
| `WsHubProofs`, `SharedStateProofs` | theorems about `WsHub`; about `TaskQueue`, `SharedTable` and their composition |
| `BehaviourGuard` | the security layer, at the grain of the profile's atomics |
| `RequestPipeline` | extends it: one request from `handle_request` to its answer, with the single executor |
| `RequestPipelineProofs` | theorems about both |
| `WorkerPool` | the operations of `WorkerPool` and `Worker`, and the native event loop |
| `PoolServer` | extends it: handlers, reaper, auto-scaler, file watcher and shutdown over one pool |
| `PoolServerProofs` | theorems about `PoolServer`, and lemmas about every operation of `WorkerPool` |
| `WireFormat`, `OutputCapture` | request formats; PHP's output callbacks, frames and post-processing |
| `Exchange` | composes them: one worker, its handler, its client and the pipes between |
| `ExchangeProofs` | theorems about `Exchange` and `OutputCapture` |
| `MC*` | instances for TLC |

### ThreadDispatch

One task per HTTP request. `pc[t]` walks through `get_idle`: `acquire` (waiting
for a permit), `pop`, `check` (the `is_pickable` test), `claimed` (the worker is
in use), `return` and `permit` (the two halves of `return_idle`), `done`. The
reaper's `rpc` walks through `tick`, `retire`, `fds`, then `refresh_fds`:
`swap`, `requeue`, `permits`, `grow`, `growq`, `growp`.

A step is one atomic access, one critical section or one semaphore call. Joined
into one step, because nothing another thread does in between can be told
apart from something it does before or after: the two swaps of one slot in
`refresh_fds`, the two loads of `is_pickable`, the snapshot of
`over_quota_indices`. The queue mutex shows up as `QueueLocked`, as long as the
reaper holds it over several pushes. `staggered_max_requests` is the same number
as the code's, computed in integers rounded half up instead of in `f64`. The
code's waits become choices: a handler without a permit may time out (504) at
any time. `mark_healthy` and `update_fds` have no caller and are left out.

`Transport` selects how the dispatch was built: `"pipe"` starts with N
descriptors, `"channel"` with none, which makes the first `refresh_fds` take its
scale-up branch; and it selects what a failing handler does with its slot (an
armed guard flags it and keeps it out, an unarmed one returns it).

### PersistentDispatch

A worker is one incarnation with its own pair of pipes. `fdsOf` and `pidOf` are
what the dispatch believes, `pool` what the pool holds. `ppc[t]` refines
`claimed`: `ReadFds`, `SendRequest` (pid read, guard armed, write), `OpenPipe`
(a descriptor can be registered with the reactor once), `Fill` (the `BufReader`
takes what is there), `DecodeHeaders`, `DecodeEnd`, or one of the ways to fail,
after which `Abandon` flags the slot and `Poison` writes the shutdown byte and
sends SIGKILL. Every step that touches the dispatch conjoins the action of
`ThreadDispatch`, so this module adds steps and restricts how a claim ends, and
changes nothing else.

Abstractions: a response is two frames that name the request they answer (body
chunks and an `Error` frame, which ends a response early, change nothing the
properties see); a request is one atomic write; pipe capacity is not modelled,
so a worker never blocks on a full response pipe; descriptors are incarnations,
so their numbers are never reused; the two steps in which an exiting worker
first closes its pipes and then becomes reapable are one, since a scan just
before the exit has the same effect. `mixed` is a history variable.

### Coalescer, ResponseCache, CachedRequest

`pc[t]` walks through `handle_request_inner`: read and hash the script, `get`
(with the removal of a stale entry as a step of its own, as in the code),
`acquire`, then either lead or follow. A follower's `acquire` and its
`notified()` are two steps. A leader executes, stores (`PutCheck`, `PutEvict`,
`PutInsert`), publishes (`SetResult`, `RemoveFlight`, `NotifyWaiters`), or drops
its guard, which skips the first of these. Notify is tokio's: `notify_waiters`
wakes the futures that exist and stores nothing. A body is the request that
executed it and the version of the script it executed. `validate` is the setting
`opcache.validate_timestamps`, chosen at the start: with it PHP runs the version
on disk, without it (the default) any version it may have compiled before
(`Runs`). Versions only grow, so a script edited back to old contents is not
modelled. Time is the order of creation plus `Expire`. The URL stands for its
script.

### SharedTable, TaskQueue, WsHub, SharedState

Each handler is a task with a program counter (`tpc`, `step`, `wpc`); a step is
one shard lock of the map, one critical section of a channel's mutex or one call
on a tokio primitive. An operation of the table that looks and then writes
(`SetNew`/`IncrNew`, `RoomCheck`, `Insert`; `Get`, `GetEvict`) is as many steps
as it takes locks. `sweep_expired` and `clear` read once and then visit shard
after shard; each key is in a shard of its own, the case that allows most.
A counter is its value in steps of `delta`; 0 stands for every value that is not
eight bytes long. A ttl is one tick or none.

`pop` follows the code: `fast`, then `recheck`, `poll` (where the `Notified`
future registers or uses up the permit), `parked`, `grab`. `timeout` polls the
future before the timer, so a timed-out poll is `drop`ped in a step of its own
and a wake-up may reach it in between; `DropNotified` hands it on as tokio does.
A consumer that has a job is `busy` for as long as it likes. Frames of a
WebSocket channel are numbered; a receiver is a position, and it lags when the
tail is more than the channel's capacity ahead.

The three primitives share no state. `SharedState` therefore enables one of them
at a time (`enabled`), which shows everything each can do without multiplying
their states. Left out: the statistics nobody but a stats endpoint reads
(evictions, published, timers), job ids, file I/O of `/_/async/`.

### BehaviourGuard, RequestPipeline

`evaluate` and `unblock_ip` go over the atomics of a profile one by one under a
read lock, so requests of one address interleave inside them; this is where the
steps are smallest. A request's parameters are abstracted to the lowest paranoia
level at which the SQL and the code guard match them: the patterns themselves are
data. The pipeline takes a step from one `await` to the next; a request is a
record of what the guards look at (host, path, method, body, upload parts,
token), and the guards stand in the order of `handle_request_inner`: internal
endpoints, virtual host, body limit, multipart parsing with its temporary files,
security, static files, path resolution, sandbox, cache, coalescer, executor.
Each of the four 403s after the body was parsed is an action of its own
(`NotListed`, `InDataDir`, `Blocked`, `Invalid`), in the place the code has it.
The temporary files carry the numbers the code gives them, which are not unique
across requests; a write that fails may leave a partial file (`Partial`), which
nobody owns. `registered` are the names the executor has given to PHP: a script
may move them, and `reset_request` unlinks those that are left, also for a
request whose handler has given up. The executor is a queue, a thread that runs
one script at a time and may panic, and a oneshot per request. A follower's
`acquire` and its subscription are two steps here, too; what it misses in between
it misses for good (`missed`). The other races of cache and coalescer are in
`CachedRequest`.

### WorkerPool, PoolServer

`WorkerPool` has the operations as operators on the whole state of a pool,
because each runs under the pool's mutex; `PoolServer` makes actions of them,
one per critical section of a handler, of the reaper, the scaler, the watcher
and the drain loops. A worker is the number of its fork, which stands for the
pipe ends the master keeps as well; `closed` are the ends `Worker::drop` has
closed. `conf` says which pool is in use (a named one through its mutex, or the
default one through `ThreadDispatch`, one operation of which is one step here)
and how many crashes, fork failures, departures and reloads may still happen.

The guard of a departing request sets the flag in one step; the 0xFF, the SIGKILL
and the worker's end are a later one (`DefaultKill`), and between the two a tick
may revive the slot. `holder` is the task that
is inside `WorkerPool::shutdown` with the pool locked: SIGTERM is sent to all,
and then it waits for each process, without a limit, as `waitpid` does. A process
forked at startup dies of SIGTERM; one forked later has inherited tokio's handler,
which the server has installed by then, and lives on.

### WireFormat, OutputCapture, Exchange

A request is a sequence of cells: one per number, one per byte of a string or of
the body, the NUL after a string. A length is cut to the width of its field, as
`as u16` and `as u32` do; `Width` stands for 2^16, and a string longer than it
is in every run. `decode` follows the two decoders field by field and gives up
where they do. `OutputCapture` has the thread-local buffers and the callbacks
PHP calls; its output is a sequence of lines, since the only conversion of a body
that looks inside it (`extract_structured_logs`) works by lines. PHP's own buffer
(`ob`) is external. `Exchange` runs a worker and its handler over a pipe of a few
frames: any script of up to `MaxSteps` calls into the output layer, the cleanup
script, the write of what is left, the readers of the five paths (`kind`), the
forwarder with its bounded channel and a client that reads, is slow or leaves; on
the other paths a client may leave while its handler waits (`ClientCancels`),
whose armed guard then kills the worker (`left`) or, on channels, does not. A
frame is one unit on the pipe; a worker that dies while writing leaves a broken
one. Names and values of response headers are cut to their 16-bit length in front
of all their bytes: a header is short or `long` (64 KiB or more), and behind a
long one the reader is at no known place (`Cut`, `Garbled`, `Misread`). What it
takes the bytes for is any outcome the format allows: an error, a wrong response
with more behind it, or a wait for bytes that never come (`lost`). `skewed` says
that this, or a response in the channel of a client who left, has happened. A
decoder that meets more than `MaxHeaders` headers stops with an error. Both ends
of `stream` are modelled as written, although the server today sends every
persistent request through the branch before it (see Disagreements).

## 3. Runs

| Run | Instance | Shows |
|---|---|---|
| `pipe_unlimited` | 2 slots, 3 requests, no quota, pipes | types; a slot is in one place (`SlotExclusive`); permits never outnumber queued slots (`OnePermitPerIdle`); refinement of `SlotLease` |
| `pipe_recycle` | 2 slots, 2 requests, quota 1, pipes, fairness | `QueueBacked`, `CapacityRestored`, `EveryRequestEnds` |
| `channel` | 2 slots, 2 requests, quota 1, channels | `NoLostSlot` through the scale-up branch and the unarmed guard |
| `persistent` | 1 slot, 2 requests, quota 1, processes or threads, 3 incarnations, 1 crash, departing clients, fairness | `OnlyAbandonedLeak`, `ReadyConsumed`, `PoolRecovers` |
| `coalesce` | 3 requests, 1 URL, 1 edit, with and without `opcache.validate_timestamps`, capacity 1, fairness | `FlightHasLeader`, `WokenMeansDecided`, `FreshHit` (with `validate_timestamps`), `SubscribedWakes` |
| `shared_state` | table: 2 handlers, 2 keys, capacity 1, 1 tick; queue: a producer, a timer, 2 consumers, 1 channel allowed, capacity 1 and 2; hub: 4 publishers, 1 session, capacity 2; fairness | `JobsConserved`, `LoneConsumerWoken`, `NoSilentGap`, `SweepKeepsLive`, `ExpiredReclaimed`, `JobsEventuallyTaken` |
| `request` | groups of 1 to 3 requests that meet on an address, a page, the upload directory or the queue, and one on each early return; 3 hosts and a missing one; failing writes; fairness | no written upload outlives its request (`NoOrphanUpload`), a lone upload is found by its script (`LoneUploadIntact`), an answer that must not be cached reaches one client only (`PrivateAnswersStay`), a block for SQL injection holds for its time (`SqliBlockHolds`), every request ends but for followers that missed their wake-up |
| `pool` | 2 workers, up to 3 requests, 4 forks, twelve configurations of pool, mode, quota, crashes, failing forks, departures, reload, scaling and shutdown; fairness | a worker of a named pool serves one request at a time (`UsedByOne`), its first-generation workers answer with the right response (`OwnAnswer`), 503 has a cause (`BusyForCause`), `EveryHandlerEnds`, a server whose workers are all of the first generation stops (`FirstGenerationStops`) |
| `response` | 5 paths, 2 requests, scripts of 3 calls, cleanup script, long headers, departing clients, pipe of 1 frame, channel of 1 chunk, `Width` 4, `MaxHeaders` 2; fairness | requests are decoded as sent or refused (`RequestIntact`), frames keep their order (`FrameOrder`), no byte is left for the next request (`Aligned`), answers are whole (`WholeBody`) and failures shown (`FailureShown`), `ResponseEnds` |
| `persistent_cancel` | 1 slot, 2 requests, threads, no quota | violates `OwnResponse` |
| `vhost_cache` | three hosts ask for one page | violates `OwnHostAnswer` |
| `pool_respawn` | as `pool` | violates `SlotsReplaced` |

Bounds. Two slots are the fewest for which a skipped slot is not the only one
and quotas are staggered; three requests let one return a slot while two others
hold or look for it. A quota of 1 makes every slot exhausted after each request,
which is the case in which the reaper and the handlers disagree most. Three
incarnations allow one recycling and one crash to be survived before the bound
stops the reaper; `PoolRecovers` is void only in the states where the bound is
used up. Three requests for one URL are a leader and two followers, the fewest
that tell `notify_waiters` from `notify_one`; the capacity 1 makes each second
`put` evict. Two consumers and two pushes are the fewest in which one wake-up
can go to the wrong consumer; a second channel name with `max_channels` 1 makes
the channel cap bite; three frames overflow a broadcast channel of two. One tick
is a ttl that runs out. A second request on the same worker is what shows
anything the first one left behind; a pipe of one frame and a channel of one
chunk are full after every write, so each wait happens; three calls are the
fewest that set a header, print and flush; `MaxHeaders` 2 stands for 1024, and
three calls of `header` exceed it. `FollowSkewed` lets a second request use a
worker whose pipe is out of step; `response` leaves it off, since `Aligned`,
`WholeBody` and `FailureShown` except those states; `channel_cancel.cfg` sets
it. The SQL threshold, window and block times of the guard are one or two
seconds, so that they are reached and run out within the clock's bound. Four
forks for two workers leave room for each to be replaced once. Symmetry of
requests is used in runs without temporal properties only. Deadlock is checked
except for `CachedRequest`, `SharedState`, `RequestPipeline` and `Exchange`,
whose requests all end.

Fairness. The reaper is a loop on an interval timer that waits for nobody but
the holder of a short critical section. Handlers are polled when runnable. What
the code does not guarantee is assumed in plain sight: that a script ends
(nothing bounds the read of a response), that a boot ends (`read_ready_signal`
has no timeout), that `fork` does not fail for ever (the strong fairness of
`ReapSpawn`). The sweeper and the deadline of a
long poll are timers of the runtime, and a consumer that got nothing polls again,
as the loop of `docs/shared-state.md` does; that it ever finishes a job is not
assumed. In `PoolServer` some runnable handler or worker goes on (`Progress`), and so
does the shutdown once it can (`Draining`); no background task has to run; in `RequestPipeline`
each handler and the executor; in `Exchange` the worker, the handler, and a client
that reads or leaves: a client that does neither keeps the forwarder, and with it
the worker, for ever, and nothing in the code bounds that. Crashes, edits, clears,
time-outs and departures are never forced.

### Disagreements

Shown by runs that expect a violation:

* `persistent_cancel`: after a client leaves, the flag of its worker is cleared
  by the next tick although the worker was not replaced, and the next client is
  sent the response of the one who left. `OnlyAbandonedLeak` says how far this
  goes: it takes an abandoned request or a doubly used worker to start it, but
  from then on each client of that worker may get its predecessor's response.
* `vhost_cache`: the keys of the response cache and of a flight have no host, so
  a page of one virtual host answers the same path of another.
* `pool_respawn`: `reap_and_respawn` appends the replacement of a dead process
  and keeps the dead entry, so the slot never gets it; after two passes the
  subtraction in `refresh_fds` wraps around and the reaper ends.

Shown by further configurations, each of which ends with a counterexample
(`tlc -config X.cfg M`). The property is what the repository says; the last column
says how the properties of the passing runs deal with it.

| Configuration | Module | Violates | What the code does | Elsewhere |
|---|---|---|---|---|
| `coalesce_gap.cfg` | `MCCachedRequest` | `FollowersAnswered`: "Awaiting the future yields the leader's value (or `None` if the leader aborted)" (`coalescer.rs` 68) | a follower between `acquire` and `notified()` misses `notify_waiters`, which stores no permit, and waits without a time-out | `SubscribedWakes` starts at the subscription; `EveryRequestEnds` excepts `missed` |
| `stale_hit.cfg` | `MCCachedRequest` | `ChangedSourceMisses`: "if the source changes, the cache entry is invalidated" (`turbine-cache/src/lib.rs` 4) | with the default `opcache.validate_timestamps=0` the body of the old script is stored under the hash of the new one | `FreshHit` assumes `validate` |
| `upload_names.cfg` | `MCRequestPipeline` | `OwnUploads`: "Files are written to temp files so PHP can access them via `$_FILES['tmp_name']`" (`compat.rs` 490) | concurrent uploads write, move and unlink files of the same names | `LoneUploadIntact` excepts `crowded` |
| `pool_recycle.cfg` | `MCPoolServer` | `GracefullyReplaced`: "the worker is gracefully replaced" (`docs/architecture.md` 135) | a replaced native worker writes a ready response that nobody reads; its first request is answered with it | `OwnAnswer` is about the first generation |
| `pool_reload.cfg` | `MCPoolServer` | `RequestsCompleteFirst`: "current requests complete first" (`docs/hot-reload.md` 22) | a reload sends SIGTERM to workers that run a script | |
| `pool_shutdown.cfg` | `MCPoolServer` | `ShutdownEnds`: "Wait for all workers with a timeout" (`pool.rs` 432) | `waitpid` has no limit, and a worker forked after startup survives SIGTERM | `FirstGenerationStops` |
| `cleanup_output.cfg` | `MCExchange` | `CleanupDiscarded`: "Cleanup output is intentionally discarded below" (`persistent.rs` 1022) | the cleanup script prints into the response | `WholeBody` counts it as output of the request |
| `cut_stream.cfg` | `MCExchange` | `CutStreamShown`: "Pipe EOF mid-stream → `body` yields `Err(UnexpectedEof)`" (`stream.rs` 361, of the unused twin `consume_streaming`) | the forwarder closes the body without an error, so a response cut off by a crash looks complete | `WholeBody` says prefix there |
| `long_header.cfg` | `MCExchange` | `FullyDecoded`: "Signal that the request finished cleanly (response fully decoded)" (`main.rs` 744) | a header of 64 KiB or more is written with a cut length; the reader loses its place and may give the worker back | `Aligned`, `WholeBody`, `FailureShown` except `skewed`, `ResponseEnds` a `lost` reader |
| `channel_cancel.cfg` | `MCExchange` | `NothingInFlight`: "a cancelled future cannot leave bytes "in flight"" (`main.rs` 702) | the response of a client who left stays in the channel, and the next request of the worker receives it | as above |

Met while modelling; the modules behave as the code does, and the properties of
the passing runs are worded so that they hold all the same:

* With a quota, `refresh_fds` can queue a slot that a handler is about to return
  or has just popped, and in channel mode its first tick queues every slot a
  second time, so two requests are given one worker. `SlotExclusive` is therefore
  checked and proved without recycling only, and `OnlyAbandonedLeak` exempts
  workers that were `mixed`.
* Two first increments of a key of the shared table both find it absent and both
  insert it; one is lost, although `docs/shared-state.md` calls counters atomic.
* With persistent workers every request returns from the branch at `main.rs` 3448,
  which collects the whole response. The streaming branch (4405-4617) and the
  named pools behind it are never reached, while `docs/architecture.md` describes
  streaming as automatic.
* Named pools and the streaming path drop the flag of a failed script, and
  X-Sendfile sets the status to 200; `FailureShown` excepts them.
* A write of an upload that fails midway leaves a partial file; nothing removes it.
  `NoOrphanUpload` is about files that were written.
* `busy_count` of the default pool is always 0: the scaler never grows it, and the
  first phase of the shutdown does not wait for its requests.
* The default pool's guard sets the flag before it kills the worker; a tick in
  between revives the slot with the old worker. `OwnAnswer` is therefore about
  named pools; `PersistentDispatch` has the consequences.

Two pushes can also leave a job queued while a second consumer of its channel
sleeps, because permits of `Notify` do not add up. This contradicts nothing the
repository says (the poll ends at its deadline and the next one takes the job),
so the properties say how far it goes: it never happens to the only consumer of
a channel (`LoneConsumerWoken`), and the job is taken all the same
(`JobsEventuallyTaken`).

## 4. Proofs

All hold for every value of the constants that satisfies the modules' named
assumptions: any number of slots, requests, workers, keys, channels, any quota,
capacity, threshold and clock, and both transports unless stated.

| Theorem | Statement |
|---|---|
| `TypeCorrect` | `ThreadDispatch`: `Spec => []TypeOK` |
| `NoSlotIsLost` | `Spec => []NoLostSlot` |
| `QueueIsBacked` | `Spec => []QueueBacked` |
| `SlotsAreExclusive` | pipes, no quota: `Spec => []SlotExclusive` |
| `PermitsHaveIndices` | pipes, no quota: `Spec => []OnePermitPerIdle` |
| `RefinesSlotLease` | pipes, no quota: `Spec => Lease!Spec` |
| `PersistentImplementsDispatch` | `PSpec => Spec`: workers, crashes and departures change nothing of the dispatch |
| `PersistentSlotsKept` | `PSpec => [](NoLostSlot /\ QueueBacked)` |
| `ReadyIsConsumed` | `PSpec => []ReadyConsumed` |
| `LeaksHaveCause` | `PSpec => []OnlyAbandonedLeak` |
| `FlightsHaveLeaders` | `CachedRequest`: `Spec => []FlightHasLeader` |
| `FollowersWakeDecided` | `Spec => []WokenMeansDecided` |
| `HitsAreFresh` | `Spec => []FreshHit` (with `opcache.validate_timestamps`) |
| `UploadsAreDropped` | `RequestPipeline`: `Spec => []NoOrphanUpload` |
| `LoneUploadsFindTheirFiles` | `Spec => []LoneUploadIntact` |
| `PrivateAnswersStayPrivate` | `Spec => []PrivateAnswersStay` |
| `SqliBlocksHold` | `Spec => SqliBlockHolds` (an action property) |
| `PipelineTypes` | `Spec => []TypeOK` |
| `PoolTypes` | `PoolServer`: `Spec => []TypeOK` |
| `WorkersUsedByOne` | `Spec => []UsedByOne` |
| `BusyHasCause` | `Spec => []BusyForCause` |
| `AnswersAreOwn` | `Spec => []OwnAnswer` (named pools, first generation) |
| `PrimitivesAreIndependent` | `SharedState`: `Spec => QueueSpec /\ TableSpec /\ WsSpec` |
| `JobsAreConserved` | `Spec => []JobsConserved` |
| `LoneConsumersAreWoken` | `Spec => []LoneConsumerWoken` |
| `SweepsKeepLive` | `Spec => SweepKeepsLive` (an action property) |
| `SessionsHaveNoGap` | `WsHub`: `WsSpec => []NoSilentGap` |
| `FramesAreOrdered` | `Exchange`: `Spec => []FrameOrder` |
| `ResponsesAreAligned` | `Spec => []Aligned` |
| `FailuresAreShown` | `Spec => []FailureShown` |
| `BodiesAreWhole` | `Spec => []WholeBody` |
| `ExchangeTypes` | `Spec => []TypeOK` |

Assumptions. Sets of tasks are finite, sets of tasks that play different parts
are disjoint, and a mark (`NoOne`, `FF`, `None`) is not a task
(`MarksAssumption`, `TrafficAssumption`): all are facts about the encoding. A
form has at most `MaxFiles` parts; the code has no such limit, and no proof uses
more of `MaxFiles` than that it is a number. Time in the guard starts after the
epoch and block times are not zero, as in `BehaviourGuard`'s defaults.
`Kinds` of `Exchange` has no path but the five that are modelled. A request of
`PoolServer` is not one of the marks it is told from (`TasksAssumption`), and of
the pools only the default one is scaled (`ConfigurationsAssumption`), since the
auto-scaler works on `state.worker_pool` alone (`main.rs` 2499); the default pool
is one of processes there.

### ThreadDispatch

`NoLostSlot` needs the types and `Phases`, which ties the reaper's locals to its
step (for example, `revived` is empty outside the swap and requeue steps, and the
loop index has passed a slot once it is in `revived`). The interesting steps are
the ones that take a slot out of the queue without anybody holding it: a skip,
which leaves the slot unpickable, and `RefreshSwap`, which makes it pickable and
puts it into `revived` in the same step.

`QueueBacked` is a counting argument: `Surplus`, the entries of the queue and in
`revived` that no permit backs, is changed by every step in one direction only.
It is an inequality because `add_permits` adds one permit per revived slot even
when the slot was already queued. Without recycling that never happens; the same
lemmas about `Surplus`, read with equality, give `OnePermitPerIdle`.

`SlotExclusive` is not inductive. `Exclusive` adds that a flagged slot or one in
`revived` is neither queued nor held by anyone who would return it, that no slot
is both, and that the scale-up branch is never taken; it holds only without
recycling (see Disagreements). The refinement follows
from it: a slot is leased when it is popped, released when it is pushed,
discarded when it is flagged, and restored when `refresh_fds` queues it; all
other steps leave the mapped state alone.

### PersistentDispatch

Each of its steps conjoins a step of `ThreadDispatch` or leaves the variables of
that module alone, so it implements it, and the theorems about the dispatch carry
over. `ReadyConsumed` needs `Booting`: a ready signal is on the pipe of a worker
the reaper is still waiting for and nowhere else, and no handler has such a
worker's descriptors, since the dispatch learns of it a step later.

`OnlyAbandonedLeak` rests on the response as a token. `OnePlace` says that a
request and its answer stay with the worker the request was written to and are in
one place: on the command pipe, on the response pipe, or with one handler.
`HasCause` says what must have happened when that handler is somebody else's: the
request's own client was forsaken, or the worker is `mixed`;
`UsersMixed` that two handlers with one worker make it so. A crash destroys
tokens and a respawn brings new pipes, so neither can bring two requests together.

### CachedRequest

`FlightHasLeader` needs that a handler has a guard only from `acquire` on, and
that only handlers with a guard reach the publishing steps.
`WokenMeansDecided` needs that a waiter of a slot is a handler waiting for it and
that the slot of a handler is set once. `FreshHit` needs that versions only grow:
a handler's hash is a version that was current (`HashRead`), its own body was
executed afterwards and, with `validate`, is as new (`OwnFresh`), and an entry is stored under the
hash its leader read, never a later one (`CacheFresh`).

### RequestPipeline and BehaviourGuard

`FilesOK` gives types to what the handlers and the executor hold. An upload in
the directory is one that a handler between parsing and its end will remove
(`Owned`); because all ways out, the dropped future of a departing client
included, go through the same removal, no case is special, and what PHP moves or
unlinks only makes fewer. `Marked` says that two uploads that are under way at the
same time, written, handled, queued or executed, are both `crowded`, from the
first file the later one writes; that the names PHP knows (`registered`) are names
of the request it runs; and that a lone uploader's files are its own until its
script has looked. The shutdown of a request whose handler has given up can thus
only unlink names of an uploader that is crowded or its own. `Public` follows an
answer that may be shared into the cache and the flight: what is stored in either
was made for a request that does not forbid it, which `PrivateAnswersStay` needs
of every hit and every follower.

For `SqliBlockHolds` the locks are what matters: a block for SQL injection is
stored under the profile's write lock, so nobody is inside `evaluate` or
`unblock_ip` for this address at that moment. `BlockStands` says that until its
deadline the block stands in the profile and that whoever holds the lock is at a
step (`Harmless`) from which it will look at the flag before it stores to it.
The attempt to prove it in its first form, which spoke of the
clock the request had read, failed, and TLC gave the reason on three requests of
one address: one reads its clock during the block, a second one finds the block
expired and clears it, and the first one then passes. The deadline has passed by
then, so nothing is let through early, and the property now compares the deadline
with the time of the step.

### PoolServer

A lemma per operation of `WorkerPool` comes first. Most operations keep the worker
behind every index and its pipes (`SameWorkers`, `SamePipes`). The ones that fork
(`reap`, `spawn_additional`, `spawn_workers`) share one description, `Refilled`:
every worker is kept or is a fresh fork, a fresh fork is queued once, and what was
queued before stays queued. The theorems use these descriptions and not the bodies.

`UsedByOne` needs `Lease`: an index is in the idle queue once or with one task, and
the task's pipe ends are those of the worker behind it. A dead thread is replaced
at its index while a handler may still hold the index, so `LeaseIn` says this
of the indices whose worker is not exchanged (`Fixed`) and, for the others, only
that pipe ends of the first generation are not shared.

`BusyForCause` counts. `Permits`: the free permits and the tasks with one are as
many as the pool has workers. `Places`: an idle worker is queued and a busy one is
with a task. If the queue is empty and no worker is on its way out, every worker is
with a task that holds a permit, so the request that asks would be one more holder
than there are permits.

`OwnAnswer` follows the request as a token. `Tokens` says of each worker of the
first generation of a named pool that at most one request is on its way through it,
and that it, or its response, belongs to who reads from it (`Clean`); a response
that nobody reads is one of a worker that is dead. What has to be shown is that a
request is sent only to a worker nobody reads from (`OneRead`), which is `Lease`. A
client that leaves does no harm: the reading task outlives it.

`Lease`, `Permits`, `Places` and `Tokens` were first checked by TLC as invariants of
the instances of `pool`.

### SharedState

Every step of `SharedState` is a step of one primitive and leaves the others
alone (`PrimitivesAreIndependent`), so each is proved about its own
specification. `JobsConserved` counts the pairs of a channel and a position
(`Places`): a push adds one, a pop or a clear removes what it counts. For
`LoneConsumerWoken`, `Listed` ties the wait list to the consumers that are in it,
and `Announced` says that a job queued for the only consumer of a channel is
announced: a push is about to notify, or the consumer was woken if it sleeps, or
a permit is stored if it is about to.
The interesting step is the drop of a timed-out poll, which hands a wake-up on:
with one consumer nobody else can take it. `SweepKeepsLive` needs `MapOK`, by
which the clock the sweeper has read is not in the future.

`NoSilentGap` needs only the types and that nothing is handed on before the
session has subscribed: a lagging session stops reading, so the sequence it has
handed on grows by exactly the frame at its position.

### Exchange

The elements of a pipe are of several shapes, and the provers do not find that a
sequence of them is one; `IsSeq` and a few lemmas about `Append`, `Tail` and `\o`
come first, then what `engage_streaming`, `turbine_ub_write` and `write_response`
return. No induction over frames is needed: shapes are stated with quantifiers over
positions.

`WorkerOK` says that what was written of a response and what waits to be written
make up a response, as far as the worker has come: nothing before streaming is
engaged, then Headers and chunks, an End only from the last step on. `FrameOrder`
follows. `HandlerOK` adds the reader: for some number of frames `c`, exactly the
first `c` have been read and the pipe holds the others (`Lined`), and the place the
handler is at fits what the first `c` were (`Phase`). The clause by which nobody
reads past an End is what makes `Aligned` inductive: an idle handler has read the
End, behind which nothing is written, or its worker is dead or about to be killed
by the guard of a client who left (`left`).

All of this holds until a reader loses its place; `skewed` never becomes
false again, so the invariants have the form `skewed \/ ...` and
the step that sets it needs no more. The types must hold afterwards as well.
`Loose` therefore describes pipe, accumulator, client and channel (`Traffic`,
`AccOK`, `ClientOK`, `ChanOK`, `PlaceOK`) without saying which frame was read where.

`FailureShown` follows a flag: frames carry no better result than the script had
(`FrameData`), and the code collected so far is that of a Headers frame.

`WholeBody` follows the lines. `LinesOK` says that what the request printed (`src`)
is cut, in this order, into what the client or the handler has, the body channel,
the frames in the pipe, the frames that wait to be written, the output buffer and
PHP's own. The cuts are existential: `Slice` is a part of `src`, `Pieces` a sequence
of sequences that are consecutive parts of it, and every step moves one cut. An
answer is complete when the handler has read an End, and then all cuts but the first
are at the end of `src`. A broken frame that was passed on ends the obligation
(`Unbroken`), since the client aborts when it comes to it. After a crash the lines
the client has are still a `Slice` from the first on, so a prefix.

### Only model-checked

Liveness (`CapacityRestored`, `EveryRequestEnds`, `PoolRecovers`,
`SubscribedWakes`, `ExpiredReclaimed`, `JobsEventuallyTaken`, `EveryHandlerEnds`,
`FirstGenerationStops`, `ResponseEnds`), which is beyond the prover. `RequestIntact`,
because decoding folds over the fields of a request and would need induction over
data. Every other safety property that a passing run checks is proved.

## 5. Not modelled

Listed with reasons in `PROJECT.json`. In short: PHP itself and the FFI (external:
scripts, output buffering, crashes appear as choices); configuration parsing and
its checks, the pattern lists of the guards, compression, CORS and the rest of
the formatting of an answer (conversions of bytes); TLS, listeners and sockets,
CLI, embedded application, io_uring and the shared memory segment (I/O, no state
of their own); metrics (counters nobody decides on); ACME (a
sequence of calls to an external service).

Left out of modelled parts: `send_execute` and `worker_event_loop` of the pool
and `consume_streaming`, which have no caller; the Error frame, which no worker
writes.

## 6. Plan

What could come next: the bytes behind a cut header length, in place of a choice of
outcomes; the renewal of certificates; a form of `OwnAnswer` for respawned workers,
which would have to count the ready response that nobody reads.
