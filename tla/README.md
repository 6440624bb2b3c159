# Vigil collector: a TLA+ verification project

Models, model checks and proofs of the Vigil collector (`src/`): a single
Rust process that samples the host once per interval, serves the latest sample
over HTTP and WebSocket, and optionally streams it to a hub. Every definition is
translated from the source; `PROJECT.json` maps each one to its lines.

## 1. Inventory

The runtime has one thread (`main.rs:36`, `current_thread`). Tasks switch only
at an `await`; the blocking pool is the one thing that runs beside them. So the
unit of interleaving in the models is what a task does from one await to the
next, and the pool's refresh is a step that may fall between any two others.

| Component | State | Operations | Talks to |
|---|---|---|---|
| Sampler (`sampler.rs`) | `SamplerState` (tick, caches, rate baselines), its owner; three JSON buffers and the `Snapshot` slot | seed, tick, refresh on the pool, publish, rebuild after a panic, stop | slots are read by the HTTP handlers, push loops and hub client |
| Tokens (`server/worker.rs`) | the set of pending ids | issue, claim, expiry task of each id | `POST /worker`, `GET /connect` |
| WebSocket sessions (`server/ws.rs`) | `active_ws`; each push loop's timer | capacity check, upgrade, push, read, end | token registry, `ws_system` buffer, the client |
| Hub client (`hub/`) | backoff, the loaded `Arc<Snapshot>`, the connection | connect, hello, welcome, push cycle, retry, stop | snapshot slot, the hub |
| Lifecycle (`main.rs`, `server/mod.rs`) | signal handlers, the shutdown `Notify`, open connections | boot, signal, notify, drain, stop the parts, exit | every other part |
| HTTP routes (`server/http.rs`) | none | load a buffer, issue a token, run probes | sampler slots, tokens, probes |
| Probes (`server/probes.rs`) | none between calls; per call the settings it read and the request in flight of each target | read the settings, HEAD, on 405 GET, each with a timeout, join all | settings file, remote servers |
| Settings (`config.rs`) | none in memory: the settings file and its legacy directory, read again by every call | migrate, create defaults, parse or fall back | boot, every `/probes` call, whoever edits the file |
| Collectors (`metrics/`) | rate baselines, `PSS_SUPPORTED` | rankings, rates, rounding | `/proc`, `/sys`, `statvfs` |
| Snapshot views, log, CLI, dashboard, systemd unit | none of interest | formatting, argument parsing | |

Hard behaviour, and where it is: four slots stored one after the other and read
by everybody; a state that is moved to a pool thread and lost when it panics; a
build profile that turns that panic into an abort; a capacity test and its
increment in different polls; a token raced for by handshakes and its expiry
task; two `select!`s waiting on one `Notify` that keeps no permit; a reconnect
loop with growing delays against a hub that may do anything; a shutdown whose
notification must not come early; a settings file that an operator edits, and a
kill may truncate, between any two of the calls that migrate, create or read it;
a disk collector that reports zeros when it reads nothing. `PROJECT.json` lists
each under `hazards` at its line.

What makes each correct:

* sampler: the state always comes back, readers see one snapshot at a time and
  never an older one, cached lists are no older than their cadence, no traffic is
  counted twice, stop is final, and a serving process is never silent;
* tokens: one connection per token, none after expiry, nothing left behind;
* sessions: the counter is exact, the cap holds up to the handshakes in flight,
  pushes keep their cadence whatever the client sends, a lost client frees its slot;
* hub client: delays stay in bounds and shrink only after a clean end, frames keep the protocol's order and come
  from one snapshot per cycle, stop silences it, streaming resumes;
* lifecycle: a signal is never lost, requests are drained before the sampler
  stops, the process exits;
* settings: a read returns what the file says, and destroys nothing that an
  operator saved;
* probes: a call uses the settings the file holds when it is made, answers within
  two timeouts, and always returns;
* rankings: stopping the PSS reads early loses no entry, and the pid of an entry
  is worth following.

## 2. Modules

| Module | Models | Correspondence |
|---|---|---|
| `SnapshotCell` | abstract: one cell, written and read as a whole | what the sampler promises its readers |
| `Sampler` | `sampler.rs`, and the exit in `main.rs` | `task` is the await (or the store) the tick task is at; `holder` is who owns the `Box<SamplerState>`; `job` the `spawn_blocking` handle; `json`, `snap` the four slots |
| `SamplerProofs` | theorems about `Sampler` | |
| `WorkerTokens` | abstract: a token is fresh, pending, then redeemed or expired | what `POST /worker` promises |
| `WsServer` | `server/worker.rs`, `server/ws.rs` | `registry` is the map behind the mutex, `expiry` the spawned task of each token, `conn` the await each connection is at, `active` the atomic; `peer` and `inbox` are the client |
| `WsServerProofs` | theorems about `WsServer` | |
| `HubClient` | `hub/client.rs` | `pc` is the supervisor's await, `cycle` the `Arc` that `push_loop` loaded, `wire` what the hub saw last |
| `HubClientProofs` | theorems about `HubClient` | |
| `Lifecycle` | `main.rs`, `serve` | `queue` is the run queue of the runtime, `at` the awaits of the signal task and of the future given to `with_graceful_shutdown` |
| `LifecycleProofs` | theorems about `Lifecycle` | |
| `ProcessTop` | `metrics/process.rs` | one scan after another: `pc` is the loop the scan is in, `left` what the loop has not come to, `proc` the processes themselves, `supported` the `OnceLock` |
| `ProcessTopProofs` | theorems about `ProcessTop` | |
| `Settings` | `config.rs` | `at` is the file-system call that `read_settings` makes next, `file` and `legacy` the two directories, `cfg` the `Settings` it returned; `saving` is an editor in the middle of its save |
| `Probes` | `server/probes.rs`, the boot's read and its client in `server/mod.rs` | extends `Settings`; `phase` is the request each target's future awaits, `spent` its timer, `call` the handler |
| `ProbesProofs` | theorems about `Probes` and `Settings` | |
| `MC*` | instances for TLC | |

Definitions marked `Mutant` in a module are not part of its specification. Each
is the neighbouring definition with a plausible bug, and is there to show that
the property named for it in `PROJECT.json` fails when the code is wrong.

Two compositions are by refinement: `Sampler` and `WsServer` implement
`SnapshotCell` and `WorkerTokens`, which is what their clients may rely on.
`Probes` composes the reader of the settings with the two that call it, the boot
and the handler.

### Abstractions

*Sampler.* A refresh is named by its ordinal, and what it measured by when it
measured it: a snapshot carries the versions of its process scan and its mount
table, and for each rate the pair of versions whose counters were subtracted.
This is what freshness and double counting are about; the numbers are not. A
reading of the disk counters has `totals`, or is `none`, or is `blank`:
`/sys/block` cannot be listed, and zeros become the baseline (`Boot`). The
network counters are assumed to be always readable. `SerializeMayFail` explores the
branch of `publish` that leaves a buffer as it is, though nothing in a view is
known to fail to serialize. `PanicStrategies` are the
builds a run explores; a run with both lets every panic unwind or abort, which
includes all that either build does. The runtime being single threaded is not assumed but stated as `RuntimeFree`, and
the mutant `RuntimeAlwaysFree` shows what breaks on a multi-threaded one.

*WsServer.* A token is a fresh name. Time is the firing of timers. A client
reads, has stopped reading, or is gone, and may put one frame at a time in its
inbox; the content of a push is the sampler's business.

*HubClient.* The snapshot is its version. The hub is the environment and may
refuse, fall silent, answer anything, close or break at every await. Delays are
milliseconds, and the `f64` product is truncated.

*Lifecycle.* `axum::serve` and the scheduler are not in `src/` and are modelled
from how it uses them: a future given to `with_graceful_shutdown` is spawned on
the first poll of `serve`, accepting stops when it resolves, and serve returns
when every connection that was not upgraded is closed. tokio's signal handlers,
once installed, stay.

*ProcessTop.* The scan's figures are chosen when the code first uses them, and a
PSS figure when it is read: it may be larger than the RSS of the scan, because
the process ran on. Loops over a `HashMap` visit in any order and ties rank in
any order, so a ranking is the set of its entries. A process that exited is a
zombie, which exists and cannot be read, until it is reaped.

*Settings.* A directory is named by what its `settings.json` holds: the directory
is absent, or has no such file, or the file is partial, the defaults, or what an
operator saved, which parses (`Edits`) or does not (`Malformed`). The read has no
await, so nothing of the process comes between its calls; an operator may come
between any two, and saves in place (truncate, then write), replaces the file by
a rename, or deletes it. A rename, a creation or a write may fail, and the
process may be killed before any of them. That a file exists is assumed to be
found out: a `stat` in the operator's own home does not fail.

*Probes.* A call at a time: calls share nothing but the read, which excludes
itself. Time is in ticks, and a timer that is due fires before the next one. A
target answers, denies, fails or is silent. The status codes, and the latency
reported, are data that no property is about.

## 3. Runs

| Run | Question | Result |
|---|---|---|
| `sampler_safety` | Does the tick task keep its promises when refreshes panic, counters cannot be read or read as zeros, the tick wraps, and readers and stop come at any point? | holds; refines `SnapshotCell` |
| `sampler_faults` | And when serialization fails and a rebuild panics as well, whether panics unwind or abort? | no slot goes back, panicking refreshes leave no process alive and silent, stop ends it |
| `sampler_panic` | Is a panicking tick "not a process crash" (docs/runtime-semantics.md:41)? | violated in the release profile |
| `ws_safety` | Are tokens single-use, the counter exact, and the cap exceeded by how much? | holds; refines `WorkerTokens`; at most `MaxHandshakes - 1` over |
| `ws_liveness` | Do pushes, slots and tokens make progress against any client? | holds |
| `ws_cap` | Is `max_ws_connections` a cap on concurrent clients (README.md:136)? | violated with two handshakes in flight |
| `hub` | Does the delay stay in its bounds and shrink after a clean end only, are frames in order, is stop followed by silence, and does streaming resume? | holds |
| `lifecycle` | Is a signal ever lost, a request cut, or the exit missed? | holds |
| `lifecycle_second` | Does a second signal kill a draining process (docs/how-it-flows.md:214)? | violated: it has no effect |
| `process_top` | Is the streamed ranking exact and full, and does a CPU entry point at a busy process? | holds |
| `process_busiest` | Is the representative the busiest process of its entry (process.rs:265)? | violated: the last busy one visited wins |
| `probes` | With an operator editing, file-system calls failing, a kill at any step and targets of every behaviour: which settings does a call use, what does a read destroy, when does a call answer? | what the file says; nothing saved; within two timeouts, always |

### Bounds

* `PROCESS_SCAN_EVERY = 3`, `DISK_LIST_REFRESH_EVERY = 5`, `TickMod = 8`,
  `MaxRefreshes = 12` in `sampler_safety`: both cadences come due several times,
  apart and together, the counter wraps to zero between two scans (8 is a
  multiple of neither, as 2^64 is of neither 5 nor 60; no process lives that
  long, but the code says `wrapping_add` and so does the model), and two panics
  (`MaxPanics`) allow a rebuild and a panic of the rebuilt state. The other
  sampler runs use 2, 3 and 4 with fewer refreshes, as they add failures.
* Three tokens and three connections with a cap of one and two handshakes in
  flight: a claim can race a second claim and an expiry, and the cap can be
  exceeded while a third connection is refused. Tokens and connections are
  interchangeable, so `ws_safety` uses their symmetry; `ws_liveness` does not.
* `HubClient` runs with the code's constants (1 s, 30 s, 1.7), so the delay takes
  every value it takes in the program, and four snapshots, enough for the slot
  to change between any two sends of a cycle.
* Two connections and two signals for `Lifecycle`: one connection is busy while
  another is idle, upgraded or accepted; the second signal arrives at every
  point of the drain.
* `ProcessTop` ranks two of three entries, one of which has two processes, beside
  a thread that has to be skipped: the walk can stop early, go to the end, and
  replace either entry, and the collector itself is in an entry. Figures of two
  sizes are enough for a process to shrink, keep or grow between scan and read.
  Processes exit only while the probe or a read looks at them (`Observed`): no
  other step reads their state.
* `Probes` has a timeout that is ordinary (three ticks), one that is negative and
  so clamped to the minimum of one, and one beyond the longest `Duration`, which
  panics; the defaults are two ticks. With two targets, one can be in its GET
  while the other is in its HEAD, and settings may list both, one or neither. Two
  timeouts of three ticks are six, so `age` reaches its bound. The file system
  starts in every state, so a read finds what any history can leave there.

### Fairness

Timers fire, the run queue and the driver are served, and a refresh returns:
weak fairness on the actions of the process itself. Panics, signals, and clients
are never forced. Two assumptions go beyond the process: a request in progress is
answered (`Lifecycle`; probes have a timeout and everything else is served from
memory, but a client that never reads would hold the drain), and a hub tried
again and again accepts and answers in the end (`HubClient`, strong fairness).
The client has no timeout for either, so nothing weaker would do. In `Probes` the
file system returns from a call, ticks pass, due timers fire and the future of a
call is polled when its probes have settled; no target owes an answer. There
`CallBounded` and `CallReturns` give, for `/probes`, what `Lifecycle` assumes of
the requests in progress.

## 4. Proofs

TLAPS checks every theorem for all values of the constants, from the named
assumptions in the modules: positive cadences and modulus, finite sets of tokens
and connections, a cap and bounds that are naturals, a growth factor of one
or more with an initial delay no greater than the maximum, saved contents told
apart from the states of an unsaved file (`ContentAssumption`), and timeouts that
are any integers with a minimum of one or more (`ConfigAssumption`).

* **Sampler.** The invariant is a conjunction of four parts, each of which needs
  the ones before it: *control* (who owns the state at each await, and that the
  tick task is in its select, its join, or publishing), *versions* (slots never
  ahead of the clock, nothing published twice), *freshness* (the age of a cached
  list is the number of ticks since it was last due, whatever the wrap) and
  *windows* (the baseline held by the state is the end of the last published
  window, or none, or for the disks the zeros of a blank reading; the one of the
  network is unset exactly when the last refresh was lost). `ProcessesFresh` alone
  is not inductive: that a snapshot is fresh depends on what the state, the pool's
  result and a rebuilt state carry.
  The wrap is handled by an arithmetic lemma about the remainder of a successor.
  From it: `StateAlwaysRestored`, `ProcessesFresh`, `MountsFresh`,
  `NetRateIsOneTick`, `RatesTile`, `StopIsFinal`. With `~SerializeMayFail`, a
  fifth part says which slots a publish has reached, and gives `SlotsAgree`,
  `MonotoneReads` and the refinement of `SnapshotCell`. Without that assumption the
  slots may disagree, and `SlotsNeverRegress` still holds: a buffer holds a version
  no newer than the clock's, and what is stored next is as new as the clock.
* **WsServer.** Tokens: an id in the registry has never been claimed and has its
  expiry task asleep; hence single use, and the refinement of `WorkerTokens`.
  Sessions: `active` is the cardinality of the running connections, which needs
  how cardinalities change when one connection changes phase; hence that the
  counter never goes below zero, `OvershootBounded`, and an exact cap when
  `MaxHandshakes = 1`. `PendingExpires` is the tokens' invariant read from the
  other side: what is in the registry has the task that takes it out. A token that
  left the registry has a task that is no longer unborn, so it cannot be issued
  again (`TokenStaysOut`).
* **HubClient.** The last frame seen at each await of the supervisor; the bounds
  of the delay need that a factor of one or more does not shrink a natural number
  even when the division rounds down. The same lemma, step by step, is
  `DelayNeverShrinks`.
* **Lifecycle.** Which tasks are in the run queue, and in which order, at each
  await of the signal task; hence no notification is lost. It is the order of the
  queue alone that gives this: the invariant says nothing of when the driver
  delivers a signal.
* **ProcessTop.** What the streaming loop has taken and left out is worth no more
  than what is ranked, and it has left nothing out unless the ranking is full;
  hence that the early stop is exact, for every `TOP_N`. That needs the order of
  the walk only at its end, where the next entry's RSS bounds all that follow.
  A CPU entry's representative is unset exactly while none of its processes were
  visited, and busy as soon as one was. `EarlyStopIsExact` says what the early stop is
  worth to a caller: give the entries that were not read any PSS within their RSS,
  and the ranking is a correct ranking of those figures.
* **Probes.** A read that the operator leaves alone comes to the calls that write
  only where there is nothing to lose: what each await knows of `file` and
  `legacy` is the invariant, and gives `EditPickedUp` and `SettingsKept` at once.
  For the bound, a target in its HEAD has spent the age of the call, and one in
  its GET was denied no later than one timeout after the start; `age` alone is
  not inductive.

### Progress

The prover does not reason about ENABLED, so the progress theorems state each
fairness assumption of a `LiveSpec` with the guard of its action: `WeakFair(g, A)`
says that `g` does not hold for good without a step of `A`, and `StrongFair(g, A)`
that it does not keep coming back without one. A guard is the conjunction of the
action's unprimed conjuncts, under the invariant, and what remains of the action
only assigns primed variables, so it enables the action and the assumption follows
from the WF or SF of `LiveSpec`. Nothing is assumed of panics, signals, operators,
or clients that is not in `LiveSpec`.

* **Sampler.** A tick goes through eight stages (sleep, refresh, join, four
  stores, or a panic and the rebuild) and each leads to the next, to a newer
  snapshot, or to one more panic (`TickSettles`). So once panics cease every tick
  publishes (`QuietTicksPublish`). A stopped process exits, however its last refresh
  ends (`StopEndsProcess`). In a release build the first panic is the last step, so a
  live process never had one: the recovery is dead code (`ReleaseNeverRecovers`)
  and no process is alive and silent, with any number of panics allowed (`ReleaseNeverSilent`).
* **WsServer.** For each token and each connection: an issued token leaves the
  registry, and stays out of it; a due push is sent whatever frames arrive, because the
  biased select looks at the timer first; the session of a lost client is
  uncounted, at its next send if no read tells it before. Hence `TokensDrain`,
  `CadenceKept` and `SlotReleased`.
* **HubClient.** From a break the client comes to a new stream, unless a
  stop or a panic ends it first (`StreamComesBack`). Each failed answer leads back to the
  delay, so each of the hub's three answers needs strong fairness.
* **Lifecycle.** A received signal passes through five places (the handler, two
  orders of the run queue, the notification, the woken future) before the accepting
  ends (`SignalBeginsDrain`). Then each connection leaves the drain and stays out
  (`ConnectionDrains`), serve returns, and the process exits (`SignalsEndProcess`).
* **Probes.** A read comes to its end, as no call of it comes twice however the
  operator interferes (`ReadsEnd`). A call that probes ends or grows a tick older
  (`CallsProceed`), and `CallBounded` bounds its age.

Only model-checked:

* `DrainEnds`, which `SignalsEndProcess` assumes: no connection holds the drain
  for good. It is `ConnectionDrains` for each of finitely many connections, and
  that finitely many of them are drained together is an induction over the set.
* `NeverSilent` where panics unwind, and `CallReturns`. Each is an induction over a
  number (the panics that may still come, the age of a call) of a step that is
  proved (`TickSettles`, `CallsProceed`), and induction over the naturals is out of
  reach.
* That a guard enables its action, and so that `LiveSpec` implies the assumptions.
  The runs check the liveness properties under `LiveSpec` itself.

## 5. Findings

1. The release profile aborts on panic (`Cargo.toml:57`), so the recovery of
   the sampler (`sampler.rs:254-260`) is unreachable in a release build, where a
   panicking tick ends the process, against docs/runtime-semantics.md:41 and
   docs/ARCHITECTURE.md:129. That it is unreachable is proved, and what
   remains true as well: the process is never alive and silent.
2. The WebSocket cap is tested when a request arrives (`ws.rs:32`) and taken when
   its upgrade completes (`ws.rs:43`): handshakes in flight pass together. The
   proved bound is the cap plus the handshakes in flight less one.
3. A second signal during a graceful shutdown does nothing, against
   docs/how-it-flows.md:214: tokio's handlers stay after the task that waited for
   the first signal has ended.
4. The representative pid of a CPU ranking entry is the last process with a
   share above zero that the loop visits (`process.rs:268`), in the order of a
   `HashMap`, and not the busiest one, against the comment at process.rs:265.
   What holds, and is proved, is that it is not an idle one.

Observed while modelling, and part of the models as the code has it, without a
run that is expected to fail:

* `serve` makes a `Duration` of `probe_timeout` as it is (`server/mod.rs:56`),
  for a client that `probes::run` does not use: it builds its own, with the
  timeout clamped from below (`probes.rs:28`). So a negative timeout is harmless
  in a call and panics the boot (`Booted`), where config.rs:127-129 falls back to
  the defaults for any file it cannot use.
* The timeout "per probe" (README.md:139) is one per request: a probe whose HEAD
  is denied late may take two (`CallBounded`).
* A save that falls between the test for the file (`config.rs:133`) and the write
  of the defaults (`config.rs:142`) is overwritten. `SettingsKept` therefore
  speaks of reads the operator leaves alone. A write of the defaults that is cut
  short leaves a file that no later read repairs; each falls back to the defaults.
* A migration that fails is followed by the creation of the new directory, which
  from then on hides the legacy settings; they are kept, but not read.
* When `/sys/block` cannot be listed the totals are zeros (`disk.rs:192`) and
  become the baseline: the next rate counts everything since boot. This is the
  exception in `RatesTile`.
* If `SamplerState::new` panics while it replaces a lost state (`sampler.rs:259`),
  the tick task is dead and the process serves its last snapshot until it is
  stopped. This is the exception in `NeverSilent`.
* A process whose PSS is not read and that grew after the scan is ranked by nothing
  (`process.rs:180`): the ranking is exact for figures within the RSS of the scan.
* docs/runtime-semantics.md:79-80 says that the sampler's tick loop awaits the shutdown
  `Notify`. It has one of its own, which `main` notifies after the drain
  (`sampler.rs:235`, `main.rs:101`), as lines 202-204 of the same document say.
* The comment on the ceiling of a limit (`hub/flatten.rs:5`) says 2 GiB; `1 << 41` is
  2 TiB.

## 6. Not modelled, and the plan

Not modelled because there is no state or choice in it: snapshot views, log
formatting, command line, static assets, the browser dashboard, the unit file.
Parsing of `/proc` and `/sys` is input. The handlers of `server/http.rs` other
than those above load a slot and answer from it, or read the host for that one
request and keep nothing. The kernel's side of a blocked `statvfs` is not
modelled: a refresh that does not return is excluded by fairness, and a process
that waits for it at its exit is a hazard without a property.

Planned, in this order:

1. `Metrics`: saturation, rounding and the shares as pure operators against
   reference definitions over bounded inputs; `flatten` and its ceiling.
2. A composition of sampler, sessions and hub client, with `SnapshotCell` in place
   of the sampler: what the clients of the slots see end to end.
3. Proofs: the rate arithmetic, and the composition from the cell's promises.
