------------------------------- MODULE Sampler -------------------------------
(***************************************************************************)
(* src/sampler.rs: the tick task, the SamplerState it shuttles through the *)
(* blocking pool, and the four slots its readers load from.                *)
(*                                                                         *)
(* A refresh is named by its ordinal: version v is the v-th call of        *)
(* SamplerState::refresh of the process.  What was measured is abstracted  *)
(* to when it was measured: the version of the process scan and of the     *)
(* mount table a snapshot carries, and for its disk and network rates the  *)
(* pair <<from, to>> of versions whose counters were subtracted.           *)
(*                                                                         *)
(* The runtime is single threaded (src/main.rs), so a step of the runtime  *)
(* excludes every other; only the blocking pool runs beside it.            *)
(***************************************************************************)
EXTENDS Integers

CONSTANTS
  PROCESS_SCAN_EVERY,       \* process scan cadence, in ticks
  DISK_LIST_REFRESH_EVERY,  \* mount table cadence, in ticks
  TickMod,                  \* the tick counter is a u64: 2^64, scaled down
  PanicStrategies,          \* what a panic does in the builds considered:
                            \* "unwind" (dev), "abort" (release)
  RebuildMayPanic,          \* SamplerState::new may panic as well
  SerializeMayFail,         \* serde_json::to_vec may return Err
  MaxRefreshes,             \* bound: refreshes explored
  MaxPanics                 \* bound: panics explored

ASSUME CadenceAssumption == /\ PROCESS_SCAN_EVERY \in Nat \ {0}
                            /\ DISK_LIST_REFRESH_EVERY \in Nat \ {0}
                            /\ TickMod \in Nat \ {0}
ASSUME BuildAssumption == /\ PanicStrategies \subseteq {"unwind", "abort"}
                          /\ RebuildMayPanic \in BOOLEAN
                          /\ SerializeMayFail \in BOOLEAN
ASSUME BoundAssumption == MaxRefreshes \in Nat /\ MaxPanics \in Nat

VARIABLES
  life,     \* the process: boot, running, stopped, exited or crashed
  task,     \* where the tick task is; the store pcs are inside publish
  holder,   \* who owns the boxed SamplerState: task, pool, result, nobody
  state,    \* its fields that outlive a refresh
  job,      \* the spawn_blocking job: idle, running, ok or panicked
  result,   \* the snapshot the last finished job returned
  json,     \* CachedJson: the version each pre-serialized buffer holds
  snap,     \* the Snapshot slot, read by the hub client
  clock,    \* refreshes begun so far
  panics,   \* panics so far
  seen      \* history: the version handed to the latest reader

vars == <<life, task, holder, state, job, result, json, snap, clock, panics,
          seen>>

Views == {"http_system", "ws_system", "network"}
Readers == Views \cup {"snapshot"}

\* The order publish and the tick task store the four slots in.
NextStore == [http_system |-> "ws_system", ws_system |-> "network",
              network |-> "snapshot", snapshot |-> "sleep"]

NewState == [tick |-> 0, scannedAt |-> 0, mountsAt |-> 0,
             diskPrev |-> 0, netPrev |-> 0]

EmptySnapshot == [ver |-> 0, scannedAt |-> 0, mountsAt |-> 0,
                  disk |-> <<0, 0>>, net |-> <<0, 0>>]

-----------------------------------------------------------------------------
(* SamplerState::refresh *)

Due(tick, every) == tick = 0 \/ tick % every = 0

\* What read_diskstats returns: the counters of the disks, zeros (/proc can
\* be read and /sys/block cannot: no row is a whole disk), or None.
Readings == {"totals", "blank", "none"}

\* A baseline of zeros: what is counted from it goes back to the host's boot.
Boot == -1

\* Mutant: a missing baseline is read as zeros, and the first rate is not zero.
WindowFromZero(prev, reading, v) ==
  <<prev, IF reading = "totals" \/ prev = 0 THEN v ELSE prev>>

\* The pair of readings a rate is the difference of.  Without an earlier
\* reading, or with none now, the rate is zero: from = to.  A blank reading
\* is below any baseline, and the subtraction saturates.
Window(prev, reading, v) ==
  <<IF prev = 0 THEN v ELSE prev,
    IF reading = "totals" \/ prev = 0 THEN v ELSE prev>>

\* Mutant: the baseline is borrowed instead of replaced.
NextPrevBorrowed(prev, reading, v) == IF prev = 0 THEN v ELSE prev

\* The baseline for the next rate: replaced by whatever was read.
NextPrev(prev, reading, v) == CASE reading = "totals" -> v
                                [] reading = "blank" -> Boot
                                [] reading = "none" -> prev

\* Mutant: the tick is added to without wrapping.
RefreshedStateUnwrapped(st, v, disk) ==
  [tick |-> st.tick + 1,
   scannedAt |-> IF Due(st.tick, PROCESS_SCAN_EVERY) THEN v ELSE st.scannedAt,
   mountsAt |-> IF Due(st.tick, DISK_LIST_REFRESH_EVERY) THEN v
                                                         ELSE st.mountsAt,
   diskPrev |-> NextPrev(st.diskPrev, disk, v),
   netPrev |-> NextPrev(st.netPrev, "totals", v)]

\* Network counters come from sysinfo and are always there.
RefreshedState(st, v, disk) ==
  [tick |-> (st.tick + 1) % TickMod,
   scannedAt |-> IF Due(st.tick, PROCESS_SCAN_EVERY) THEN v ELSE st.scannedAt,
   mountsAt |-> IF Due(st.tick, DISK_LIST_REFRESH_EVERY) THEN v
                                                         ELSE st.mountsAt,
   diskPrev |-> NextPrev(st.diskPrev, disk, v),
   netPrev |-> NextPrev(st.netPrev, "totals", v)]

SnapshotOf(st, v, disk) ==
  LET after == RefreshedState(st, v, disk)
  IN  [ver |-> v, scannedAt |-> after.scannedAt, mountsAt |-> after.mountsAt,
       disk |-> Window(st.diskPrev, disk, v),
       net |-> Window(st.netPrev, "totals", v)]

-----------------------------------------------------------------------------
(* The runtime *)

\* Mutant: a multi-threaded runtime, where other tasks run beside publish.
RuntimeAlwaysFree == TRUE

\* Publish and the store after it have no await: until the tick task is back
\* in its select nothing else runs on the runtime.
RuntimeFree == task \notin DOMAIN NextStore

\* Which views serde_json fails on, in one publish.
Unserialized == IF SerializeMayFail THEN SUBSET Views ELSE {{}}

NoRead == -1  \* nobody has read yet

Init == /\ life = "boot" /\ task = "none" /\ holder = "nobody"
        /\ state = NewState /\ job = "idle" /\ result = EmptySnapshot
        /\ json = [view \in Views |-> 0]
        /\ snap = EmptySnapshot
        /\ clock = 0 /\ panics = 0 /\ seen = NoRead

\* A panic that nothing catches: main's own, or any in the release profile.
Crash == /\ life' = "crashed"
         /\ task' = "dead"
         /\ job' = "idle"
         /\ holder' = "nobody"

\* Mutant: the task is spawned and the first tick fills the slots.
StartUnseeded == /\ life = "boot"
                 /\ life' = "running"
                 /\ task' = "sleep"
                 /\ holder' = "task"
                 /\ UNCHANGED <<state, job, result, json, snap, clock, panics,
                                seen>>

\* Sampler::start seeds on the main task, before anything else is spawned.
Start == /\ life = "boot"
         /\ clock < MaxRefreshes
         /\ \E disk \in Readings, failed \in Unserialized :
              /\ state' = RefreshedState(NewState, 1, disk)
              /\ snap' = SnapshotOf(NewState, 1, disk)
              /\ json' = [view \in Views |-> IF view \in failed THEN 0 ELSE 1]
         /\ life' = "running"
         /\ task' = "sleep"
         /\ holder' = "task"
         /\ clock' = 1
         /\ UNCHANGED <<job, result, panics, seen>>

StartPanics == /\ life = "boot"
               /\ panics < MaxPanics
               /\ Crash
               /\ panics' = panics + 1
               /\ UNCHANGED <<state, result, json, snap, clock, seen>>

\* The interval elapsed: the task takes the state and hands it to the pool.
TickDue == /\ task = "sleep"
           /\ clock < MaxRefreshes
           /\ clock' = clock + 1
           /\ task' = "join"
           /\ holder' = "pool"
           /\ job' = "running"
           /\ UNCHANGED <<life, state, result, json, snap, panics, seen>>

\* The closure of spawn_blocking, on a thread of the pool.
RefreshOk == /\ job = "running"
             /\ \E disk \in Readings :
                  /\ state' = RefreshedState(state, clock, disk)
                  /\ result' = SnapshotOf(state, clock, disk)
             /\ job' = "ok"
             /\ holder' = "result"
             /\ UNCHANGED <<life, task, json, snap, clock, panics, seen>>

\* A panic unwinds the closure and takes the state with it.
RefreshPanics == /\ job = "running"
                 /\ panics < MaxPanics
                 /\ panics' = panics + 1
                 /\ \/ /\ "unwind" \in PanicStrategies
                       /\ job' = "panicked"
                       /\ holder' = "nobody"
                       /\ UNCHANGED <<life, task>>
                    \/ "abort" \in PanicStrategies /\ Crash
                 /\ UNCHANGED <<state, result, json, snap, clock, seen>>

\* The join returned Ok: the state is back, and publish begins.
JoinOk == /\ task = "join"
          /\ job = "ok"
          /\ job' = "idle"
          /\ holder' = "task"
          /\ task' = "http_system"
          /\ UNCHANGED <<life, state, result, json, snap, clock, panics, seen>>

\* Publish, one store at a time.
StoreJson == /\ task \in Views
             /\ \/ json' = [json EXCEPT ![task] = result.ver]
                \/ SerializeMayFail /\ UNCHANGED json
             /\ task' = NextStore[task]
             /\ UNCHANGED <<life, holder, state, job, result, snap, clock,
                            panics, seen>>

StoreSnapshot == /\ task = "snapshot"
                 /\ snap' = result
                 /\ task' = NextStore[task]
                 /\ UNCHANGED <<life, holder, state, job, result, json, clock,
                                panics, seen>>

\* Mutant: the rebuilt state goes on counting where the lost one was.
JoinErrKeepingTick ==
  /\ task = "join"
  /\ job = "panicked"
  /\ state' = [NewState EXCEPT !.tick = state.tick]
  /\ holder' = "task"
  /\ task' = "sleep"
  /\ job' = "idle"
  /\ UNCHANGED <<life, result, json, snap, clock, panics, seen>>

\* Mutant: the error is logged and the state stays lost.
JoinErrWithoutRebuild ==
  /\ task = "join"
  /\ job = "panicked"
  /\ task' = "sleep"
  /\ job' = "idle"
  /\ UNCHANGED <<life, holder, state, result, json, snap, clock, panics, seen>>

\* Mutant: the error publishes a default snapshot.
JoinErrPublishingDefault ==
  /\ task = "join"
  /\ job = "panicked"
  /\ state' = NewState
  /\ result' = EmptySnapshot
  /\ holder' = "task"
  /\ task' = "http_system"
  /\ job' = "idle"
  /\ UNCHANGED <<life, json, snap, clock, panics, seen>>

\* Mutant: the error ends the loop.
JoinErrEndingTask ==
  /\ task = "join"
  /\ job = "panicked"
  /\ task' = "dead"
  /\ job' = "idle"
  /\ UNCHANGED <<life, holder, state, result, json, snap, clock, panics, seen>>

\* The join returned Err: a fresh state replaces the lost one, the previous
\* snapshot stays in its slots, and the task sleeps again.
JoinErr == /\ task = "join"
           /\ job = "panicked"
           /\ state' = NewState
           /\ holder' = "task"
           /\ task' = "sleep"
           /\ job' = "idle"
           /\ UNCHANGED <<life, result, json, snap, clock, panics, seen>>

\* SamplerState::new panics in turn, on the task itself, which nobody awaits.
RebuildPanics == /\ RebuildMayPanic
                 /\ task = "join"
                 /\ job = "panicked"
                 /\ task' = "panicked"
                 /\ job' = "idle"
                 /\ UNCHANGED <<life, holder, state, result, json, snap, clock,
                                panics, seen>>

\* Mutant: stop only notifies, and Notify keeps no permit for a task that is
\* not waiting on it.
CancelledByNotify(pc) == pc = "sleep"

\* Stop notifies and aborts: wherever it waits, the task is dropped.
Cancelled(pc) == pc \in {"sleep", "join", "panicked"}

\* Sampler::stop, on the main task.
Stop == /\ life = "running"
        /\ RuntimeFree
        /\ life' = "stopped"
        /\ task' = IF Cancelled(task) THEN "dead" ELSE task
        /\ holder' = IF Cancelled(task) /\ holder = "task" THEN "nobody"
                                                           ELSE holder
        /\ UNCHANGED <<state, job, result, json, snap, clock, panics, seen>>

\* Mutant: the pool is only done when its result has been taken.
ExitAwaitingJoin == /\ life = "stopped"
                    /\ job = "idle"
                    /\ life' = "exited"
                    /\ task' = "dead"
                    /\ holder' = "nobody"
                    /\ UNCHANGED <<state, job, result, json, snap, clock, panics,
                                   seen>>

\* main returned and the runtime is dropped, which waits for the pool.
Exit == /\ life = "stopped"
        /\ job # "running"
        /\ life' = "exited"
        /\ task' = "dead"
        /\ job' = "idle"
        /\ holder' = "nobody"
        /\ UNCHANGED <<state, result, json, snap, clock, panics, seen>>

\* A handler, a push loop or the hub client loads the slot it reads.
Visible(reader) == IF reader = "snapshot" THEN snap.ver ELSE json[reader]

Read(reader) == /\ life = "running"
                /\ RuntimeFree
                /\ seen' = Visible(reader)
                /\ UNCHANGED <<life, task, holder, state, job, result, json,
                               snap, clock, panics>>

\* The process is gone: nothing more happens, and that is no deadlock.
Halted == life \in {"exited", "crashed"} /\ UNCHANGED vars

Next == \/ Start \/ StartPanics
        \/ TickDue \/ RefreshOk \/ RefreshPanics
        \/ JoinOk \/ StoreJson \/ StoreSnapshot \/ JoinErr \/ RebuildPanics
        \/ Stop \/ Exit
        \/ \E reader \in Readers : Read(reader)
        \/ Halted

Spec == Init /\ [][Next]_vars

\* The timer fires, the pool and the runtime run what is ready, and a refresh
\* returns; nothing forces a panic, a signal or a client.
Fairness == /\ WF_vars(TickDue)
            /\ WF_vars(RefreshOk \/ RefreshPanics)
            /\ WF_vars(JoinOk \/ StoreJson \/ StoreSnapshot)
            /\ WF_vars(JoinErr \/ RebuildPanics)
            /\ WF_vars(Exit)

LiveSpec == Spec /\ Fairness

-----------------------------------------------------------------------------
(* Properties *)

Versions == 0..MaxRefreshes
Baselines == Versions \cup {Boot}
SamplerStates == [tick: 0..(TickMod - 1), scannedAt: Versions,
                  mountsAt: Versions, diskPrev: Baselines, netPrev: Baselines]
Snapshots == [ver: Versions, scannedAt: Versions, mountsAt: Versions,
              disk: Baselines \X Baselines, net: Baselines \X Baselines]

\* Every variable has its type; the wrapped tick stays below 2^64.
TypeOK == /\ life \in {"boot", "running", "stopped", "exited", "crashed"}
          /\ task \in {"none", "sleep", "join", "panicked", "dead"} \cup Readers
          /\ holder \in {"nobody", "task", "pool", "result"}
          /\ state \in SamplerStates
          /\ job \in {"idle", "running", "ok", "panicked"}
          /\ result \in Snapshots
          /\ json \in [Views -> Versions]
          /\ snap \in Snapshots
          /\ clock \in Versions
          /\ panics \in 0..MaxPanics
          /\ seen \in Versions \cup {NoRead}

\* state.take().expect("sampler state always restored") never fails: whatever
\* a tick came to, the task owns the state again when it sleeps.
StateAlwaysRestored == task = "sleep" => holder = "task"

\* Whenever anything but the tick task can run, the three JSON buffers and
\* the Snapshot slot hold the same snapshot: GET /system, GET /network, a
\* WebSocket push and a hub frame of one moment agree.
SlotsAgree == RuntimeFree => \A view \in Views : json[view] = snap.ver

\* The process lists a snapshot carries come from one of the last
\* PROCESS_SCAN_EVERY refreshes of the same process, across rebuilds of the
\* state and a wrap of the tick counter.
ProcessesFresh == snap.ver # 0 => /\ snap.scannedAt # 0
                                  /\ snap.ver - snap.scannedAt
                                       < PROCESS_SCAN_EVERY

\* The same of the mount table: an unmounted disk is gone from the snapshot
\* after DISK_LIST_REFRESH_EVERY refreshes at most.
MountsFresh == snap.ver # 0 => /\ snap.mountsAt # 0
                               /\ snap.ver - snap.mountsAt
                                    < DISK_LIST_REFRESH_EVERY

\* The network rate of a snapshot is the traffic since the snapshot of the tick
\* before, and zero when there is none: in the first snapshot and in the first
\* after a tick that was lost to a panic, whose rebuild has no baseline.
NetWindow(old, v) == IF old # 0 /\ v = old + 1 THEN <<old, v>> ELSE <<v, v>>
NetRateIsOneTick ==
  [][snap' # snap => snap'.net = NetWindow(snap.ver, snap'.ver)]_vars

\* No disk or network traffic is counted in two published rates, and none is
\* left out except across a rebuild, when the next rate is a zero one that
\* starts a new baseline: the windows of successive snapshots join.  The one
\* exception follows a snapshot of zero disk rates: if /sys/block could not be
\* read, the next rate counts everything since the host booted.
Joins(old, new, v) == \/ new[1] = old[2]
                      \/ new[1] > old[2] /\ new = <<v, v>>
                      \/ new[1] = Boot /\ old[1] = old[2]
RatesTile == [][snap' # snap => /\ Joins(snap.disk, snap'.disk, snap'.ver)
                                /\ Joins(snap.net, snap'.net, snap'.ver)
                                /\ snap'.net[1] # Boot]_vars

\* Readers of any mix of endpoints never go back to an older snapshot.
MonotoneReads == [][seen' >= seen]_vars

\* No slot ever goes back to an older snapshot, whatever fails in between.
SlotsNeverRegress ==
  [][\A reader \in Readers : Visible(reader)' >= Visible(reader)]_vars

\* Once stop has returned, no slot changes, though a refresh was in flight.
Stopped == life \in {"stopped", "exited"}
StopIsFinal == [][Stopped => (UNCHANGED <<json, snap>>)]_vars

\* A panicking tick is a JoinError in the tick task and not a process crash,
\* as docs/runtime-semantics.md:41 has it.
TickPanicIsNoCrash == [][life = "running" => life' # "crashed"]_vars

\* Once stopped the process exits: the drop of the runtime waits for nothing
\* but the refresh in flight.
StopTerminates == life = "stopped" ~> life \in {"exited", "crashed"}

\* The four slots are one cell.
Cell == INSTANCE SnapshotCell WITH
          cur <- snap.ver, open <- life \in {"boot", "running"}
CellSpec == Cell!Spec
=============================================================================
