---------------------------- MODULE SamplerProofs ----------------------------
(***************************************************************************)
(* Theorems about Sampler, for every cadence, every bound and either build *)
(* profile.  The invariant is proved in layers, each inductive relative to *)
(* the ones before it: types, control, versions, freshness, rate windows.  *)
(***************************************************************************)
EXTENDS Sampler, TLAPS

\* Where the tick task stands determines who owns the state and what the
\* blocking pool is doing.
ControlInv ==
  /\ task = "none" <=> life = "boot"
  /\ life = "boot" => /\ job = "idle" /\ holder = "nobody" /\ state = NewState
                      /\ snap = EmptySnapshot /\ clock = 0 /\ seen = NoRead
                      /\ json = [view \in Views |-> 0]
  /\ task \in {"sleep"} \cup Readers => /\ holder = "task" /\ job = "idle"
                                        /\ life = "running"
  /\ task = "join" => job # "idle" /\ life = "running"
  /\ life = "running" => task # "dead"
  /\ job = "running" => holder = "pool"
  /\ job = "ok" => holder = "result"
  /\ holder = "task" => task \in {"sleep"} \cup Readers
  /\ holder = "pool" => job = "running"
  /\ holder = "result" => job = "ok"

\* A snapshot on its way to the slots is newer than the one in them; nothing
\* is newer than the refresh last begun.
Pending == task \in Readers \/ job = "ok"
VersionInv == /\ snap.ver <= clock
              /\ life \in {"running", "stopped"} => snap.ver >= 1
              /\ task = "join" => snap.ver < clock
              /\ job = "running" => snap.ver < clock
              /\ Pending => result.ver = clock /\ snap.ver < clock
              /\ clock = 0 => task \in {"none", "dead"}

\* The stores already made hold the new version, the others the old one.
Stored(view) == CASE task = "ws_system" -> view = "http_system"
                  [] task = "network" -> view # "network"
                  [] task = "snapshot" -> TRUE
                  [] OTHER -> FALSE
SlotsInv == /\ \A view \in Views : json[view] = IF Stored(view) THEN result.ver
                                                               ELSE snap.ver
            /\ seen <= snap.ver

\* The scan a state carries is as old as its tick counter says, counted from
\* the refresh the state went through last.
StateFresh(st, v) == st.tick # 0 =>
  /\ st.scannedAt # 0
  /\ v - st.scannedAt = (st.tick - 1) % PROCESS_SCAN_EVERY
  /\ st.mountsAt # 0
  /\ v - st.mountsAt = (st.tick - 1) % DISK_LIST_REFRESH_EVERY
SnapshotFresh(s) == s.ver # 0 =>
  /\ s.scannedAt # 0 /\ s.ver - s.scannedAt < PROCESS_SCAN_EVERY
  /\ s.mountsAt # 0 /\ s.ver - s.mountsAt < DISK_LIST_REFRESH_EVERY
FreshInv == /\ holder \in {"task", "result"} => StateFresh(state, clock)
            /\ holder = "pool" => StateFresh(state, clock - 1)
            /\ SnapshotFresh(snap)
            /\ Pending => SnapshotFresh(result)

\* A baseline is unset, or is where the newest window ends, or is the zeros of
\* a blank reading, which made that window an empty one.
Baseline(prev, window) == \/ prev = 0
                          \/ prev = window[2]
                          \/ prev = Boot /\ window[1] = window[2]

\* The network baseline after refresh v: set by it if its snapshot was published,
\* and unset since it panicked otherwise.
NetBaseline(v) == IF snap.ver = v THEN v ELSE 0
WindowInv ==
  /\ holder = "task" /\ ~Pending => state.netPrev = NetBaseline(clock)
  /\ holder = "pool" => state.netPrev = NetBaseline(clock - 1)
  /\ holder \in {"task", "result"} /\ Pending => state.netPrev = clock
  /\ Pending => result.net = NetWindow(snap.ver, result.ver)
  /\ snap.net[1] # Boot /\ (Pending => result.net[1] # Boot)
  /\ snap.disk[2] <= snap.ver /\ snap.net[2] <= snap.ver
  /\ (holder = "task" /\ ~Pending) \/ holder = "pool" =>
       Baseline(state.diskPrev, snap.disk) /\ Baseline(state.netPrev, snap.net)
  /\ Pending =>
       /\ Joins(snap.disk, result.disk, result.ver)
       /\ Joins(snap.net, result.net, result.ver)
       /\ result.disk[2] <= result.ver /\ result.net[2] <= result.ver
  /\ holder \in {"task", "result"} /\ Pending =>
       /\ Baseline(state.diskPrev, result.disk)
       /\ Baseline(state.netPrev, result.net)

-----------------------------------------------------------------------------
(* Arithmetic of the cadences *)

\* Division by a positive divisor is unique.
LEMMA ModUnique ==
  ASSUME NEW s \in Nat \ {0}, NEW a \in Int, NEW b \in Int,
         NEW i \in 0..(s - 1), NEW j \in 0..(s - 1),
         s * a + i = s * b + j
  PROVE  i = j
<1>1. CASE a = b
  BY <1>1
<1>2. CASE a > b
  <2>1. s * (a - b) = j - i
    OBVIOUS
  <2>2. s * (a - b) >= s
    BY <1>2
  <2> QED BY <2>1, <2>2
<1>3. CASE a < b
  <2>1. s * (b - a) = i - j
    OBVIOUS
  <2>2. s * (b - a) >= s
    BY <1>3
  <2> QED BY <2>1, <2>2
<1> QED BY <1>1, <1>2, <1>3

\* What div and mod are, in the form the next lemma needs them.
LEMMA DivMod ==
  ASSUME NEW t \in Nat, NEW s \in Nat \ {0}
  PROVE  /\ t = s * (t \div s) + (t % s)
         /\ t \div s \in Nat
         /\ t % s \in 0..(s - 1)
OBVIOUS

\* Between two multiples of s the remainder counts up by one.
LEMMA ModStep ==
  ASSUME NEW t \in Nat \ {0}, NEW s \in Nat \ {0}, t % s # 0
  PROVE  t % s = ((t - 1) % s) + 1
<1>1. t - 1 \in Nat
  OBVIOUS
<1>2. /\ t = s * (t \div s) + (t % s)
      /\ t \div s \in Nat
      /\ t % s \in 0..(s - 1)
  BY DivMod
<1>3. /\ t - 1 = s * ((t - 1) \div s) + ((t - 1) % s)
      /\ (t - 1) \div s \in Nat
      /\ (t - 1) % s \in 0..(s - 1)
  BY <1>1, DivMod
<1>4. s * (t \div s) \in Int /\ s * ((t - 1) \div s) \in Int
  BY <1>2, <1>3
<1>5. s * (t \div s) + ((t % s) - 1) = s * ((t - 1) \div s) + ((t - 1) % s)
  BY <1>2, <1>3, <1>4
<1>6. (t % s) - 1 \in 0..(s - 1)
  BY <1>2
<1>7. (t % s) - 1 = (t - 1) % s
  BY <1>2, <1>3, <1>5, <1>6, ModUnique
<1> QED BY <1>2, <1>3, <1>7

-----------------------------------------------------------------------------
(* Types *)

\* The stores of publish and the states between them.
LEMMA StoreOrder ==
  /\ DOMAIN NextStore = Readers
  /\ NextStore["http_system"] = "ws_system"
  /\ NextStore["ws_system"] = "network"
  /\ NextStore["network"] = "snapshot"
  /\ NextStore["snapshot"] = "sleep"
BY DEF NextStore, Readers, Views

\* A refresh of a well-typed state is well typed, and so is its snapshot.
LEMMA RefreshType ==
  ASSUME NEW st \in SamplerStates, NEW v \in Versions, NEW disk \in Readings
  PROVE  /\ RefreshedState(st, v, disk) \in SamplerStates
         /\ SnapshotOf(st, v, disk) \in Snapshots
<1>1. (st.tick + 1) % TickMod \in 0..(TickMod - 1)
  BY CadenceAssumption DEF SamplerStates
<1>2. /\ NextPrev(st.diskPrev, disk, v) \in Baselines
      /\ NextPrev(st.netPrev, "totals", v) \in Baselines
  BY DEF NextPrev, Readings, Baselines, SamplerStates
<1>3. RefreshedState(st, v, disk) \in SamplerStates
  BY <1>1, <1>2 DEF RefreshedState, SamplerStates
<1>4. /\ Window(st.diskPrev, disk, v) \in Baselines \X Baselines
      /\ Window(st.netPrev, "totals", v) \in Baselines \X Baselines
  BY DEF Window, Baselines, SamplerStates
<1> QED BY <1>3, <1>4 DEF SnapshotOf, Snapshots, SamplerStates

LEMMA InitialTypes == /\ NewState \in SamplerStates
                      /\ EmptySnapshot \in Snapshots
                      /\ 0 \in Versions
BY CadenceAssumption, BoundAssumption
   DEF NewState, SamplerStates, EmptySnapshot, Snapshots, Baselines, Versions

LEMMA TypeInit == Init => TypeOK
BY InitialTypes, BoundAssumption DEF Init, TypeOK

LEMMA TypeStep == TypeOK /\ [Next]_vars => TypeOK'
<1> SUFFICES ASSUME TypeOK, [Next]_vars PROVE TypeOK'
  OBVIOUS
<1> USE DEF TypeOK
<1>1. CASE Start
  <2>1. 1 \in Versions
    BY <1>1, BoundAssumption DEF Start, Versions
  <2>2. state' \in SamplerStates /\ snap' \in Snapshots
    BY <1>1, <2>1, InitialTypes, RefreshType DEF Start
  <2>3. json' \in [Views -> Versions]
    BY <1>1, <2>1, InitialTypes DEF Start
  <2> QED BY <1>1, <2>1, <2>2, <2>3 DEF Start
<1>2. CASE StartPanics
  BY <1>2, BoundAssumption DEF StartPanics, Crash
<1>3. CASE TickDue
  BY <1>3, BoundAssumption DEF TickDue, Versions
<1>4. CASE RefreshOk
  <2>1. state' \in SamplerStates /\ result' \in Snapshots
    BY <1>4, RefreshType DEF RefreshOk
  <2> QED BY <1>4, <2>1 DEF RefreshOk
<1>5. CASE RefreshPanics
  BY <1>5, BoundAssumption DEF RefreshPanics, Crash
<1>6. CASE JoinOk
  BY <1>6 DEF JoinOk, Readers, Views
<1>7. CASE StoreJson
  <2>1. result.ver \in Versions
    BY DEF Snapshots
  <2>2. json' \in [Views -> Versions]
    BY <1>7, <2>1 DEF StoreJson
  <2>3. task' \in {"sleep"} \cup Readers
    BY <1>7, StoreOrder DEF StoreJson, Readers, Views
  <2> QED BY <1>7, <2>2, <2>3 DEF StoreJson
<1>8. CASE StoreSnapshot
  BY <1>8, StoreOrder DEF StoreSnapshot
<1>9. CASE JoinErr
  BY <1>9, InitialTypes DEF JoinErr
<1>10. CASE RebuildPanics
  BY <1>10 DEF RebuildPanics
<1>11. CASE Stop
  BY <1>11 DEF Stop
<1>12. CASE Exit
  BY <1>12 DEF Exit
<1>13. ASSUME NEW reader \in Readers, Read(reader) PROVE TypeOK'
  <2>1. Visible(reader) \in Versions
    BY DEF Visible, Readers, Snapshots
  <2> QED BY <1>13, <2>1 DEF Read
<1>14. CASE UNCHANGED vars
  BY <1>14 DEF vars
<1> QED BY <1>1, <1>2, <1>3, <1>4, <1>5, <1>6, <1>7, <1>8, <1>9, <1>10,
           <1>11, <1>12, <1>13, <1>14 DEF Next, Halted

\* Every variable keeps its type, and the tick counter wraps below its modulus.
THEOREM TypeCorrect == Spec => []TypeOK
<1> QED BY TypeInit, TypeStep, PTL DEF Spec

-----------------------------------------------------------------------------
(* Control and versions *)

LEMMA ControlInit == Init => ControlInv
BY DEF Init, ControlInv, Readers, Views

LEMMA ControlStep == TypeOK /\ ControlInv /\ [Next]_vars => ControlInv'
<1> SUFFICES ASSUME TypeOK, ControlInv, [Next]_vars PROVE ControlInv'
  OBVIOUS
<1> USE DEF ControlInv, Readers, Views
<1>1. CASE Start
  BY <1>1 DEF Start
<1>2. CASE StartPanics
  BY <1>2 DEF StartPanics, Crash
<1>3. CASE TickDue
  BY <1>3 DEF TickDue
<1>4. CASE RefreshOk
  BY <1>4 DEF RefreshOk
<1>5. CASE RefreshPanics
  BY <1>5 DEF RefreshPanics, Crash
<1>6. CASE JoinOk
  BY <1>6 DEF JoinOk
<1>7. CASE StoreJson
  BY <1>7, StoreOrder DEF StoreJson
<1>8. CASE StoreSnapshot
  BY <1>8, StoreOrder DEF StoreSnapshot
<1>9. CASE JoinErr
  BY <1>9 DEF JoinErr
<1>10. CASE RebuildPanics
  BY <1>10 DEF RebuildPanics
<1>11. CASE Stop
  <2>1. task \in {"sleep", "join", "panicked", "dead"}
    BY <1>11, StoreOrder DEF Stop, RuntimeFree, TypeOK
  <2> QED BY <1>11, <2>1 DEF Stop, Cancelled
<1>12. CASE Exit
  BY <1>12 DEF Exit
<1>13. ASSUME NEW reader \in Readers, Read(reader) PROVE ControlInv'
  BY <1>13 DEF Read
<1>14. CASE UNCHANGED vars
  BY <1>14 DEF vars
<1> QED BY <1>1, <1>2, <1>3, <1>4, <1>5, <1>6, <1>7, <1>8, <1>9, <1>10,
           <1>11, <1>12, <1>13, <1>14 DEF Next, Halted

LEMMA VersionInit == Init => VersionInv
BY DEF Init, VersionInv, Pending, EmptySnapshot, Readers, Views

LEMMA VersionStep ==
  TypeOK /\ ControlInv /\ VersionInv /\ [Next]_vars => VersionInv'
<1> SUFFICES ASSUME TypeOK, ControlInv, VersionInv, [Next]_vars
             PROVE  VersionInv'
  OBVIOUS
<1>0. snap.ver \in Nat /\ result.ver \in Nat /\ clock \in Nat
  BY BoundAssumption DEF TypeOK, Snapshots, Versions
<1> USE DEF VersionInv, ControlInv, Pending, Readers, Views
<1>1. CASE Start
  BY <1>1, <1>0 DEF Start, SnapshotOf
<1>2. CASE StartPanics
  BY <1>2, <1>0 DEF StartPanics, Crash
<1>3. CASE TickDue
  BY <1>3, <1>0 DEF TickDue
<1>4. CASE RefreshOk
  BY <1>4, <1>0 DEF RefreshOk, SnapshotOf
<1>5. CASE RefreshPanics
  BY <1>5, <1>0 DEF RefreshPanics, Crash
<1>6. CASE JoinOk
  BY <1>6, <1>0 DEF JoinOk
<1>7. CASE StoreJson
  BY <1>7, StoreOrder, <1>0 DEF StoreJson
<1>8. CASE StoreSnapshot
  BY <1>8, StoreOrder, <1>0 DEF StoreSnapshot
<1>9. CASE JoinErr
  BY <1>9, <1>0 DEF JoinErr
<1>10. CASE RebuildPanics
  BY <1>10, <1>0 DEF RebuildPanics
<1>11. CASE Stop
  BY <1>11, <1>0 DEF Stop
<1>12. CASE Exit
  BY <1>12, <1>0 DEF Exit
<1>13. ASSUME NEW reader \in Readers, Read(reader) PROVE VersionInv'
  BY <1>13, <1>0 DEF Read
<1>14. CASE UNCHANGED vars
  BY <1>14, <1>0 DEF vars
<1> QED BY <1>1, <1>2, <1>3, <1>4, <1>5, <1>6, <1>7, <1>8, <1>9, <1>10,
           <1>11, <1>12, <1>13, <1>14 DEF Next, Halted

-----------------------------------------------------------------------------
(* The four slots *)

LEMMA SlotsInit == Init => SlotsInv
BY DEF Init, NoRead, SlotsInv, Stored, EmptySnapshot, Views

LEMMA SlotsStep ==
  ASSUME ~SerializeMayFail
  PROVE  TypeOK /\ ControlInv /\ VersionInv /\ SlotsInv /\ [Next]_vars
           => SlotsInv'
<1> SUFFICES ASSUME TypeOK, ControlInv, VersionInv, SlotsInv, [Next]_vars
             PROVE  SlotsInv'
  OBVIOUS
<1>0. /\ snap.ver \in Nat /\ result.ver \in Nat /\ clock \in Nat
      /\ seen \in Int /\ json \in [Views -> Versions]
  BY BoundAssumption DEF TypeOK, Snapshots, Versions, NoRead
<1> USE DEF SlotsInv, Stored, Views
<1>1. CASE Start
  <2>1. \A view \in Views : json'[view] = 1
    BY <1>1 DEF Start, Unserialized
  <2>2. snap'.ver = 1 /\ seen' = NoRead /\ task' = "sleep"
    BY <1>1 DEF Start, SnapshotOf, ControlInv
  <2> QED BY <2>1, <2>2 DEF NoRead
<1>2. CASE StartPanics
  <2>1. task \notin Readers
    BY <1>2 DEF StartPanics, ControlInv
  <2> QED BY <1>2, <2>1 DEF StartPanics, Crash, Readers
<1>3. CASE TickDue
  BY <1>3 DEF TickDue
<1>4. CASE RefreshOk
  <2>1. task \notin Readers
    BY <1>4 DEF RefreshOk, ControlInv
  <2> QED BY <1>4, <2>1 DEF RefreshOk, Readers
<1>5. CASE RefreshPanics
  <2>1. task \notin Readers
    BY <1>5 DEF RefreshPanics, ControlInv
  <2> QED BY <1>5, <2>1 DEF RefreshPanics, Crash, Readers
<1>6. CASE JoinOk
  BY <1>6 DEF JoinOk
<1>7. CASE StoreJson
  <2>1. /\ json' = [json EXCEPT ![task] = result.ver]
        /\ task' = NextStore[task]
        /\ snap' = snap /\ result' = result /\ seen' = seen
    BY <1>7 DEF StoreJson
  <2>2. CASE task = "http_system"
    BY <1>0, <2>1, <2>2, StoreOrder
  <2>3. CASE task = "ws_system"
    BY <1>0, <2>1, <2>3, StoreOrder
  <2>4. CASE task = "network"
    BY <1>0, <2>1, <2>4, StoreOrder
  <2> QED BY <1>7, <2>2, <2>3, <2>4 DEF StoreJson
<1>8. CASE StoreSnapshot
  BY <1>8, <1>0, StoreOrder
     DEF StoreSnapshot, VersionInv, Pending, Readers
<1>9. CASE JoinErr
  BY <1>9 DEF JoinErr
<1>10. CASE RebuildPanics
  BY <1>10 DEF RebuildPanics
<1>11. CASE Stop
  BY <1>11, StoreOrder DEF Stop, RuntimeFree, Cancelled, Readers
<1>12. CASE Exit
  BY <1>12 DEF Exit, ControlInv, Readers
<1>13. ASSUME NEW reader \in Readers, Read(reader) PROVE SlotsInv'
  <2>1. seen' = snap.ver
    BY <1>13, StoreOrder DEF Read, Visible, RuntimeFree, Readers
  <2> QED BY <1>0, <1>13, <2>1 DEF Read
<1>14. CASE UNCHANGED vars
  BY <1>14 DEF vars
<1> QED BY <1>1, <1>2, <1>3, <1>4, <1>5, <1>6, <1>7, <1>8, <1>9, <1>10,
           <1>11, <1>12, <1>13, <1>14 DEF Next, Halted

-----------------------------------------------------------------------------
(* Freshness *)

\* One refresh keeps a scan in step with the tick counter, when the scan is
\* due, when it is not, and when the counter wraps.
LEMMA CadenceStep ==
  ASSUME NEW every \in Nat \ {0}, NEW tick \in 0..(TickMod - 1),
         NEW at \in Nat, NEW v \in Nat \ {0},
         tick # 0 => at # 0 /\ (v - 1) - at = (tick - 1) % every
  PROVE  LET new == IF Due(tick, every) THEN v ELSE at
             next == (tick + 1) % TickMod
         IN  /\ new # 0
             /\ v - new < every
             /\ next # 0 => v - new = (next - 1) % every
<1> DEFINE new == IF Due(tick, every) THEN v ELSE at
           next == (tick + 1) % TickMod
           Goal == /\ new # 0
                   /\ v - new < every
                   /\ next # 0 => v - new = (next - 1) % every
<1>1. next # 0 => next = tick + 1
  <2>1. CASE tick + 1 < TickMod
    BY <2>1, CadenceAssumption
  <2>2. CASE tick + 1 = TickMod
    BY <2>2, CadenceAssumption
  <2> QED BY <2>1, <2>2, CadenceAssumption
<1> HIDE DEF next
<1>2. ASSUME Due(tick, every) PROVE Goal
  <2>1. tick % every = 0
    BY <1>2 DEF Due
  <2> QED BY <1>1, <1>2, <2>1
<1>3. ASSUME ~Due(tick, every) PROVE Goal
  <2>1. tick \in Nat \ {0} /\ tick % every # 0 /\ new = at
    BY <1>3, CadenceAssumption DEF Due
  <2>2. tick % every = ((tick - 1) % every) + 1
    BY <2>1, ModStep
  <2>3. (tick - 1) % every \in Int /\ tick % every \in 0..(every - 1)
    BY <2>1, DivMod
  <2>4. v - new = tick % every
    BY <2>1, <2>2, <2>3
  <2>5. next # 0 => next - 1 = tick
    BY <1>1, <2>1
  <2> QED BY <2>1, <2>3, <2>4, <2>5
<1> QED BY <1>2, <1>3 DEF next

\* A refresh of a fresh state leaves it fresh and takes a fresh snapshot.
LEMMA RefreshFresh ==
  ASSUME NEW st \in SamplerStates, NEW v \in Versions \ {0},
         NEW disk \in Readings, StateFresh(st, v - 1)
  PROVE  /\ StateFresh(RefreshedState(st, v, disk), v)
         /\ SnapshotFresh(SnapshotOf(st, v, disk))
<1> DEFINE r == RefreshedState(st, v, disk)
<1>0. /\ v \in Nat \ {0} /\ st.tick \in 0..(TickMod - 1)
      /\ st.scannedAt \in Nat /\ st.mountsAt \in Nat
  BY BoundAssumption DEF Versions, SamplerStates
<1>1. /\ r.tick = (st.tick + 1) % TickMod
      /\ r.scannedAt = IF Due(st.tick, PROCESS_SCAN_EVERY) THEN v
                                                           ELSE st.scannedAt
      /\ r.mountsAt = IF Due(st.tick, DISK_LIST_REFRESH_EVERY) THEN v
                                                               ELSE st.mountsAt
  BY DEF RefreshedState
<1> HIDE DEF r
<1>2. /\ r.scannedAt # 0
      /\ v - r.scannedAt < PROCESS_SCAN_EVERY
      /\ r.tick # 0 => v - r.scannedAt = (r.tick - 1) % PROCESS_SCAN_EVERY
  <2> DEFINE new == IF Due(st.tick, PROCESS_SCAN_EVERY) THEN v ELSE st.scannedAt
             next == (st.tick + 1) % TickMod
  <2>1. st.tick # 0 => /\ st.scannedAt # 0
                       /\ (v - 1) - st.scannedAt = (st.tick - 1) % PROCESS_SCAN_EVERY
    BY DEF StateFresh
  <2>2. PROCESS_SCAN_EVERY \in Nat \ {0}
    BY CadenceAssumption
  <2>3. /\ new # 0
        /\ v - new < PROCESS_SCAN_EVERY
        /\ next # 0 => v - new = (next - 1) % PROCESS_SCAN_EVERY
    BY <1>0, <2>1, <2>2, CadenceStep
  <2>4. r.scannedAt = new /\ r.tick = next
    BY <1>1
  <2> HIDE DEF new, next
  <2> QED BY <2>3, <2>4
<1>3. /\ r.mountsAt # 0
      /\ v - r.mountsAt < DISK_LIST_REFRESH_EVERY
      /\ r.tick # 0 => v - r.mountsAt = (r.tick - 1) % DISK_LIST_REFRESH_EVERY
  <2> DEFINE new == IF Due(st.tick, DISK_LIST_REFRESH_EVERY) THEN v ELSE st.mountsAt
             next == (st.tick + 1) % TickMod
  <2>1. st.tick # 0 => /\ st.mountsAt # 0
                       /\ (v - 1) - st.mountsAt = (st.tick - 1) % DISK_LIST_REFRESH_EVERY
    BY DEF StateFresh
  <2>2. DISK_LIST_REFRESH_EVERY \in Nat \ {0}
    BY CadenceAssumption
  <2>3. /\ new # 0
        /\ v - new < DISK_LIST_REFRESH_EVERY
        /\ next # 0 => v - new = (next - 1) % DISK_LIST_REFRESH_EVERY
    BY <1>0, <2>1, <2>2, CadenceStep
  <2>4. r.mountsAt = new /\ r.tick = next
    BY <1>1
  <2> HIDE DEF new, next
  <2> QED BY <2>3, <2>4
<1>4. StateFresh(r, v)
  BY <1>2, <1>3 DEF StateFresh
<1>5. SnapshotFresh(SnapshotOf(st, v, disk))
  BY <1>2, <1>3 DEF SnapshotFresh, SnapshotOf, r
<1> QED BY <1>4, <1>5 DEF r

LEMMA FreshInit == Init => FreshInv
BY DEF Init, FreshInv, SnapshotFresh, EmptySnapshot, Pending, Readers, Views

LEMMA FreshStep ==
  TypeOK /\ ControlInv /\ VersionInv /\ FreshInv /\ [Next]_vars => FreshInv'
<1> SUFFICES ASSUME TypeOK, ControlInv, VersionInv, FreshInv, [Next]_vars
             PROVE  FreshInv'
  OBVIOUS
<1>0. clock \in Nat /\ state \in SamplerStates
  BY BoundAssumption DEF TypeOK, Versions
<1>a. StateFresh(NewState, 0) /\ StateFresh(NewState, clock)
  BY DEF StateFresh, NewState
<1> USE DEF FreshInv, ControlInv, Pending, Readers, Views
<1>1. CASE Start
  <2>1. 1 \in Versions \ {0} /\ NewState \in SamplerStates
    BY <1>1, BoundAssumption, InitialTypes DEF Start, Versions
  <2>2. PICK disk \in Readings : /\ state' = RefreshedState(NewState, 1, disk)
                              /\ snap' = SnapshotOf(NewState, 1, disk)
    BY <1>1 DEF Start
  <2>3. StateFresh(state', 1) /\ SnapshotFresh(snap')
    BY <1>a, <2>1, <2>2, RefreshFresh
  <2> QED BY <1>1, <2>3 DEF Start
<1>2. CASE StartPanics
  BY <1>2 DEF StartPanics, Crash
<1>3. CASE TickDue
  <2>1. clock' - 1 = clock
    BY <1>3, <1>0 DEF TickDue
  <2> QED BY <1>3, <2>1 DEF TickDue
<1>4. CASE RefreshOk
  <2>1. clock \in Versions \ {0} /\ StateFresh(state, clock - 1)
    BY <1>4, <1>0 DEF RefreshOk, TypeOK, VersionInv, Snapshots, Versions
  <2>2. PICK disk \in Readings : /\ state' = RefreshedState(state, clock, disk)
                              /\ result' = SnapshotOf(state, clock, disk)
    BY <1>4 DEF RefreshOk
  <2>3. StateFresh(state', clock) /\ SnapshotFresh(result')
    BY <1>0, <2>1, <2>2, RefreshFresh
  <2> QED BY <1>4, <2>3 DEF RefreshOk
<1>5. CASE RefreshPanics
  BY <1>5 DEF RefreshPanics, Crash
<1>6. CASE JoinOk
  BY <1>6 DEF JoinOk
<1>7. CASE StoreJson
  BY <1>7, StoreOrder DEF StoreJson
<1>8. CASE StoreSnapshot
  BY <1>8, StoreOrder DEF StoreSnapshot
<1>9. CASE JoinErr
  BY <1>9, <1>a DEF JoinErr
<1>10. CASE RebuildPanics
  BY <1>10 DEF RebuildPanics
<1>11. CASE Stop
  BY <1>11 DEF Stop
<1>12. CASE Exit
  BY <1>12 DEF Exit
<1>13. ASSUME NEW reader \in Readers, Read(reader) PROVE FreshInv'
  BY <1>13 DEF Read
<1>14. CASE UNCHANGED vars
  BY <1>14 DEF vars
<1> QED BY <1>1, <1>2, <1>3, <1>4, <1>5, <1>6, <1>7, <1>8, <1>9, <1>10,
           <1>11, <1>12, <1>13, <1>14 DEF Next, Halted

-----------------------------------------------------------------------------
(* Rate windows *)

\* One rate: the window a refresh reports joins the last published one, and
\* the baseline it leaves is where that window ends.
LEMMA WindowJoins ==
  ASSUME NEW prev \in Int, NEW v \in Nat \ {0}, NEW disk \in Readings,
         NEW old \in Int \X Int, old[2] < v, Baseline(prev, old)
  PROVE  /\ Joins(old, Window(prev, disk, v), v)
         /\ Window(prev, disk, v)[2] <= v
         /\ Baseline(NextPrev(prev, disk, v), Window(prev, disk, v))
<1>1. CASE prev = 0
  BY <1>1 DEF Joins, Window, NextPrev, Baseline, Readings
<1>2. CASE prev # 0
  <2> DEFINE w == Window(prev, disk, v)
  <2>1. w[1] = prev /\ w[2] = IF disk = "totals" THEN v ELSE prev
    BY <1>2 DEF Window
  <2>2. prev <= v /\ (prev = old[2] \/ (prev = Boot /\ old[1] = old[2]))
    BY <1>2 DEF Baseline, Boot
  <2>3. Baseline(NextPrev(prev, disk, v), w)
    BY <2>1 DEF NextPrev, Baseline, Readings
  <2> QED BY <2>1, <2>2, <2>3 DEF Joins
<1> QED BY <1>1, <1>2

LEMMA RefreshJoins ==
  ASSUME NEW st \in SamplerStates, NEW v \in Versions \ {0},
         NEW disk \in Readings, NEW old \in Snapshots,
         old.disk[2] < v, Baseline(st.diskPrev, old.disk),
         old.net[2] < v, Baseline(st.netPrev, old.net),
         st.netPrev = IF old.ver = v - 1 THEN v - 1 ELSE 0
  PROVE  LET r == RefreshedState(st, v, disk)
             s == SnapshotOf(st, v, disk)
         IN  /\ Joins(old.disk, s.disk, v) /\ s.disk[2] <= v
             /\ Joins(old.net, s.net, v) /\ s.net[2] <= v
             /\ Baseline(r.diskPrev, s.disk) /\ Baseline(r.netPrev, s.net)
             /\ r.netPrev = v /\ s.net = NetWindow(old.ver, v)
             /\ s.net[1] # Boot
             /\ s.ver = v
<1> DEFINE r == RefreshedState(st, v, disk)
           s == SnapshotOf(st, v, disk)
<1>1. /\ v \in Nat \ {0} /\ st.diskPrev \in Int /\ st.netPrev \in Int
      /\ old.disk \in Int \X Int /\ old.net \in Int \X Int
  BY BoundAssumption DEF Versions, Baselines, Boot, SamplerStates, Snapshots
<1>2. /\ s.disk = Window(st.diskPrev, disk, v)
      /\ s.net = Window(st.netPrev, "totals", v)
      /\ s.ver = v
      /\ r.diskPrev = NextPrev(st.diskPrev, disk, v)
      /\ r.netPrev = v
  BY DEF SnapshotOf, RefreshedState, NextPrev
<1> HIDE DEF r, s
<1>3. /\ Joins(old.disk, s.disk, v) /\ s.disk[2] <= v
      /\ Baseline(r.diskPrev, s.disk)
  BY <1>1, <1>2, WindowJoins
<1>4. /\ Joins(old.net, Window(st.netPrev, "totals", v), v)
      /\ Window(st.netPrev, "totals", v)[2] <= v
      /\ Baseline(NextPrev(st.netPrev, "totals", v),
                  Window(st.netPrev, "totals", v))
  BY <1>1, WindowJoins DEF Readings
<1>5. s.net = NetWindow(old.ver, v) /\ s.net[1] # Boot
  <2>1. old.ver \in Nat
    BY BoundAssumption DEF Snapshots, Versions
  <2> QED BY <1>1, <1>2, <2>1 DEF NetWindow, Window, Boot
<1>6. NextPrev(st.netPrev, "totals", v) = v
  BY DEF NextPrev
<1> QED BY <1>2, <1>3, <1>4, <1>5, <1>6 DEF r, s

LEMMA WindowInit == Init => WindowInv
BY DEF Init, WindowInv, Pending, Boot, EmptySnapshot, Readers, Views

LEMMA WindowStep ==
  TypeOK /\ ControlInv /\ VersionInv /\ WindowInv /\ [Next]_vars => WindowInv'
<1> SUFFICES ASSUME TypeOK, ControlInv, VersionInv, WindowInv, [Next]_vars
             PROVE  WindowInv'
  OBVIOUS
<1>0. /\ clock \in Nat /\ state \in SamplerStates /\ snap \in Snapshots
      /\ snap.ver \in Nat /\ snap.disk[2] \in Int /\ snap.net[2] \in Int
  BY BoundAssumption DEF TypeOK, Versions, Baselines, Boot, Snapshots
<1> USE DEF WindowInv, NetBaseline, ControlInv, Pending, Readers, Views
<1>1. CASE Start
  <2>1. 1 \in Versions \ {0} /\ NewState \in SamplerStates
    BY <1>1, BoundAssumption, InitialTypes DEF Start, Versions
  <2>2. PICK disk \in Readings : /\ state' = RefreshedState(NewState, 1, disk)
                              /\ snap' = SnapshotOf(NewState, 1, disk)
    BY <1>1 DEF Start
  <2>3. /\ NewState.diskPrev = 0 /\ NewState.netPrev = 0
        /\ snap.disk[2] = 0 /\ snap.net[2] = 0 /\ snap.ver = 0
    BY <1>1 DEF Start, NewState, EmptySnapshot
  <2>4. /\ snap'.disk[2] <= 1 /\ snap'.net[2] <= 1 /\ snap'.ver = 1
        /\ Baseline(state'.diskPrev, snap'.disk)
        /\ Baseline(state'.netPrev, snap'.net)
        /\ state'.netPrev = 1 /\ snap'.net[1] # Boot
    BY <1>0, <2>1, <2>2, <2>3, RefreshJoins DEF Baseline
  <2> QED BY <1>1, <2>4 DEF Start
<1>2. CASE StartPanics
  BY <1>2 DEF StartPanics, Crash
<1>3. CASE TickDue
  <2>1. clock' - 1 = clock
    BY <1>3, <1>0 DEF TickDue
  <2> QED BY <1>3, <2>1 DEF TickDue
<1>4. CASE RefreshOk
  <2>1. /\ clock \in Versions \ {0}
        /\ snap.ver < clock
        /\ state.netPrev = NetBaseline(clock - 1)
        /\ Baseline(state.diskPrev, snap.disk)
        /\ Baseline(state.netPrev, snap.net)
    BY <1>4, <1>0 DEF RefreshOk, TypeOK, VersionInv, Versions
  <2>2. PICK disk \in Readings : /\ state' = RefreshedState(state, clock, disk)
                              /\ result' = SnapshotOf(state, clock, disk)
    BY <1>4 DEF RefreshOk
  <2>3. snap.disk[2] < clock /\ snap.net[2] < clock
    BY <1>0, <2>1
  <2>4. /\ Joins(snap.disk, result'.disk, clock) /\ result'.disk[2] <= clock
        /\ Joins(snap.net, result'.net, clock) /\ result'.net[2] <= clock
        /\ Baseline(state'.diskPrev, result'.disk)
        /\ Baseline(state'.netPrev, result'.net)
        /\ state'.netPrev = clock
        /\ result'.net = NetWindow(snap.ver, clock)
        /\ result'.net[1] # Boot
        /\ result'.ver = clock
    BY <1>0, <2>1, <2>2, <2>3, RefreshJoins DEF NetBaseline
  <2> QED BY <1>4, <2>4 DEF RefreshOk
<1>5. CASE RefreshPanics
  BY <1>5 DEF RefreshPanics, Crash
<1>6. CASE JoinOk
  BY <1>6 DEF JoinOk
<1>7. CASE StoreJson
  BY <1>7, StoreOrder DEF StoreJson
<1>8. CASE StoreSnapshot
  BY <1>8, StoreOrder DEF StoreSnapshot, VersionInv
<1>9. CASE JoinErr
  BY <1>9, <1>0 DEF JoinErr, NewState, Baseline, VersionInv
<1>10. CASE RebuildPanics
  BY <1>10 DEF RebuildPanics
<1>11. CASE Stop
  BY <1>11 DEF Stop
<1>12. CASE Exit
  BY <1>12 DEF Exit
<1>13. ASSUME NEW reader \in Readers, Read(reader) PROVE WindowInv'
  BY <1>13 DEF Read
<1>14. CASE UNCHANGED vars
  BY <1>14 DEF vars
<1> QED BY <1>1, <1>2, <1>3, <1>4, <1>5, <1>6, <1>7, <1>8, <1>9, <1>10,
           <1>11, <1>12, <1>13, <1>14 DEF Next, Halted

-----------------------------------------------------------------------------
(* What follows for the specification *)

\* The inductive invariant, but for the slots.
Inv == TypeOK /\ ControlInv /\ VersionInv /\ FreshInv /\ WindowInv

THEOREM Invariance == Spec => []Inv
<1>1. Init => Inv
  BY TypeInit, ControlInit, VersionInit, FreshInit, WindowInit DEF Inv
<1>2. Inv /\ [Next]_vars => Inv'
  BY TypeStep, ControlStep, VersionStep, FreshStep, WindowStep DEF Inv
<1> QED BY <1>1, <1>2, PTL DEF Spec

\* With serialization that does not fail, the slots as well.
THEOREM SlotsInvariance ==
  ASSUME ~SerializeMayFail
  PROVE  Spec => []SlotsInv
<1>1. Init => SlotsInv
  BY SlotsInit
<1>2. Inv /\ SlotsInv /\ [Next]_vars => SlotsInv'
  BY SlotsStep DEF Inv
<1> QED BY <1>1, <1>2, Invariance, PTL DEF Spec

\* The expect of the tick loop never fails, after any number of panics.
THEOREM StateRestored == Spec => []StateAlwaysRestored
<1>1. Inv => StateAlwaysRestored
  BY DEF Inv, ControlInv, StateAlwaysRestored
<1> QED BY <1>1, Invariance, PTL

\* All four slots hold one snapshot whenever a reader can run.
THEOREM SlotsAlwaysAgree ==
  ASSUME ~SerializeMayFail
  PROVE  Spec => []SlotsAgree
<1>1. SlotsInv => SlotsAgree
  BY StoreOrder DEF SlotsInv, SlotsAgree, Stored, RuntimeFree, Readers, Views
<1> QED BY <1>1, SlotsInvariance, PTL

\* Published process lists are younger than the scan cadence.
THEOREM ProcessesStayFresh == Spec => []ProcessesFresh
<1>1. Inv => ProcessesFresh
  BY DEF Inv, FreshInv, SnapshotFresh, ProcessesFresh
<1> QED BY <1>1, Invariance, PTL

\* Published mount tables are younger than the mount cadence.
THEOREM MountsStayFresh == Spec => []MountsFresh
<1>1. Inv => MountsFresh
  BY DEF Inv, FreshInv, SnapshotFresh, MountsFresh
<1> QED BY <1>1, Invariance, PTL

\* A published network rate is that of the tick since the snapshot before, and
\* zero if there is no such snapshot.
THEOREM NetRateCoversOneTick == Spec => NetRateIsOneTick
<1> DEFINE A == snap' # snap => snap'.net = NetWindow(snap.ver, snap'.ver)
<1>1. Inv /\ [Next]_vars => [A]_vars
  <2> SUFFICES ASSUME Inv, [Next]_vars, snap' # snap PROVE A
    OBVIOUS
  <2>1. CASE Start
    <3>1. PICK disk \in Readings : snap' = SnapshotOf(NewState, 1, disk)
      BY <2>1 DEF Start
    <3>2. snap.ver = 0
      BY <2>1 DEF Start, Inv, ControlInv, EmptySnapshot
    <3> QED BY <3>1, <3>2 DEF SnapshotOf, Window, NewState, NetWindow
  <2>2. CASE StoreSnapshot
    BY <2>2 DEF StoreSnapshot, Inv, WindowInv, Pending, Readers
  <2>3. Start \/ StoreSnapshot
    BY DEF Next, Halted, vars, StartPanics, TickDue, RefreshOk, RefreshPanics,
           JoinOk, StoreJson, JoinErr, RebuildPanics, Stop, Exit, Read
  <2> QED BY <2>1, <2>2, <2>3
<1> QED BY <1>1, Invariance, PTL DEF Spec, NetRateIsOneTick

\* Published rates count no traffic twice and skip none but for a rebuild.
THEOREM RatesAlwaysTile == Spec => RatesTile
<1> DEFINE A == snap' # snap => /\ Joins(snap.disk, snap'.disk, snap'.ver)
                                /\ Joins(snap.net, snap'.net, snap'.ver)
                                /\ snap'.net[1] # Boot
<1>1. Inv /\ [Next]_vars => [A]_vars
  <2> SUFFICES ASSUME Inv, [Next]_vars, snap' # snap PROVE A
    OBVIOUS
  <2>1. CASE Start
    <3>1. PICK disk \in Readings : snap' = SnapshotOf(NewState, 1, disk)
      BY <2>1 DEF Start
    <3>2. snap.disk = <<0, 0>> /\ snap.net = <<0, 0>>
      BY <2>1 DEF Start, Inv, ControlInv, EmptySnapshot
    <3>3. snap'.disk = <<1, 1>> /\ snap'.net = <<1, 1>> /\ snap'.ver = 1
      BY <3>1 DEF SnapshotOf, Window, NewState
    <3> QED BY <3>2, <3>3 DEF Joins, Boot
  <2>2. CASE StoreSnapshot
    BY <2>2 DEF StoreSnapshot, Inv, WindowInv, Pending, Readers
  <2>3. Start \/ StoreSnapshot
    BY DEF Next, Halted, vars, StartPanics, TickDue, RefreshOk, RefreshPanics,
           JoinOk, StoreJson, JoinErr, RebuildPanics, Stop, Exit, Read
  <2> QED BY <2>1, <2>2, <2>3
<1> QED BY <1>1, Invariance, PTL DEF Spec, RatesTile

\* A reader of any slots never goes back to an older snapshot.
THEOREM ReadsNeverRegress ==
  ASSUME ~SerializeMayFail
  PROVE  Spec => MonotoneReads
<1>1. Inv /\ SlotsInv /\ [Next]_vars => [seen' >= seen]_vars
  <2> SUFFICES ASSUME Inv, SlotsInv, [Next]_vars PROVE seen' >= seen
    OBVIOUS
  <2>1. seen \in Int /\ snap.ver \in Nat
    BY BoundAssumption DEF Inv, TypeOK, Versions, Snapshots, NoRead
  <2>2. ASSUME NEW reader \in Readers, Read(reader) PROVE seen' = snap.ver
    BY <2>2, StoreOrder
       DEF Read, Visible, RuntimeFree, SlotsInv, Stored, Readers, Views
  <2>3. seen' = seen \/ \E reader \in Readers : Read(reader)
    BY DEF Next, Halted, vars, Start, StartPanics, TickDue, RefreshOk,
           RefreshPanics, JoinOk, StoreJson, StoreSnapshot, JoinErr,
           RebuildPanics, Stop, Exit
  <2> QED BY <2>1, <2>2, <2>3 DEF SlotsInv
<1> QED BY <1>1, Invariance, SlotsInvariance, PTL DEF Spec, MonotoneReads

\* A refresh in flight when stop is called never reaches a slot.
THEOREM StopSettles == Spec => StopIsFinal
<1>1. Inv /\ [Next]_vars => [Stopped => UNCHANGED <<json, snap>>]_vars
  <2> SUFFICES ASSUME Inv, [Next]_vars, Stopped PROVE UNCHANGED <<json, snap>>
    OBVIOUS
  <2>1. ~Start /\ ~StoreJson /\ ~StoreSnapshot
    BY DEF Start, StoreJson, StoreSnapshot, Inv, ControlInv, Readers, Stopped
  <2> QED BY <2>1 DEF Next, Halted, vars, StartPanics, TickDue, RefreshOk,
           RefreshPanics, JoinOk, JoinErr, RebuildPanics, Stop, Exit, Read
<1> QED BY <1>1, Invariance, PTL DEF Spec, StopIsFinal

\* The sampler implements the cell its readers are promised.
THEOREM ImplementsCell ==
  ASSUME ~SerializeMayFail
  PROVE  Spec => CellSpec
<1>1. Init => Cell!Init
  BY DEF Init, NoRead, Cell!Init, Cell!NoRead, EmptySnapshot
<1>2. Inv /\ SlotsInv /\ [Next]_vars => [Cell!Next]_(Cell!vars)
  <2> SUFFICES ASSUME Inv, SlotsInv, [Next]_vars
               PROVE  Cell!Next \/ UNCHANGED Cell!vars
    OBVIOUS
  <2>0. snap.ver \in Nat /\ result.ver \in Nat
    BY BoundAssumption DEF Inv, TypeOK, Versions, Snapshots
  <2> USE DEF Cell!Next, Cell!vars, Inv
  <2>1. CASE Start
    <3>1. snap.ver = 0 /\ snap'.ver = 1
      BY <2>1 DEF Start, ControlInv, EmptySnapshot, SnapshotOf
    <3> QED BY <2>1, <3>1 DEF Start, Cell!Publish
  <2>2. CASE StoreSnapshot
    <3>1. snap'.ver = result.ver /\ snap.ver < result.ver /\ life = "running"
      BY <2>2 DEF StoreSnapshot, VersionInv, ControlInv, Pending, Readers
    <3> QED BY <2>0, <2>2, <3>1 DEF StoreSnapshot, Cell!Publish
  <2>3. ASSUME NEW reader \in Readers, Read(reader) PROVE Cell!Read
    <3>1. seen' = snap.ver
      BY <2>3, StoreOrder
         DEF Read, Visible, RuntimeFree, SlotsInv, Stored, Readers, Views
    <3>2. snap.ver # 0
      BY <2>0, <2>3 DEF Read, VersionInv
    <3> QED BY <2>3, <3>1, <3>2 DEF Read, Cell!Read
  <2>4. CASE StartPanics \/ RefreshPanics \/ Stop
    BY <2>4 DEF StartPanics, RefreshPanics, Crash, Stop, Cell!Close
  <2>5. CASE TickDue \/ RefreshOk \/ JoinOk \/ StoreJson \/ JoinErr
             \/ RebuildPanics \/ Exit \/ UNCHANGED vars
    BY <2>5 DEF TickDue, RefreshOk, JoinOk, StoreJson, JoinErr, RebuildPanics,
                Exit, vars
  <2> QED BY <2>1, <2>2, <2>3, <2>4, <2>5 DEF Next, Halted
<1> QED BY <1>1, <1>2, Invariance, SlotsInvariance, PTL
        DEF Spec, CellSpec, Cell!Spec

-----------------------------------------------------------------------------
(* Slots when a store may fail *)

\* No buffer is ahead of the refresh last begun, whichever stores failed.
BufferInv == \A view \in Views : json[view] <= clock

LEMMA BufferInit == Init => BufferInv
BY DEF Init, BufferInv

LEMMA BufferStep == Inv /\ BufferInv /\ [Next]_vars => BufferInv'
<1> SUFFICES ASSUME Inv, BufferInv, [Next]_vars PROVE BufferInv'
  OBVIOUS
<1>0. /\ clock \in Nat /\ result.ver \in Nat
      /\ json \in [Views -> Versions]
      /\ \A view \in Views : json[view] \in Nat
  BY BoundAssumption DEF Inv, TypeOK, Snapshots, Versions
<1> USE DEF BufferInv
<1>1. CASE Start
  BY <1>1, <1>0 DEF Start
<1>2. CASE TickDue
  <2>1. json' = json /\ clock' = clock + 1
    BY <1>2 DEF TickDue
  <2> QED BY <1>0, <2>1
<1>3. CASE StoreJson
  <2>1. result.ver = clock
    BY <1>3 DEF StoreJson, Inv, VersionInv, Pending, Readers
  <2> QED BY <1>3, <1>0, <2>1 DEF StoreJson
<1>4. CASE UNCHANGED <<json, clock>>
  BY <1>4
<1> QED BY <1>1, <1>2, <1>3, <1>4
        DEF Next, Halted, vars, StartPanics, RefreshOk, RefreshPanics, JoinOk,
            StoreSnapshot, JoinErr, RebuildPanics, Stop, Exit, Read

\* SlotsNeverRegress: a buffer whose serialization failed is left behind, and
\* whatever it missed, the next store of it is newer.
THEOREM SlotsAdvance == Spec => SlotsNeverRegress
<1>1. Inv /\ BufferInv /\ [Next]_vars
        => [\A reader \in Readers : Visible(reader)' >= Visible(reader)]_vars
  <2> SUFFICES ASSUME Inv, BufferInv, [Next]_vars, NEW reader \in Readers
               PROVE  Visible(reader)' >= Visible(reader)
    OBVIOUS
  <2>0. /\ snap.ver \in Nat /\ result.ver \in Nat /\ clock \in Nat
        /\ json \in [Views -> Versions]
        /\ \A view \in Views : json[view] \in Nat
    BY BoundAssumption DEF Inv, TypeOK, Snapshots, Versions
  <2> USE DEF Visible
  <2>1. CASE Start
    <3>1. snap.ver = 0 /\ json = [view \in Views |-> 0]
      BY <2>1 DEF Start, Inv, ControlInv, EmptySnapshot
    <3>2. snap'.ver = 1 /\ \A view \in Views : json'[view] \in {0, 1}
      BY <2>1 DEF Start, SnapshotOf
    <3> QED BY <3>1, <3>2 DEF Readers
  <2>2. CASE StoreJson
    <3>1. result.ver = clock
      BY <2>2 DEF StoreJson, Inv, VersionInv, Pending, Readers
    <3>2. \A view \in Views : json'[view] >= json[view]
      BY <2>0, <2>2, <3>1 DEF StoreJson, BufferInv
    <3> QED BY <2>0, <2>2, <3>2 DEF StoreJson, Readers
  <2>3. CASE StoreSnapshot
    <3>1. snap'.ver > snap.ver
      BY <2>3 DEF StoreSnapshot, Inv, VersionInv, Pending, Readers
    <3> QED BY <2>0, <2>3, <3>1 DEF StoreSnapshot, Readers
  <2>4. CASE UNCHANGED <<json, snap>>
    BY <2>0, <2>4 DEF Readers
  <2> QED BY <2>1, <2>2, <2>3, <2>4
          DEF Next, Halted, vars, StartPanics, TickDue, RefreshOk,
              RefreshPanics, JoinOk, JoinErr, RebuildPanics, Stop, Exit, Read
<1>2. Spec => []BufferInv
  BY BufferInit, BufferStep, Invariance, PTL DEF Spec
<1> QED BY <1>1, <1>2, Invariance, PTL DEF Spec, SlotsNeverRegress

-----------------------------------------------------------------------------
(* Progress.  The prover does not see when an action is enabled, so each     *)
(* fairness assumption of LiveSpec is stated with the action's guard.        *)

\* Weak fairness of an action that its guard enables: the guard does not hold
\* for good without a step of the action.
WeakFair(guard, A) == []<>~guard \/ []<><<A>>_vars

\* A refresh on the pool returns or panics; the runtime drops when it is done.
PoolRuns == WeakFair(job = "running", RefreshOk \/ RefreshPanics)
MainReturns == WeakFair(life = "stopped" /\ job # "running", Exit)

\* From stop on, the refresh in flight ends or is none.
LEMMA StopStep ==
  ASSUME Inv, life = "stopped", [Next]_vars
  PROVE  /\ life' \in {"stopped", "exited", "crashed"}
         /\ job # "running" => job' # "running"
<1>1. task \notin {"none", "sleep", "join"} \cup Readers
  BY DEF Inv, ControlInv
<1> QED BY <1>1 DEF Next, Halted, vars, Start, StartPanics, TickDue, RefreshOk,
     RefreshPanics, Crash, JoinOk, StoreJson, StoreSnapshot, JoinErr,
     RebuildPanics, Stop, Exit, Read, Readers

\* The process has ended, by itself or by an abort.
Gone == life \in {"exited", "crashed"}

\* StopTerminates: a stopped process exits, however its last refresh ends, and
\* needs nothing of the timer or of the tick task, which stop has dropped.
THEOREM StopEndsProcess == Spec /\ PoolRuns /\ MainReturns => StopTerminates
<1>1. Inv /\ life = "stopped" /\ [Next]_vars => (life = "stopped")' \/ Gone'
  BY StopStep DEF Gone
<1>2. Inv /\ life = "stopped" /\ ~(job = "running") /\ [Next]_vars
        => ~(job = "running")'
  BY StopStep
<1>3. Inv /\ life = "stopped" /\ <<RefreshOk \/ RefreshPanics>>_vars
        => ~(job = "running")'
  BY DEF RefreshOk, RefreshPanics, Crash
<1>4. <<Exit>>_vars => Gone'
  BY DEF Exit, Gone
<1>5. (life = "stopped" /\ job # "running")
         <=> life = "stopped" /\ ~(job = "running")
  OBVIOUS
<1>6. life \in {"exited", "crashed"} <=> Gone
  BY DEF Gone
<1> QED BY <1>1, <1>2, <1>3, <1>4, <1>5, <1>6, Invariance, PTL
        DEF Spec, PoolRuns, MainReturns, WeakFair, StopTerminates

\* What the tick task is owed: its timer, the pool, and its polls.
TimerFires == WeakFair(task = "sleep" /\ clock < MaxRefreshes, TickDue)
TaskPublishes == WeakFair(task \in Readers \/ (task = "join" /\ job = "ok"),
                          JoinOk \/ StoreJson \/ StoreSnapshot)
TaskRecovers == WeakFair(task = "join" /\ job = "panicked",
                         JoinErr \/ RebuildPanics)
FairTask == TimerFires /\ PoolRuns /\ TaskPublishes /\ TaskRecovers

\* The process runs and its tick task lives, with version v published and p
\* panics so far; and what ends that: a newer snapshot, one more panic, stop.
Serving(v, p) == /\ life = "running" /\ task # "panicked"
                 /\ snap.ver = v /\ panics = p
Moved(v, p) == \/ life # "running" \/ task = "panicked"
               \/ snap.ver > v \/ panics > p

\* Where a tick is, and what comes next: after a panic the join and a rebuild
\* lead back to the sleep, otherwise the pool, the join and the four stores.
Stage == IF task = "join" THEN job ELSE task
Follow == [panicked |-> "sleep", sleep |-> "running", running |-> "ok",
           ok |-> "http_system", http_system |-> "ws_system",
           ws_system |-> "network", network |-> "snapshot"]
Stages == DOMAIN Follow \cup {"snapshot"}
At(v, p, s) == /\ Serving(v, p) /\ Stage = s
               /\ s \in {"panicked", "sleep"} => clock < MaxRefreshes

\* A step leaves a tick in its stage, takes it to the next, or settles it.
LEMMA StageStep ==
  ASSUME NEW v, NEW p, Inv, [Next]_vars
  PROVE  /\ \A s \in DOMAIN Follow :
              At(v, p, s) => (At(v, p, s) \/ At(v, p, Follow[s]) \/ Moved(v, p))'
         /\ At(v, p, "snapshot") => (At(v, p, "snapshot") \/ Moved(v, p))'
<1>0. /\ panics \in Nat /\ snap.ver \in Nat /\ result.ver \in Nat
      /\ DOMAIN Follow = {"panicked", "sleep", "running", "ok", "http_system",
                          "ws_system", "network"}
  BY BoundAssumption DEF Inv, TypeOK, Snapshots, Versions, Follow
<1> SUFFICES ASSUME NEW s \in Stages, At(v, p, s), ~At(v, p, s)',
                    ~Moved(v, p)'
             PROVE  s \in DOMAIN Follow /\ At(v, p, Follow[s])'
  BY <1>0 DEF Stages
<1> USE DEF Serving, Moved, At, Stage, Stages, Follow
<1>1. CASE Start
  BY <1>1 DEF Start
<1>2. CASE StartPanics
  BY <1>2 DEF StartPanics, Crash
<1>3. CASE TickDue
  BY <1>3, <1>0 DEF TickDue
<1>4. CASE RefreshOk
  BY <1>4, <1>0 DEF RefreshOk, Inv, ControlInv, Readers, Views
<1>5. CASE RefreshPanics
  BY <1>5, <1>0 DEF RefreshPanics, Crash
<1>6. CASE JoinOk
  BY <1>6, <1>0 DEF JoinOk
<1>7. CASE StoreJson
  BY <1>7, <1>0, StoreOrder DEF StoreJson, Views
<1>8. CASE StoreSnapshot
  <2>1. snap'.ver > snap.ver
    BY <1>8 DEF StoreSnapshot, Inv, VersionInv, Pending, Readers
  <2> QED BY <1>8, <2>1, StoreOrder DEF StoreSnapshot
<1>9. CASE JoinErr
  BY <1>9, <1>0 DEF JoinErr
<1>10. CASE RebuildPanics
  BY <1>10 DEF RebuildPanics
<1>11. CASE Stop
  BY <1>11 DEF Stop
<1>12. CASE Exit
  BY <1>12 DEF Exit
<1>13. ASSUME NEW reader \in Readers, Read(reader)
       PROVE  UNCHANGED <<life, task, job, snap, clock, panics>>
  BY <1>13 DEF Read
<1>14. CASE UNCHANGED vars
  BY <1>14 DEF vars
<1> QED BY <1>1, <1>2, <1>3, <1>4, <1>5, <1>6, <1>7, <1>8, <1>9, <1>10,
           <1>11, <1>12, <1>13, <1>14 DEF Next, Halted

\* The step that ends a stage moves the tick on.
LEMMA StageEnds ==
  ASSUME NEW v, NEW p, Inv
  PROVE  /\ At(v, p, "panicked") /\ <<JoinErr \/ RebuildPanics>>_vars
              => ~At(v, p, "panicked")'
         /\ At(v, p, "sleep") /\ <<TickDue>>_vars => ~At(v, p, "sleep")'
         /\ At(v, p, "running") /\ <<RefreshOk \/ RefreshPanics>>_vars
              => ~At(v, p, "running")'
         /\ \A s \in Readers \cup {"ok"} :
              At(v, p, s) /\ <<JoinOk \/ StoreJson \/ StoreSnapshot>>_vars
                => ~At(v, p, s)'
<1> USE DEF At, Stage, Serving
<1>1. At(v, p, "panicked") /\ <<JoinErr \/ RebuildPanics>>_vars
        => ~At(v, p, "panicked")'
  BY DEF JoinErr, RebuildPanics
<1>2. At(v, p, "sleep") /\ <<TickDue>>_vars => ~At(v, p, "sleep")'
  BY DEF TickDue
<1>3. At(v, p, "running") /\ <<RefreshOk \/ RefreshPanics>>_vars
        => ~At(v, p, "running")'
  BY DEF RefreshOk, RefreshPanics, Crash, Inv, TypeOK, Readers, Views
<1>4. ASSUME NEW s \in Readers \cup {"ok"}, At(v, p, s),
             JoinOk \/ StoreJson \/ StoreSnapshot
      PROVE  ~At(v, p, s)'
  BY <1>4, StoreOrder DEF JoinOk, StoreJson, StoreSnapshot, Readers, Views
<1> QED BY <1>1, <1>2, <1>3, <1>4

\* The step of NeverSilent: a running process whose tick task lives publishes
\* a newer snapshot or has one more panic, from wherever its tick stands.
THEOREM TickSettles ==
  ASSUME NEW v, NEW p
  PROVE  Spec /\ FairTask =>
    ((Serving(v, p) /\ clock < MaxRefreshes) ~> Moved(v, p))
<1>1. Inv /\ Serving(v, p) /\ clock < MaxRefreshes =>
        \/ At(v, p, "panicked") \/ At(v, p, "sleep") \/ At(v, p, "running")
        \/ At(v, p, "ok") \/ At(v, p, "http_system") \/ At(v, p, "ws_system")
        \/ At(v, p, "network") \/ At(v, p, "snapshot")
  BY DEF Inv, ControlInv, TypeOK, Serving, At, Stage, Readers, Views
<1>2. Inv /\ At(v, p, "panicked") => task = "join" /\ job = "panicked"
  BY DEF At, Stage, Serving
<1>3. Inv /\ At(v, p, "sleep") => task = "sleep" /\ clock < MaxRefreshes
  BY DEF At, Stage, Serving, Inv, TypeOK
<1>4. Inv /\ At(v, p, "running") => job = "running"
  BY DEF At, Stage, Serving, Inv, TypeOK, Readers, Views
<1>5. Inv /\ (\/ At(v, p, "ok") \/ At(v, p, "http_system")
             \/ At(v, p, "ws_system") \/ At(v, p, "network")
             \/ At(v, p, "snapshot"))
        => task \in Readers \/ (task = "join" /\ job = "ok")
  BY DEF At, Stage, Serving, Inv, TypeOK, Readers, Views
<1>6. /\ Follow["panicked"] = "sleep" /\ Follow["sleep"] = "running"
      /\ Follow["running"] = "ok" /\ Follow["ok"] = "http_system"
      /\ Follow["http_system"] = "ws_system"
      /\ Follow["ws_system"] = "network" /\ Follow["network"] = "snapshot"
      /\ DOMAIN Follow = {"panicked", "sleep", "running", "ok", "http_system",
                          "ws_system", "network"}
  BY DEF Follow
<1>7. Inv /\ [Next]_vars =>
        /\ At(v, p, "panicked")
             => (At(v, p, "panicked") \/ At(v, p, "sleep") \/ Moved(v, p))'
        /\ At(v, p, "sleep")
             => (At(v, p, "sleep") \/ At(v, p, "running") \/ Moved(v, p))'
        /\ At(v, p, "running")
             => (At(v, p, "running") \/ At(v, p, "ok") \/ Moved(v, p))'
        /\ At(v, p, "ok")
             => (At(v, p, "ok") \/ At(v, p, "http_system") \/ Moved(v, p))'
        /\ At(v, p, "http_system")
             => (At(v, p, "http_system") \/ At(v, p, "ws_system")
                   \/ Moved(v, p))'
        /\ At(v, p, "ws_system")
             => (At(v, p, "ws_system") \/ At(v, p, "network") \/ Moved(v, p))'
        /\ At(v, p, "network")
             => (At(v, p, "network") \/ At(v, p, "snapshot") \/ Moved(v, p))'
        /\ At(v, p, "snapshot") => (At(v, p, "snapshot") \/ Moved(v, p))'
  BY <1>6, StageStep
<1>8. Inv =>
        /\ At(v, p, "panicked") /\ <<JoinErr \/ RebuildPanics>>_vars
             => ~At(v, p, "panicked")'
        /\ At(v, p, "sleep") /\ <<TickDue>>_vars => ~At(v, p, "sleep")'
        /\ At(v, p, "running") /\ <<RefreshOk \/ RefreshPanics>>_vars
             => ~At(v, p, "running")'
  BY StageEnds
<1>9. Inv /\ <<JoinOk \/ StoreJson \/ StoreSnapshot>>_vars =>
        /\ At(v, p, "ok") => ~At(v, p, "ok")'
        /\ At(v, p, "http_system") => ~At(v, p, "http_system")'
        /\ At(v, p, "ws_system") => ~At(v, p, "ws_system")'
        /\ At(v, p, "network") => ~At(v, p, "network")'
        /\ At(v, p, "snapshot") => ~At(v, p, "snapshot")'
  BY StageEnds DEF Readers, Views
<1> QED BY <1>1, <1>2, <1>3, <1>4, <1>5, <1>7, <1>8, <1>9, Invariance, PTL
        DEF Spec, FairTask, TimerFires, PoolRuns, TaskPublishes, TaskRecovers,
            WeakFair

\* Once no refresh panics any more, every tick of a running process ends in a
\* snapshot newer than the one readers had, unless stop comes first.
THEOREM QuietTicksPublish ==
  ASSUME NEW v, NEW p
  PROVE  Spec /\ FairTask =>
    (Serving(v, p) /\ clock < MaxRefreshes /\ [](panics = p)
       ~> (snap.ver > v \/ life # "running" \/ task = "panicked"))
<1>1. Spec /\ FairTask =>
        ((Serving(v, p) /\ clock < MaxRefreshes) ~> Moved(v, p))
  BY TickSettles
<1>2. Inv /\ Moved(v, p) /\ panics = p
        => snap.ver > v \/ life # "running" \/ task = "panicked"
  BY BoundAssumption DEF Moved, Inv, TypeOK
<1> QED BY <1>1, <1>2, Invariance, PTL

-----------------------------------------------------------------------------
(* The release build, where a panic aborts (Cargo.toml, profile.release).    *)

\* The first panic is the last step of the process, so nothing is recovered.
ReleaseInv == /\ job # "panicked" /\ task # "panicked"
              /\ life \in {"boot", "running", "stopped"} => panics = 0

\* In a release build the join of a refresh never returns an error, and a
\* process that is alive never had a panic: JoinErr and the rebuild are dead.
THEOREM ReleaseNeverRecovers ==
  ASSUME PanicStrategies = {"abort"}
  PROVE  Spec => []ReleaseInv
<1>1. Init => ReleaseInv
  BY DEF Init, ReleaseInv
<1>2. Inv /\ ReleaseInv /\ [Next]_vars => ReleaseInv'
  <2> SUFFICES ASSUME Inv, ReleaseInv, [Next]_vars PROVE ReleaseInv'
    OBVIOUS
  <2> USE DEF ReleaseInv
  <2>1. CASE Start \/ StartPanics \/ TickDue \/ RefreshOk
    BY <2>1 DEF Start, StartPanics, Crash, TickDue, RefreshOk
  <2>2. CASE RefreshPanics
    <3>1. Crash
      BY <2>2 DEF RefreshPanics
    <3> QED BY <3>1 DEF Crash
  <2>3. CASE JoinOk \/ StoreJson \/ StoreSnapshot \/ JoinErr \/ RebuildPanics
    BY <2>3, StoreOrder DEF JoinOk, StoreJson, StoreSnapshot, JoinErr,
                            RebuildPanics, Readers, Views
  <2>4. CASE Stop \/ Exit \/ UNCHANGED vars
    BY <2>4 DEF Stop, Exit, vars
  <2>5. CASE (\E reader \in Readers : Read(reader)) \/ Halted
    BY <2>5 DEF Read, Halted, vars
  <2> QED BY <2>1, <2>2, <2>3, <2>4, <2>5 DEF Next
<1> QED BY <1>1, <1>2, Invariance, PTL DEF Spec

\* NeverSilent in a release build, in full: a running process publishes a newer
\* snapshot, or it is no longer running.
THEOREM ReleaseNeverSilent ==
  ASSUME PanicStrategies = {"abort"}, NEW v
  PROVE  Spec /\ FairTask =>
    (life = "running" /\ snap.ver = v /\ clock < MaxRefreshes
       ~> (snap.ver > v \/ life # "running"))
<1>0. PICK p : p = 0
  OBVIOUS
<1>1. Spec => []ReleaseInv
  BY ReleaseNeverRecovers
<1>2. Spec /\ FairTask =>
        ((Serving(v, p) /\ clock < MaxRefreshes) ~> Moved(v, p))
  BY TickSettles
<1>3. ReleaseInv /\ life = "running" /\ snap.ver = v => Serving(v, p)
  BY <1>0 DEF ReleaseInv, Serving
<1>4. ReleaseInv /\ Moved(v, p) => snap.ver > v \/ life # "running"
  BY <1>0 DEF ReleaseInv, Moved
<1> QED BY <1>1, <1>2, <1>3, <1>4, PTL
=============================================================================
