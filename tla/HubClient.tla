------------------------------ MODULE HubClient ------------------------------
(***************************************************************************)
(* src/hub/client.rs: the supervisor that connects to a hub, greets it,    *)
(* streams snapshots to it and, whenever that ends, waits and starts over. *)
(* One step is what the task does from one await to the next.              *)
(*                                                                         *)
(* The snapshot slot is its version: the sampler may store a newer one     *)
(* between any two sends.  Durations are in milliseconds; the f64 product  *)
(* is truncated.  The hub is the environment: it may refuse, fall silent,  *)
(* answer anything, close or break the connection at every await.          *)
(***************************************************************************)
EXTENDS Integers

CONSTANTS
  BACKOFF_INITIAL,      \* 1000
  BACKOFF_MAX,          \* 30000
  GrowthNum, GrowthDen, \* BACKOFF_GROWTH = GrowthNum / GrowthDen
  HugeInterval,         \* TRUE if a welcome may carry an interval that
                        \*   Duration::from_secs_f64 panics on
  MaxVersion            \* bound: snapshots the sampler stores

ASSUME BackoffAssumption == /\ BACKOFF_INITIAL \in Nat
                            /\ BACKOFF_MAX \in Nat
                            /\ BACKOFF_INITIAL <= BACKOFF_MAX
ASSUME GrowthAssumption == /\ GrowthNum \in Nat
                           /\ GrowthDen \in Nat \ {0}
                           /\ GrowthDen <= GrowthNum
ASSUME HubAssumption == HugeInterval \in BOOLEAN /\ MaxVersion \in Nat \ {0}

VARIABLES
  pc,       \* where the supervisor task awaits
  backoff,  \* the next delay
  latest,   \* version in the snapshot slot
  cycle,    \* version of the cycle being pushed: the Arc that was loaded
  wire,     \* the last thing to happen on this connection, as the hub saw it
  stopped   \* stop was called

vars == <<pc, backoff, latest, cycle, wire, stopped>>

\* The frames of a cycle, in the order push_loop sends them.
FrameKinds == {"samples", "processes", "processes_cpu"}
NextFrame == [samples |-> "processes", processes |-> "processes_cpu",
              processes_cpu |-> "waiting"]

NoWire == [kind |-> "none", ver |-> 0]

Init == /\ pc = "connect"
        /\ backoff = BACKOFF_INITIAL
        /\ latest = 1
        /\ cycle = 0
        /\ wire = NoWire
        /\ stopped = FALSE

-----------------------------------------------------------------------------
(* supervise *)

AtMost(a, b) == IF a <= b THEN a ELSE b

\* Mutant: the product is not capped.
GrownUncapped(b) == (b * GrowthNum) \div GrowthDen

\* The delay after the next one.
Grown(b) == AtMost((b * GrowthNum) \div GrowthDen, BACKOFF_MAX)

\* Mutant: the error ends the supervisor.
BreaksForGood == /\ pc' = "done"
                 /\ UNCHANGED <<backoff, cycle, wire>>

\* Mutant: any end of a connection starts the delays anew.
BreaksResetting == /\ pc' = "backoff"
                   /\ backoff' = BACKOFF_INITIAL
                   /\ UNCHANGED <<cycle, wire>>

\* connect_and_push returned Err: the next delay is the one it has grown to.
Breaks == /\ pc' = "backoff"
          /\ UNCHANGED <<backoff, cycle, wire>>

\* connect_and_push returned Ok: the next delay is the initial one.
EndsCleanly == /\ pc' = "backoff"
               /\ backoff' = BACKOFF_INITIAL
               /\ UNCHANGED <<cycle, wire>>

\* The delay has passed: the next one is longer, and the hub is tried again.
Retry == /\ pc = "backoff"
         /\ backoff' = Grown(backoff)
         /\ pc' = "connect"
         /\ wire' = NoWire
         /\ UNCHANGED <<cycle, latest, stopped>>

-----------------------------------------------------------------------------
(* connect_and_push *)

ConnectOk == /\ pc = "connect"
             /\ pc' = "hello"
             /\ UNCHANGED <<backoff, cycle, wire, latest, stopped>>

HelloSent == /\ pc = "hello"
             /\ pc' = "welcome"
             /\ wire' = [kind |-> "hello", ver |-> 0]
             /\ UNCHANGED <<backoff, cycle, latest, stopped>>

\* The first frame is a welcome; push_loop loads the snapshot it will send.
Welcomed == /\ pc = "welcome"
            /\ pc' = "samples"
            /\ cycle' = latest
            /\ wire' = [kind |-> "welcome", ver |-> 0]
            /\ UNCHANGED <<backoff, latest, stopped>>

\* The interval of the welcome is too large for a Duration: the task panics.
WelcomePanics == /\ HugeInterval
                 /\ pc = "welcome"
                 /\ pc' = "panicked"
                 /\ UNCHANGED <<backoff, cycle, wire, latest, stopped>>

\* The connection is refused or lost, a send fails, or the first frame is an
\* error, another frame, no text, no JSON, or the end of the stream.
ConnectionBreaks == /\ pc \in {"connect", "hello", "welcome", "waiting"}
                              \cup FrameKinds
                    /\ Breaks
                    /\ UNCHANGED <<latest, stopped>>

-----------------------------------------------------------------------------
(* push_loop *)

\* Mutant: every frame is built from the slot and not from the loaded Arc.
SendReloading ==
  /\ pc \in FrameKinds
  /\ wire' = [kind |-> pc, ver |-> latest]
  /\ pc' = NextFrame[pc]
  /\ UNCHANGED <<backoff, cycle, latest, stopped>>

\* One frame of the cycle, from the snapshot loaded for it.
Send == /\ pc \in FrameKinds
        /\ wire' = [kind |-> pc, ver |-> cycle]
        /\ pc' = NextFrame[pc]
        /\ UNCHANGED <<backoff, cycle, latest, stopped>>

\* A process list may be empty; the samples never are.
SkipFrame == /\ pc \in FrameKinds \ {"samples"}
             /\ pc' = NextFrame[pc]
             /\ UNCHANGED <<backoff, cycle, wire, latest, stopped>>

\* The interval has passed: a new cycle loads the slot again.
NextCycle == /\ pc = "waiting"
             /\ pc' = "samples"
             /\ cycle' = latest
             /\ UNCHANGED <<backoff, wire, latest, stopped>>

\* The hub closes the stream in good order.
HubCloses == /\ pc = "waiting"
             /\ EndsCleanly
             /\ UNCHANGED <<latest, stopped>>

-----------------------------------------------------------------------------
(* Around it *)

\* The sampler stores a newer snapshot.
Sample == /\ latest < MaxVersion
          /\ latest' = latest + 1
          /\ UNCHANGED <<pc, backoff, cycle, wire, stopped>>

\* Mutant: stop only notifies.  In a cycle's wait two selects listen; if the
\* inner one is polled first, push_loop returns Ok, and the select around the
\* delay waits for a notification that is already spent.
StopNotifies == /\ ~stopped
                /\ stopped' = TRUE
                /\ \/ pc' = "done" /\ UNCHANGED <<backoff, cycle, wire>>
                   \/ pc = "waiting" /\ EndsCleanly
                /\ UNCHANGED latest

\* HubClient::stop notifies and aborts the task at the await it is in.
Stop == /\ ~stopped
        /\ stopped' = TRUE
        /\ pc' = "done"
        /\ UNCHANGED <<backoff, cycle, wire, latest>>

\* After stop only the process's own exit is left to do.
Idle == stopped /\ UNCHANGED vars

Next == \/ Retry \/ ConnectOk \/ HelloSent \/ Welcomed \/ WelcomePanics
        \/ ConnectionBreaks \/ Send \/ SkipFrame \/ NextCycle \/ HubCloses
        \/ Sample \/ Stop \/ Idle

Spec == Init /\ [][Next]_vars

\* The delay passes and pending sends complete or fail.
TaskFairness == /\ WF_vars(Retry)
                /\ WF_vars(NextCycle)
                /\ WF_vars(Send \/ SkipFrame \/ (pc \in FrameKinds /\ Breaks))

\* A hub that is tried again and again accepts in the end, and answers with a
\* welcome.  The client has no timeout, so nothing less will do.
HubFairness == SF_vars(ConnectOk) /\ SF_vars(HelloSent) /\ SF_vars(Welcomed)

LiveSpec == Spec /\ TaskFairness /\ HubFairness

-----------------------------------------------------------------------------
(* Properties *)

Pcs == {"connect", "hello", "welcome", "waiting", "backoff", "panicked",
        "done"}
         \cup FrameKinds
Kinds == {"none", "hello", "welcome"} \cup FrameKinds

\* Every variable has its type, and every delay lies between the initial one
\* and the maximum, however connections end.
TypeOK == /\ pc \in Pcs
          /\ backoff \in BACKOFF_INITIAL..BACKOFF_MAX
          /\ latest \in 1..MaxVersion
          /\ cycle \in 0..MaxVersion
          /\ wire \in [kind : Kinds, ver : 0..MaxVersion]
          /\ stopped \in BOOLEAN

\* What may follow what on one connection: a hello first, samples only after
\* the welcome or a whole cycle, and a process frame only behind the samples
\* of the same snapshot, whatever the sampler stores between the sends.
Follows(new, old) ==
  CASE new.kind = "none" -> TRUE
    [] new.kind = "hello" -> old.kind = "none"
    [] new.kind = "welcome" -> old.kind = "hello"
    [] new.kind = "samples" -> old.kind \in {"welcome"} \cup FrameKinds
    [] new.kind = "processes" -> old.kind = "samples" /\ old.ver = new.ver
    [] new.kind = "processes_cpu" -> /\ old.kind \in {"samples", "processes"}
                                     /\ old.ver = new.ver
FramesInOrder == [][wire' # wire => Follows(wire', wire)]_vars

\* Once stop has returned, nothing more is sent and no connection is opened.
StopIsQuiet == [][stopped => (UNCHANGED <<pc, wire>>)]_vars

\* A hub that keeps refusing or breaking is never tried sooner than before: only
\* a stream that the hub closed in good order starts the delays anew.
DelayNeverShrinks ==
  [][backoff' < backoff => /\ pc = "waiting" /\ pc' = "backoff"
                           /\ backoff' = BACKOFF_INITIAL]_vars

\* After any break the client streams again, if the hub lets it: only a panic
\* over a welcome and stop end the supervisor.
StreamResumes == pc = "backoff" ~> (pc \in {"samples", "panicked"} \/ stopped)
=============================================================================
