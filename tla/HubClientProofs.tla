--------------------------- MODULE HubClientProofs ---------------------------
(***************************************************************************)
(* Theorems about HubClient, for every initial and maximal delay, every    *)
(* growth factor of one or more and any number of snapshots.               *)
(***************************************************************************)
EXTENDS HubClient, TLAPS

\* A factor of one or more never shrinks, division rounding down included.
LEMMA GrowthNeverShrinks ==
  ASSUME NEW b \in Nat
  PROVE  /\ (b * GrowthNum) \div GrowthDen \in Nat
         /\ b <= (b * GrowthNum) \div GrowthDen
<1> DEFINE t == b * GrowthNum
           q == t \div GrowthDen
<1>1. t \in Nat /\ GrowthDen \in Nat \ {0}
  BY GrowthAssumption
<1>2. t >= b * GrowthDen
  BY GrowthAssumption
<1> HIDE DEF t
<1>3. /\ t = GrowthDen * q + (t % GrowthDen)
      /\ q \in Nat
      /\ t % GrowthDen \in 0..(GrowthDen - 1)
  BY <1>1
<1> HIDE DEF q
<1>4. ASSUME q < b PROVE FALSE
  <2>1. GrowthDen * (q + 1) <= GrowthDen * b
    BY <1>1, <1>3, <1>4
  <2>2. t < GrowthDen * (q + 1)
    BY <1>1, <1>3
  <2> QED BY <1>1, <1>2, <1>3, <2>1, <2>2
<1> QED BY <1>3, <1>4 DEF q, t

\* The delay after a delay in range is in range.
LEMMA GrownInRange ==
  ASSUME NEW b \in BACKOFF_INITIAL..BACKOFF_MAX
  PROVE  Grown(b) \in BACKOFF_INITIAL..BACKOFF_MAX
<1>1. b \in Nat
  BY BackoffAssumption
<1> QED BY <1>1, GrowthNeverShrinks, BackoffAssumption DEF Grown, AtMost

\* What the hub has seen last, at each await of the task.
WireInv ==
  /\ pc \in {"connect", "hello"} => wire.kind = "none"
  /\ pc = "welcome" => wire.kind = "hello"
  /\ pc = "samples" => wire.kind \in {"welcome"} \cup FrameKinds
  /\ pc = "processes" => wire.kind = "samples" /\ wire.ver = cycle
  /\ pc = "processes_cpu" => /\ wire.kind \in {"samples", "processes"}
                             /\ wire.ver = cycle
  /\ pc = "waiting" => wire.kind \in FrameKinds
  /\ stopped => pc = "done"

IInv == TypeOK /\ WireInv

LEMMA FrameOrder == /\ NextFrame["samples"] = "processes"
                    /\ NextFrame["processes"] = "processes_cpu"
                    /\ NextFrame["processes_cpu"] = "waiting"
BY DEF NextFrame

LEMMA InvInit == Init => IInv
<1>1. BACKOFF_INITIAL \in BACKOFF_INITIAL..BACKOFF_MAX
  BY BackoffAssumption
<1>2. NoWire \in [kind : Kinds, ver : 0..MaxVersion] /\ NoWire.kind = "none"
  BY HubAssumption DEF NoWire, Kinds
<1>3. 0 \in 0..MaxVersion /\ 1 \in 1..MaxVersion
  BY HubAssumption
<1> QED BY <1>1, <1>2, <1>3
        DEF Init, IInv, TypeOK, WireInv, Pcs, FrameKinds

LEMMA InvStep == IInv /\ [Next]_vars => IInv'
<1> SUFFICES ASSUME IInv, [Next]_vars PROVE IInv'
  OBVIOUS
<1> USE DEF IInv, TypeOK, WireInv, Pcs, Kinds, FrameKinds
<1>1. CASE Retry
  BY <1>1, GrownInRange, HubAssumption DEF Retry, NoWire
<1>2. CASE ConnectOk
  BY <1>2 DEF ConnectOk
<1>3. CASE HelloSent
  BY <1>3, HubAssumption DEF HelloSent
<1>4. CASE Welcomed
  BY <1>4, HubAssumption DEF Welcomed
<1>5. CASE WelcomePanics
  BY <1>5 DEF WelcomePanics
<1>6. CASE ConnectionBreaks
  BY <1>6 DEF ConnectionBreaks, Breaks
<1>7. CASE Send
  BY <1>7, FrameOrder DEF Send
<1>8. CASE SkipFrame
  BY <1>8, FrameOrder DEF SkipFrame
<1>9. CASE NextCycle
  BY <1>9, HubAssumption DEF NextCycle
<1>10. CASE HubCloses
  BY <1>10, BackoffAssumption DEF HubCloses, EndsCleanly
<1>11. CASE Sample
  BY <1>11, HubAssumption DEF Sample
<1>12. CASE Stop
  BY <1>12 DEF Stop
<1>13. CASE Idle \/ UNCHANGED vars
  BY <1>13 DEF Idle, vars
<1> QED BY <1>1, <1>2, <1>3, <1>4, <1>5, <1>6, <1>7, <1>8, <1>9, <1>10,
           <1>11, <1>12, <1>13 DEF Next

\* Types, and the bounds of the delay, for every way connections may end.
THEOREM TypeCorrect == Spec => []TypeOK
<1>1. IInv => TypeOK
  BY DEF IInv
<1> QED BY <1>1, InvInit, InvStep, PTL DEF Spec

\* The protocol: hello, welcome, then cycles of frames of one snapshot each.
THEOREM FramesKeepOrder == Spec => FramesInOrder
<1>1. IInv /\ [Next]_vars => [wire' # wire => Follows(wire', wire)]_vars
  <2> SUFFICES ASSUME IInv, [Next]_vars, wire' # wire
               PROVE  Follows(wire', wire)
    OBVIOUS
  <2> USE DEF IInv, WireInv, FrameKinds, Follows
  <2>1. CASE Retry
    BY <2>1 DEF Retry, NoWire
  <2>2. CASE HelloSent
    BY <2>2 DEF HelloSent
  <2>3. CASE Welcomed
    BY <2>3 DEF Welcomed
  <2>4. CASE Send
    BY <2>4 DEF Send
  <2> QED BY <2>1, <2>2, <2>3, <2>4
          DEF Next, ConnectOk, WelcomePanics, ConnectionBreaks, Breaks,
              SkipFrame, NextCycle, HubCloses, EndsCleanly, Sample, Stop,
              Idle, vars
<1> QED BY <1>1, InvInit, InvStep, PTL DEF Spec, FramesInOrder

\* No await of the task survives stop.
THEOREM StopSilences == Spec => StopIsQuiet
<1>1. IInv /\ [Next]_vars => [stopped => UNCHANGED <<pc, wire>>]_vars
  <2> SUFFICES ASSUME IInv, [Next]_vars, stopped
               PROVE  UNCHANGED <<pc, wire>>
    OBVIOUS
  <2>1. pc = "done"
    BY DEF IInv, WireInv
  <2> QED BY <2>1 DEF Next, Retry, ConnectOk, HelloSent, Welcomed,
             WelcomePanics, ConnectionBreaks, Send, SkipFrame, NextCycle,
             HubCloses, Sample, Stop, Idle, vars, FrameKinds
<1> QED BY <1>1, InvInit, InvStep, PTL DEF Spec, StopIsQuiet

\* Growing rounds down and is capped, and still never shortens a delay.
THEOREM DelaysGrow == Spec => DelayNeverShrinks
<1>1. IInv /\ [Next]_vars
        => [backoff' < backoff => /\ pc = "waiting" /\ pc' = "backoff"
                                  /\ backoff' = BACKOFF_INITIAL]_vars
  <2> SUFFICES ASSUME IInv, [Next]_vars, backoff' < backoff
               PROVE  /\ pc = "waiting" /\ pc' = "backoff"
                      /\ backoff' = BACKOFF_INITIAL
    OBVIOUS
  <2>1. backoff \in Nat /\ backoff <= BACKOFF_MAX
    BY BackoffAssumption DEF IInv, TypeOK
  <2>2. ~Retry
    BY <2>1, GrowthNeverShrinks, BackoffAssumption DEF Retry, Grown, AtMost
  <2>3. CASE HubCloses
    BY <2>3 DEF HubCloses, EndsCleanly
  <2>4. CASE UNCHANGED backoff
    BY <2>1, <2>4
  <2> QED BY <2>2, <2>3, <2>4
          DEF Next, ConnectOk, HelloSent, Welcomed, WelcomePanics,
              ConnectionBreaks, Breaks, Send, SkipFrame, NextCycle, Sample,
              Stop, Idle, vars
<1> QED BY <1>1, InvInit, InvStep, PTL DEF Spec, DelayNeverShrinks

-----------------------------------------------------------------------------
(* Progress.  The prover does not see when an action is enabled, so each     *)
(* fairness assumption of LiveSpec is stated with the action's guard.        *)

\* Fairness of an action that its guard enables: without a step of it, the
\* guard does not hold for good (weak) or does not come back for good (strong).
WeakFair(guard, A) == []<>~guard \/ []<><<A>>_vars
StrongFair(guard, A) == <>[]~guard \/ []<><<A>>_vars

\* A delay ends; the hub, tried again and again, accepts in the end, takes the
\* hello and answers with a welcome.
DelayPasses == WeakFair(pc = "backoff", Retry)
HubAccepts == StrongFair(pc = "connect", ConnectOk)
HelloGoesOut == StrongFair(pc = "hello", HelloSent)
HubWelcomes == StrongFair(pc = "welcome", Welcomed)
HubLetsIn == HubAccepts /\ HelloGoesOut /\ HubWelcomes

\* The awaits between a break and the next stream, and what ends them.
Away == {"backoff", "connect", "hello", "welcome"}
Over == pc \in {"samples", "panicked"} \/ stopped

\* From each of them only the next one, a new delay, or the end.
LEMMA AwayStep ==
  ASSUME IInv, [Next]_vars, pc \in Away
  PROVE  /\ pc' \in Away \/ Over'
         /\ pc = "backoff" => pc' \in {"backoff", "connect"} \/ Over'
         /\ pc = "connect" => pc' \in {"connect", "hello", "backoff"} \/ Over'
         /\ pc = "hello" => pc' \in {"hello", "welcome", "backoff"} \/ Over'
         /\ pc = "welcome" => pc' \in {"welcome", "backoff"} \/ Over'
BY DEF Away, Over, Next, Retry, ConnectOk, HelloSent, Welcomed, WelcomePanics,
       ConnectionBreaks, Breaks, Send, SkipFrame, NextCycle, HubCloses,
       EndsCleanly, Sample, Stop, Idle, vars, FrameKinds

\* StreamResumes: strong fairness of the three answers is enough, because each
\* retry comes to the first of them and each answer to the next, or to a retry.
THEOREM StreamComesBack == Spec /\ DelayPasses /\ HubLetsIn => StreamResumes
<1>1. IInv /\ [Next]_vars =>
        /\ pc = "backoff" => (pc = "backoff" \/ pc = "connect" \/ Over)'
        /\ pc = "connect"
             => (pc = "connect" \/ pc = "hello" \/ pc = "backoff" \/ Over)'
        /\ pc = "hello"
             => (pc = "hello" \/ pc = "welcome" \/ pc = "backoff" \/ Over)'
        /\ pc = "welcome" => (pc = "welcome" \/ pc = "backoff" \/ Over)'
  BY AwayStep DEF Away
<1>2. /\ <<Retry>>_vars => (pc = "connect")'
      /\ <<ConnectOk>>_vars => (pc = "hello")'
      /\ <<HelloSent>>_vars => (pc = "welcome")'
      /\ <<Welcomed>>_vars => Over'
  BY DEF Retry, ConnectOk, HelloSent, Welcomed, Over
<1>3. /\ pc = "backoff" => ~(pc = "connect") /\ ~(pc = "hello")
                             /\ ~(pc = "welcome")
      /\ pc = "connect" => ~(pc = "hello") /\ ~(pc = "welcome")
      /\ pc = "hello" => ~(pc = "welcome")
  OBVIOUS
<1>4. (pc \in {"samples", "panicked"} \/ stopped) <=> Over
  BY DEF Over
<1> QED BY <1>1, <1>2, <1>3, <1>4, InvInit, InvStep, PTL
        DEF Spec, DelayPasses, HubLetsIn, HubAccepts, HelloGoesOut,
            HubWelcomes, WeakFair, StrongFair, StreamResumes
=============================================================================
