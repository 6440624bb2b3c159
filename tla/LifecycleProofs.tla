--------------------------- MODULE LifecycleProofs ---------------------------
(***************************************************************************)
(* Theorems about Lifecycle, for any number of connections and signals.    *)
(***************************************************************************)
EXTENDS Lifecycle, TLAPS

\* Which tasks are in the queue, and in which order, when the signal task is
\* at each of its awaits.
QueueInv ==
  /\ main = "boot" => at["signal"] = "unborn"
  /\ at["signal"] = "unborn" => queue = <<>> /\ at["watcher"] = "unborn"
  /\ at["signal"] = "new" => /\ at["watcher"] = "new"
                             /\ queue = <<"signal", "watcher">>
  /\ at["signal"] = "parked" =>
       \/ /\ at["watcher"] = "new"
          /\ queue \in {<<"watcher">>, <<"watcher", "signal">>}
       \/ /\ at["watcher"] = "parked"
          /\ queue \in {<<>>, <<"signal">>}
  /\ at["signal"] = "ended" =>
       /\ notified
       /\ \/ at["watcher"] = "parked" /\ queue = <<"watcher">>
          \/ at["watcher"] = "ended" /\ queue = <<>>

\* The sampler runs while serve does, and nothing is in progress before it or
\* after it.
ServeInv ==
  /\ main \in {"accepting", "draining"} => sampler = "running"
  /\ main \in {"boot", "returned"} => \A c \in Conns : conn[c] # "busy"
  /\ life = "exited" => \A c \in Conns : conn[c] # "busy"

LEMMA AppendToOne ==
  Append(<<"watcher">>, "signal") = <<"watcher", "signal">>
<1> DEFINE s == Append(<<"watcher">>, "signal")
           t == <<"watcher", "signal">>
<1>1. s \in Seq(Tasks) /\ t \in Seq(Tasks)
  BY DEF Tasks
<1>2. Len(s) = 2 /\ s[1] = "watcher" /\ s[2] = "signal"
  OBVIOUS
<1>3. Len(t) = 2 /\ t[1] = "watcher" /\ t[2] = "signal"
  OBVIOUS
<1> HIDE DEF s, t
<1>4. s = [i \in 1..2 |-> s[i]] /\ t = [i \in 1..2 |-> t[i]]
  BY <1>1, <1>2, <1>3
<1>5. \A i \in 1..2 : s[i] = t[i]
  BY <1>2, <1>3
<1> QED BY <1>4, <1>5 DEF s, t

\* The queues there are, and what appending, polling and removing gives.
LEMMA QueueFacts ==
  /\ Append(<<>>, "signal") = <<"signal">>
  /\ Append(<<>>, "watcher") = <<"watcher">>
  /\ Append(<<"watcher">>, "signal") = <<"watcher", "signal">>
  /\ Tail(<<"signal">>) = <<>>
  /\ Tail(<<"watcher">>) = <<>>
  /\ Tail(<<"signal", "watcher">>) = <<"watcher">>
  /\ Tail(<<"watcher", "signal">>) = <<"signal">>
  /\ Head(<<"signal">>) = "signal"
  /\ Head(<<"watcher">>) = "watcher"
  /\ Head(<<"signal", "watcher">>) = "signal"
  /\ Head(<<"watcher", "signal">>) = "watcher"
<1>1. /\ Append(<<>>, "signal") = <<"signal">>
      /\ Append(<<>>, "watcher") = <<"watcher">>
  OBVIOUS
<1>2. /\ Tail(<<"signal">>) = <<>>
      /\ Tail(<<"watcher">>) = <<>>
  OBVIOUS
<1>3. /\ Tail(<<"signal", "watcher">>) = <<"watcher">>
      /\ Tail(<<"watcher", "signal">>) = <<"signal">>
  OBVIOUS
<1>4. /\ Head(<<"signal">>) = "signal"
      /\ Head(<<"watcher">>) = "watcher"
      /\ Head(<<"signal", "watcher">>) = "signal"
      /\ Head(<<"watcher", "signal">>) = "watcher"
  OBVIOUS
<1> QED BY <1>1, <1>2, <1>3, <1>4, AppendToOne

IInv == TypeOK /\ QueueInv /\ ServeInv

LEMMA InvInit == Init => IInv
<1> SUFFICES ASSUME Init PROVE IInv
  OBVIOUS
<1>1. TypeOK
  <2>1. at \in [Tasks -> {"unborn", "new", "parked", "ended"}]
    BY DEF Init, Tasks
  <2>2. queue \in Queues
    BY DEF Init, Queues
  <2>3. conn \in [Conns -> {"closed", "idle", "busy", "upgraded"}]
    BY DEF Init
  <2>4. signals \in 0..MaxSignals
    BY SignalAssumption DEF Init
  <2> QED BY <2>1, <2>2, <2>3, <2>4 DEF Init, TypeOK
<1>2. QueueInv
  BY DEF Init, QueueInv
<1>3. ServeInv
  BY DEF Init, ServeInv
<1> QED BY <1>1, <1>2, <1>3 DEF IInv

\* A step of a connection leaves the shutdown alone and starts no request
\* outside serve.
LEMMA ConnStep ==
  ASSUME IInv, NEW c \in Conns, NEW from,
         NEW to \in {"closed", "idle", "busy", "upgraded"}, Moves(c, from, to)
  PROVE  IInv'
<1>1. TypeOK'
  BY DEF IInv, TypeOK, Moves, shutdownVars
<1>2. QueueInv'
  BY DEF IInv, QueueInv, Moves, shutdownVars
<1>3. ServeInv'
  BY DEF IInv, ServeInv, Moves
<1> QED BY <1>1, <1>2, <1>3 DEF IInv

\* A step of main or of a signal that touches neither the tasks' awaits nor
\* the queue.
LEMMA MainStep ==
  ASSUME IInv,
         \/ BootFails \/ BindFails \/ DrainBegins \/ ServeReturns \/ Exits
         \/ Signal \/ Halted \/ UNCHANGED vars
  PROVE  IInv'
<1> USE DEF IInv, shutdownVars
<1>1. TypeOK'
  <2>1. CASE Exits
    <3>1. conn' \in [Conns -> {"closed", "idle", "busy", "upgraded"}]
      BY <2>1 DEF Exits
    <3> QED BY <2>1, <3>1 DEF TypeOK, Exits
  <2>2. CASE Signal
    <3>1. signals' \in 0..MaxSignals
      BY <2>2, SignalAssumption DEF TypeOK, Signal
    <3> QED BY <2>2, <3>1 DEF TypeOK, Signal
  <2>3. CASE \/ BootFails \/ BindFails \/ DrainBegins \/ ServeReturns
             \/ Halted \/ UNCHANGED vars
    BY <2>3 DEF TypeOK, BootFails, BindFails, DrainBegins, ServeReturns,
                Halted, vars
  <2> QED BY <2>1, <2>2, <2>3
<1>2. QueueInv'
  BY DEF QueueInv, BootFails, BindFails, DrainBegins, ServeReturns, Exits,
         Signal, Halted, vars
<1>3. ServeInv'
  BY DEF ServeInv, BootFails, BindFails, DrainBegins, ServeReturns, Exits,
         Signal, Halted, vars, Open
<1> QED BY <1>1, <1>2, <1>3

LEMMA TaskStep ==
  ASSUME IInv, Serves \/ Wakes \/ PollSignal \/ PollWatcher
  PROVE  IInv'
<1> USE DEF IInv
<1>1. ServeInv'
  BY DEF ServeInv, Serves, Wakes, PollSignal, PollWatcher, Polled
<1>2. CASE Serves
  <2>1. at'["signal"] = "new" /\ at'["watcher"] = "new"
    BY <1>2 DEF Serves
  <2>2. QueueInv'
    BY <1>2, <2>1 DEF QueueInv, Serves
  <2>3. at' \in [Tasks -> {"unborn", "new", "parked", "ended"}]
    BY <1>2 DEF Serves, Tasks
  <2>4. TypeOK'
    BY <1>2, <2>3 DEF TypeOK, Serves, Queues
  <2> QED BY <1>1, <2>2, <2>4
<1>3. CASE Wakes
  <2>1. queue' \in Queues
    BY <1>3, QueueFacts DEF Wakes, Queues
  <2>2. TypeOK'
    BY <1>3, <2>1 DEF TypeOK, Wakes
  <2>3. /\ at["signal"] = "parked"
        /\ \/ at["watcher"] = "new" /\ queue = <<"watcher">>
           \/ at["watcher"] = "parked" /\ queue = <<>>
    <3>1. /\ <<"watcher", "signal">> \notin {<<>>, <<"watcher">>}
          /\ <<"signal">> \notin {<<>>, <<"watcher">>}
          /\ <<>> # <<"watcher">>
      OBVIOUS
    <3> QED BY <1>3, <3>1 DEF Wakes, QueueInv
  <2>4. \/ at["watcher"] = "new" /\ queue' = <<"watcher", "signal">>
        \/ at["watcher"] = "parked" /\ queue' = <<"signal">>
    BY <1>3, <2>3, QueueFacts DEF Wakes
  <2>5. QueueInv'
    BY <1>3, <2>3, <2>4 DEF Wakes, QueueInv
  <2> QED BY <1>1, <2>2, <2>5
<1>4. CASE PollSignal
  <2>1. /\ at["signal"] \in {"new", "parked"}
        /\ queue \in Queues /\ queue # <<>> /\ Head(queue) = "signal"
        /\ at \in [Tasks -> {"unborn", "new", "parked", "ended"}]
    BY <1>4 DEF PollSignal, Polled, TypeOK
  <2>2. CASE at["signal"] = "new"
    <3>1. queue' = <<"watcher">>
      BY <1>4, <2>2, QueueFacts DEF PollSignal, QueueInv
    <3>2. at' = [at EXCEPT !["signal"] = "parked"] /\ UNCHANGED notified
      BY <1>4, <2>2 DEF PollSignal
    <3>3. at'["signal"] = "parked" /\ at'["watcher"] = "new"
      BY <2>1, <2>2, <3>2 DEF QueueInv, Tasks
    <3>4. TypeOK'
      BY <1>4, <3>1, <3>2 DEF TypeOK, PollSignal, Queues
    <3>5. QueueInv'
      BY <1>4, <3>1, <3>3 DEF QueueInv, PollSignal, Polled
    <3> QED BY <1>1, <3>4, <3>5
  <2>3. CASE at["signal"] = "parked"
    <3>1. at["watcher"] = "parked" /\ queue = <<"signal">>
      BY <2>1, <2>3, QueueFacts DEF QueueInv
    <3>2. /\ queue' = <<"watcher">>
          /\ notified' = TRUE
          /\ raised' = FALSE
      BY <1>4, <2>3, <3>1, QueueFacts DEF PollSignal
    <3>3. at' = [at EXCEPT !["signal"] = "ended"]
      BY <1>4, <2>3 DEF PollSignal
    <3>4. at'["signal"] = "ended" /\ at'["watcher"] = "parked"
      BY <2>1, <3>1, <3>3 DEF Tasks
    <3>5. TypeOK'
      BY <1>4, <3>2, <3>3 DEF TypeOK, PollSignal, Queues
    <3>6. QueueInv'
      BY <1>4, <3>2, <3>4 DEF QueueInv, PollSignal, Polled
    <3> QED BY <1>1, <3>5, <3>6
  <2> QED BY <2>1, <2>2, <2>3
<1>5. CASE PollWatcher
  <2>1. /\ queue # <<>> /\ Head(queue) = "watcher"
        /\ at \in [Tasks -> {"unborn", "new", "parked", "ended"}]
    BY <1>5 DEF PollWatcher, Polled, TypeOK
  <2>2. CASE at["watcher"] = "new"
    <3>1. /\ at["signal"] = "parked"
          /\ queue \in {<<"watcher">>, <<"watcher", "signal">>}
      BY <2>1, <2>2, QueueFacts DEF QueueInv, TypeOK, Tasks
    <3>2. queue' \in {<<>>, <<"signal">>}
      BY <1>5, <3>1, QueueFacts DEF PollWatcher
    <3>3. at' = [at EXCEPT !["watcher"] = "parked"]
      BY <1>5, <2>2 DEF PollWatcher
    <3>4. at'["signal"] = "parked" /\ at'["watcher"] = "parked"
      BY <2>1, <3>1, <3>3 DEF Tasks
    <3>5. TypeOK'
      BY <1>5, <3>2, <3>3 DEF TypeOK, PollWatcher, Queues
    <3>6. QueueInv'
      BY <1>5, <3>2, <3>4 DEF QueueInv, PollWatcher, Polled
    <3> QED BY <1>1, <3>5, <3>6
  <2>3. CASE at["watcher"] # "new"
    <3>1. at["signal"] = "ended" /\ queue = <<"watcher">> /\ notified
      BY <2>1, <2>3, QueueFacts DEF QueueInv, TypeOK, Tasks
    <3>2. queue' = <<>>
      BY <1>5, <3>1, QueueFacts DEF PollWatcher
    <3>3. at' = [at EXCEPT !["watcher"] = "ended"]
      BY <1>5, <2>3 DEF PollWatcher
    <3>4. at'["signal"] = "ended" /\ at'["watcher"] = "ended"
      BY <2>1, <3>1, <3>3 DEF Tasks
    <3>5. TypeOK'
      BY <1>5, <3>2, <3>3 DEF TypeOK, PollWatcher, Queues
    <3>6. QueueInv'
      BY <1>5, <3>1, <3>2, <3>4 DEF QueueInv, PollWatcher, Polled
    <3> QED BY <1>1, <3>5, <3>6
  <2> QED BY <2>2, <2>3
<1> QED BY <1>2, <1>3, <1>4, <1>5

LEMMA InvStep == IInv /\ [Next]_vars => IInv'
<1> SUFFICES ASSUME IInv, [Next]_vars PROVE IInv'
  OBVIOUS
<1>1. ASSUME NEW c \in Conns,
             Accept(c) \/ Request(c) \/ Respond(c) \/ Upgrade(c) \/ Close(c)
      PROVE  IInv'
  BY <1>1, ConnStep DEF Accept, Request, Respond, Upgrade, Close
<1> QED BY <1>1, MainStep, TaskStep DEF Next

\* Every variable keeps its type.
THEOREM TypeCorrect == Spec => []TypeOK
<1>1. IInv => TypeOK
  BY DEF IInv
<1> QED BY <1>1, InvInit, InvStep, PTL DEF Spec

\* The order of the run queue is enough for no notification to be lost.
THEOREM NoNotifyIsLost == Spec => []NotifyHeard
<1>1. IInv => NotifyHeard
  BY DEF IInv, QueueInv, NotifyHeard
<1> QED BY <1>1, InvInit, InvStep, PTL DEF Spec

\* Requests are served with the sampler running, and drained before it stops.
THEOREM RequestsAreServed == Spec => []RequestsServed
<1>1. IInv => RequestsServed
  BY DEF IInv, TypeOK, ServeInv, RequestsServed
<1> QED BY <1>1, InvInit, InvStep, PTL DEF Spec

-----------------------------------------------------------------------------
(* Progress.  The prover does not see when an action is enabled, so each     *)
(* fairness assumption of LiveSpec is stated with the action's guard.        *)

\* Weak fairness of an action that its guard enables: the guard does not hold
\* for good without a step of the action.
WeakFair(guard, A) == []<>~guard \/ []<><<A>>_vars

\* The driver and the run queue are served while main polls serve.
Serving == life = "running" /\ main \in {"accepting", "draining"}
DriverRuns == WeakFair(/\ Serving /\ raised /\ at["signal"] = "parked"
                       /\ queue \in {<<>>, <<"watcher">>},
                       Wakes)
SignalTaskRuns == WeakFair(Polled("signal") /\ at["signal"] = "parked",
                           PollSignal)
WatcherRuns == WeakFair(Polled("watcher"), PollWatcher)
QueueRuns == DriverRuns /\ SignalTaskRuns /\ WatcherRuns

\* Main goes on when the watcher has ended, when serve may return, and after.
AcceptEnds == WeakFair(/\ life = "running" /\ main = "accepting"
                       /\ at["watcher"] = "ended",
                       DrainBegins)
DrainDone == main = "draining" /\ \A c \in Conns : ~Open(c)
MainRuns == /\ AcceptEnds
            /\ WeakFair(life = "running" /\ DrainDone, ServeReturns)
            /\ WeakFair(life = "running" /\ main = "returned", Exits)

\* Where a signal that reached the handler stands until serve stops accepting.
Accepting == life = "running" /\ main = "accepting"
Caught == /\ Accepting /\ raised /\ at["signal"] = "parked"
          /\ queue \in {<<>>, <<"watcher">>}
Behind == /\ Accepting /\ at["signal"] = "parked"
          /\ queue = <<"watcher", "signal">>
Ready == Accepting /\ at["signal"] = "parked" /\ queue = <<"signal">>
Notified == Accepting /\ at["watcher"] = "parked" /\ queue = <<"watcher">>
Woken == Accepting /\ at["watcher"] = "ended"
Ending == life # "running" \/ main \in {"draining", "returned"}

\* raised means the task waits for the signal, or has had one before.
RaisedInv == raised => Handled /\ main # "boot"

LEMMA RaisedInit == Init => RaisedInv
BY DEF Init, RaisedInv

LEMMA RaisedStep == IInv /\ RaisedInv /\ [Next]_vars => RaisedInv'
<1> SUFFICES ASSUME IInv, RaisedInv, [Next]_vars PROVE RaisedInv'
  OBVIOUS
<1> USE DEF RaisedInv, Handled
<1>1. at \in [Tasks -> {"unborn", "new", "parked", "ended"}]
  BY DEF IInv, TypeOK
<1>2. CASE Serves
  BY <1>2 DEF Serves, IInv, QueueInv
<1>3. CASE Signal
  BY <1>3 DEF Signal, IInv, QueueInv
<1>4. CASE PollSignal
  BY <1>1, <1>4 DEF PollSignal, Polled, Tasks
<1>5. CASE PollWatcher
  BY <1>1, <1>5 DEF PollWatcher, Tasks
<1>6. ASSUME NEW c \in Conns,
             Accept(c) \/ Request(c) \/ Respond(c) \/ Upgrade(c) \/ Close(c)
      PROVE  RaisedInv'
  BY <1>6 DEF Accept, Request, Respond, Upgrade, Close, Moves, shutdownVars
<1> QED BY <1>2, <1>3, <1>4, <1>5, <1>6
        DEF Next, BootFails, BindFails, DrainBegins, ServeReturns, Exits,
            Wakes, Halted, vars, shutdownVars

LEMMA Invariance == Spec => [](IInv /\ RaisedInv)
BY InvInit, InvStep, RaisedInit, RaisedStep, PTL DEF Spec

\* A step of main, of a signal or of a connection leaves the queue alone.
LEMMA QueueFrame ==
  ASSUME [Next]_vars
  PROVE  \/ Serves \/ Wakes \/ PollSignal \/ PollWatcher
         \/ /\ UNCHANGED <<at, queue>> /\ (raised => raised')
            /\ Accepting => Accepting' \/ Ending'
<1>1. ASSUME NEW c \in Conns,
             Accept(c) \/ Request(c) \/ Respond(c) \/ Upgrade(c) \/ Close(c)
      PROVE  UNCHANGED <<at, queue, raised, life, main>>
  BY <1>1 DEF Accept, Request, Respond, Upgrade, Close, Moves, shutdownVars
<1>2. CASE BootFails \/ BindFails \/ DrainBegins \/ ServeReturns \/ Exits
             \/ Signal \/ Halted \/ UNCHANGED vars
  BY <1>2 DEF BootFails, BindFails, DrainBegins, ServeReturns, Exits, Signal,
              Halted, vars, shutdownVars, Accepting, Ending
<1> QED BY <1>1, <1>2 DEF Next, Accepting

\* Which queues the proofs tell apart.
LEMMA QueuesDiffer ==
  /\ <<>> # <<"watcher">> /\ <<>> # <<"signal">>
  /\ <<"watcher">> # <<"signal">>
  /\ <<"watcher", "signal">> \notin {<<>>, <<"watcher">>, <<"signal">>}
OBVIOUS

\* From its arrival to the end of the accepting a signal goes from stage to
\* stage, through the signal task and the watcher, and never back.
LEMMA SignalStep ==
  ASSUME IInv, [Next]_vars
  PROVE  /\ Caught => Caught' \/ Behind' \/ Ready' \/ Ending'
         /\ Behind => Behind' \/ Ready' \/ Ending'
         /\ Ready => Ready' \/ Notified' \/ Ending'
         /\ Notified => Notified' \/ Woken' \/ Ending'
         /\ Woken => Woken' \/ Ending'
<1> USE DEF Caught, Behind, Ready, Notified, Woken
<1>0. at \in [Tasks -> {"unborn", "new", "parked", "ended"}]
  BY DEF IInv, TypeOK
<1>1. CASE UNCHANGED <<at, queue>> /\ (raised => raised')
             /\ (Accepting => Accepting' \/ Ending')
  BY <1>1
<1>2. CASE Serves
  BY <1>2 DEF Serves, Accepting
<1>3. CASE Wakes
  <2>1. Caught => Behind' \/ Ready'
    BY <1>3, QueueFacts DEF Wakes, Accepting
  <2>2. ~Behind /\ ~Ready
    BY <1>3, QueuesDiffer DEF Wakes
  <2>3. ~Notified
    BY <1>3, QueuesDiffer DEF Wakes, IInv, QueueInv
  <2>4. Woken => Woken'
    BY <1>3 DEF Wakes, Accepting
  <2> QED BY <2>1, <2>2, <2>3, <2>4
<1>4. CASE PollSignal
  <2>1. ~Caught /\ ~Behind /\ ~Notified
    BY <1>4, QueueFacts DEF PollSignal, Polled
  <2>2. Ready => Notified'
    <3> SUFFICES ASSUME Ready PROVE Notified'
      OBVIOUS
    <3>1. at["watcher"] = "parked"
      BY QueuesDiffer DEF IInv, QueueInv
    <3>2. queue' = <<"watcher">>
      BY <1>4, <3>1, QueueFacts DEF PollSignal
    <3>3. at'["watcher"] = "parked"
      BY <1>0, <1>4, <3>1 DEF PollSignal, Tasks
    <3> QED BY <1>4, <3>2, <3>3 DEF PollSignal, Accepting
  <2>3. Woken => Woken'
    BY <1>0, <1>4 DEF PollSignal, Accepting, Tasks
  <2> QED BY <2>1, <2>2, <2>3
<1>5. CASE PollWatcher
  <2>1. Caught => Caught'
    BY <1>0, <1>5, QueueFacts DEF PollWatcher, Polled, Accepting, Tasks
  <2>2. Behind => Ready'
    BY <1>0, <1>5, QueueFacts DEF PollWatcher, Accepting, Tasks
  <2>3. ~Ready
    BY <1>5, QueueFacts DEF PollWatcher, Polled
  <2>4. Notified => Woken'
    BY <1>0, <1>5 DEF PollWatcher, Accepting, Tasks
  <2>5. Woken => Woken'
    BY <1>0, <1>5 DEF PollWatcher, Accepting, Tasks
  <2> QED BY <2>1, <2>2, <2>3, <2>4, <2>5
<1> QED BY <1>1, <1>2, <1>3, <1>4, <1>5, QueueFrame

\* It is in one of them, and there its stage's action has its guard.
LEMMA SignalStages ==
  ASSUME IInv, RaisedInv
  PROVE  /\ raised => Caught \/ Behind \/ Ready \/ Notified \/ Woken \/ Ending
         /\ Caught => /\ Serving /\ raised /\ at["signal"] = "parked"
                      /\ queue \in {<<>>, <<"watcher">>}
         /\ Behind \/ Notified => Polled("watcher")
         /\ Ready => Polled("signal") /\ at["signal"] = "parked"
         /\ Woken => /\ life = "running" /\ main = "accepting"
                     /\ at["watcher"] = "ended"
<1> USE DEF Caught, Behind, Ready, Notified, Woken, Accepting
<1>1. raised => Caught \/ Behind \/ Ready \/ Notified \/ Woken \/ Ending
  BY DEF IInv, TypeOK, QueueInv, RaisedInv, Handled, Ending
<1>2. Behind \/ Notified => Polled("watcher")
  BY QueueFacts DEF Polled
<1>3. Ready => Polled("signal")
  BY QueueFacts DEF Polled
<1> QED BY <1>1, <1>2, <1>3 DEF Serving

\* A signal that reached the handler stops the accepting: nothing between the
\* driver and the accept loop loses it, whatever connections do meanwhile.
THEOREM SignalBeginsDrain ==
  Spec /\ QueueRuns /\ AcceptEnds => (raised ~> Ending)
<1>1. IInv /\ RaisedInv /\ [Next]_vars =>
        /\ Caught => (Caught \/ Behind \/ Ready \/ Ending)'
        /\ Behind => (Behind \/ Ready \/ Ending)'
        /\ Ready => (Ready \/ Notified \/ Ending)'
        /\ Notified => (Notified \/ Woken \/ Ending)'
        /\ Woken => (Woken \/ Ending)'
  BY SignalStep
<1>2. IInv /\ Caught /\ <<Wakes>>_vars => ~Caught'
  BY QueueFacts, QueuesDiffer DEF Caught, Wakes
<1>3. IInv /\ <<PollSignal>>_vars => ~Ready'
  BY DEF PollSignal, Ready, IInv, TypeOK, Tasks, Polled, QueueInv
<1>4. IInv /\ <<PollWatcher>>_vars => /\ Behind => ~Behind'
                                      /\ Notified => ~Notified'
  BY QueueFacts, QueuesDiffer DEF PollWatcher, Behind, Notified
<1>5. <<DrainBegins>>_vars => Ending'
  BY DEF DrainBegins, Ending
<1> QED BY <1>1, <1>2, <1>3, <1>4, <1>5, SignalStages, Invariance, PTL
        DEF Spec, QueueRuns, DriverRuns, SignalTaskRuns, WatcherRuns,
            AcceptEnds, WeakFair

-----------------------------------------------------------------------------
(* The drain, and the exit *)

\* A request is answered, and a drained connection that is idle closes.
Answers(c) == WeakFair(Serving /\ conn[c] = "busy", Respond(c) \/ Upgrade(c))
ClosesIdle(c) ==
  WeakFair(Serving /\ conn[c] = "idle" /\ at["watcher"] = "ended",
           conn[c] = "idle" /\ at["watcher"] = "ended" /\ Close(c))

\* Where a connection stands in the drain.
Draining == life = "running" /\ main = "draining"
Idle(c) == Draining /\ conn[c] = "idle"
Busy(c) == Draining /\ conn[c] = "busy"
Drained(c) == main \in {"draining", "returned"} /\ ~Open(c)

\* The drain has begun because the watcher has ended.
DrainInv == main = "draining" => at["watcher"] = "ended"

LEMMA DrainStep == IInv /\ DrainInv /\ [Next]_vars => DrainInv'
<1> SUFFICES ASSUME IInv, DrainInv, [Next]_vars PROVE DrainInv'
  OBVIOUS
<1>1. CASE Serves
  BY <1>1 DEF Serves, DrainInv
<1>2. CASE PollSignal
  BY <1>2 DEF PollSignal, DrainInv, IInv, TypeOK, Tasks
<1>3. CASE PollWatcher
  BY <1>3, QueueFacts
     DEF PollWatcher, Polled, DrainInv, IInv, TypeOK, QueueInv, Tasks
<1>4. ASSUME NEW c \in Conns,
             Accept(c) \/ Request(c) \/ Respond(c) \/ Upgrade(c) \/ Close(c)
      PROVE  DrainInv'
  BY <1>4 DEF Accept, Request, Respond, Upgrade, Close, Moves, shutdownVars,
              DrainInv
<1> QED BY <1>1, <1>2, <1>3, <1>4
        DEF DrainInv, Next, BootFails, BindFails, DrainBegins, ServeReturns,
            Exits, Signal, Wakes, Halted, vars, shutdownVars

\* In the drain a connection is answered or closes, and none is opened.
LEMMA ConnDrains ==
  ASSUME NEW c \in Conns, IInv, DrainInv, [Next]_vars
  PROVE  /\ Idle(c)
              => Idle(c)' \/ Busy(c)' \/ Drained(c)' \/ (life # "running")'
         /\ Busy(c) => Busy(c)' \/ Drained(c)' \/ (life # "running")'
         /\ Drained(c) => Drained(c)'
         /\ life # "running" => (life # "running")'
<1> USE DEF Idle, Busy, Drained, Draining, Open
<1>0. conn \in [Conns -> {"closed", "idle", "busy", "upgraded"}]
  BY DEF IInv, TypeOK
<1>1. ASSUME NEW d \in Conns,
             Accept(d) \/ Request(d) \/ Respond(d) \/ Upgrade(d) \/ Close(d)
      PROVE  /\ UNCHANGED <<life, main>>
             /\ main = "draining" =>
                  \/ conn'[c] = conn[c]
                  \/ conn[c] = "idle" /\ conn'[c] \in {"busy", "closed"}
                  \/ conn[c] = "busy" /\ conn'[c] \in {"closed", "upgraded"}
                  \/ conn[c] = "upgraded" /\ conn'[c] = "closed"
             /\ main = "returned" => FALSE
  BY <1>0, <1>1 DEF Accept, Request, Respond, Upgrade, Close, Moves, DrainInv
<1>2. CASE Exits
  BY <1>0, <1>2 DEF Exits
<1>3. CASE UNCHANGED conn
  BY <1>3 DEF Next, BootFails, Serves, BindFails, DrainBegins, ServeReturns,
              Exits, Signal, Wakes, PollSignal, PollWatcher, Polled, Halted,
              vars, Accept, Request, Respond, Upgrade, Close, Moves
<1> QED BY <1>1, <1>2, <1>3
        DEF Next, BootFails, Serves, BindFails, DrainBegins, ServeReturns,
            Signal, Wakes, PollSignal, PollWatcher, Halted, vars

LEMMA DrainInvariance == Spec => [](IInv /\ DrainInv)
<1>1. Init => DrainInv
  BY DEF Init, DrainInv
<1> QED BY <1>1, InvInit, InvStep, DrainStep, PTL DEF Spec

\* Once the drain has begun each connection leaves it, and stays out: kept
\* alive, in the middle of a request, or accepted at the last moment.
THEOREM ConnectionDrains ==
  ASSUME NEW c \in Conns
  PROVE  Spec /\ Answers(c) /\ ClosesIdle(c)
           => (Draining ~> ([]Drained(c) \/ life # "running"))
<1>1. IInv /\ DrainInv /\ [Next]_vars =>
        /\ Idle(c) => (Idle(c) \/ Busy(c) \/ Drained(c) \/ life # "running")'
        /\ Busy(c) => (Busy(c) \/ Drained(c) \/ life # "running")'
        /\ Drained(c) => Drained(c)'
        /\ life # "running" => (life # "running")'
  BY ConnDrains
<1>2. IInv /\ DrainInv =>
        /\ Draining => Idle(c) \/ Busy(c) \/ Drained(c)
        /\ Idle(c) => /\ Serving /\ conn[c] = "idle"
                      /\ at["watcher"] = "ended"
        /\ Busy(c) => Serving /\ conn[c] = "busy"
  BY DEF Draining, Idle, Busy, Drained, Open, Serving, DrainInv
<1>3. IInv /\ <<Respond(c) \/ Upgrade(c)>>_vars => ~Busy(c)'
  BY DEF Respond, Upgrade, Moves, Busy, IInv, TypeOK
<1>4. IInv /\ <<conn[c] = "idle" /\ at["watcher"] = "ended" /\ Close(c)>>_vars
        => ~Idle(c)'
  BY DEF Close, Moves, Idle, IInv, TypeOK
<1>5. life # "running" <=> ~(life = "running")
  OBVIOUS
<1> QED BY <1>1, <1>2, <1>3, <1>4, <1>5, DrainInvariance, PTL
        DEF Spec, Answers, ClosesIdle, WeakFair

\* No connection holds the drain for good: what ConnectionDrains gives of each,
\* said of them all, which are finitely many.
DrainEnds == []<>~(Draining /\ \E c \in Conns : Open(c))

\* Emptied, a drain stays empty.
LEMMA ExitStep ==
  ASSUME IInv, DrainInv, [Next]_vars
  PROVE  /\ life = "running" /\ DrainDone
              => DrainDone' \/ (main = "returned")' \/ (life # "running")'
         /\ main = "returned" => (main = "returned")'
         /\ Draining
              => Draining' \/ (main = "returned")' \/ (life # "running")'
<1>1. \A c \in Conns : Drained(c) => Drained(c)'
  BY ConnDrains
<1>2. main \in {"draining", "returned"} => main' \in {"draining", "returned"}
  BY DEF Next, BootFails, Serves, BindFails, DrainBegins, ServeReturns,
         Exits, Signal, Wakes, PollSignal, PollWatcher, Halted, vars,
         Accept, Request, Respond, Upgrade, Close, Moves
<1>3. main = "returned" => main' = "returned"
  BY DEF Next, BootFails, Serves, BindFails, DrainBegins, ServeReturns,
         Exits, Signal, Wakes, PollSignal, PollWatcher, Polled, Halted, vars,
         Accept, Request, Respond, Upgrade, Close, Moves
<1> QED BY <1>1, <1>2, <1>3 DEF DrainDone, Drained, Draining, IInv, TypeOK

\* SignalEndsProcess: the signal begins the drain, the drain ends, serve
\* returns and the process exits.
THEOREM SignalsEndProcess ==
  Spec /\ QueueRuns /\ MainRuns /\ DrainEnds => SignalEndsProcess
<1>1. IInv /\ DrainInv /\ [Next]_vars =>
        /\ life = "running" /\ DrainDone
             => (DrainDone \/ main = "returned" \/ life # "running")'
        /\ main = "returned" => (main = "returned")'
        /\ Draining => (Draining \/ main = "returned" \/ life # "running")'
  BY ExitStep
<1>2. /\ <<ServeReturns>>_vars => (main = "returned")'
      /\ <<Exits>>_vars => (life # "running")'
  BY DEF ServeReturns, Exits
<1>3. /\ Ending => \/ Draining \/ life # "running"
                   \/ life = "running" /\ main = "returned"
      /\ DrainDone => ~(main = "returned")
      /\ Draining /\ ~(\E c \in Conns : Open(c)) => DrainDone
      /\ Draining => life = "running"
      /\ life # "running" <=> ~(life = "running")
  BY DEF Ending, Draining, DrainDone
<1> QED BY <1>1, <1>2, <1>3, SignalBeginsDrain, DrainInvariance, PTL
        DEF Spec, MainRuns, WeakFair, DrainEnds, SignalEndsProcess
=============================================================================
