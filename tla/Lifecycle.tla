------------------------------ MODULE Lifecycle ------------------------------
(***************************************************************************)
(* src/main.rs and serve of src/server/mod.rs: the boot, the signal task,  *)
(* the shutdown Notify, the graceful drain of the server and the order the *)
(* parts stop in.                                                          *)
(*                                                                         *)
(* The runtime has one thread and a first-in-first-out run queue.  Of the  *)
(* tasks in it two touch the shutdown: "signal" waits for a signal and     *)
(* notifies; "watcher" is the future axum spawns, waiting on the Notify to *)
(* begin the drain.  A Notify keeps no permit: notify_waiters wakes those  *)
(* who wait, and nobody else.  Main itself is polled outside the queue.    *)
(***************************************************************************)
EXTENDS Naturals, Sequences

CONSTANTS
  Conns,       \* connections the listener may have open, reused
  MaxSignals   \* bound: SIGINT and SIGTERM explored

ASSUME SignalAssumption == MaxSignals \in Nat

VARIABLES
  life,      \* the process: running, exited by itself, killed by the kernel
  main,      \* the main task: boot, accepting, draining, returned
  at,        \* signal and watcher: unborn, new (unpolled), parked, ended
  queue,     \* the run queue, those two tasks only
  raised,    \* a signal reached the handler and was not received yet
  notified,  \* notify_waiters woke the watcher
  signals,   \* signals sent so far
  sampler,   \* the sampler and the hub client: off, running, stopped
  conn       \* per connection: closed, idle, busy with a request, upgraded

shutdownVars == <<at, queue, raised, notified>>
vars == <<life, main, shutdownVars, signals, sampler, conn>>

Init == /\ life = "running"
        /\ main = "boot"
        /\ at = [signal |-> "unborn", watcher |-> "unborn"]
        /\ queue = <<>>
        /\ raised = FALSE
        /\ notified = FALSE
        /\ signals = 0
        /\ sampler = "off"
        /\ conn = [c \in Conns |-> "closed"]

-----------------------------------------------------------------------------
(* main *)

\* The log file cannot be opened or the address not resolved: main returns.
BootFails == /\ life = "running"
             /\ main = "boot"
             /\ life' = "exited"
             /\ main' = "returned"
             /\ UNCHANGED <<shutdownVars, signals, sampler, conn>>

\* Mutant: serve awaits before it spawns the watcher, and the signal task is
\* polled meanwhile.
ServesAfterAwait ==
  /\ life = "running"
  /\ \/ /\ main = "boot"
        /\ main' = "accepting"
        /\ sampler' = "running"
        /\ at' = [at EXCEPT !.signal = "new"]
        /\ queue' = <<"signal">>
     \/ /\ main = "accepting"
        /\ at["watcher"] = "unborn"
        /\ at' = [at EXCEPT !.watcher = "new"]
        /\ queue' = Append(queue, "watcher")
        /\ UNCHANGED <<main, sampler>>
  /\ UNCHANGED <<life, raised, notified, signals, conn>>

\* From the start of main to the accept loop of serve nothing awaits: the
\* sampler is seeded, and the two tasks are in the queue, before any of the
\* tasks is polled.
Serves == /\ life = "running"
          /\ main = "boot"
          /\ main' = "accepting"
          /\ sampler' = "running"
          /\ at' = [signal |-> "new", watcher |-> "new"]
          /\ queue' = <<"signal", "watcher">>
          /\ UNCHANGED <<life, raised, notified, signals, conn>>

\* The port is taken: serve returns an error, and main stops what it started.
BindFails == /\ life = "running"
             /\ main = "boot"
             /\ main' = "returned"
             /\ sampler' = "stopped"
             /\ UNCHANGED <<life, shutdownVars, signals, conn>>

Open(c) == conn[c] \in {"idle", "busy"}

\* The accept loop learns that the watcher has ended.
DrainBegins == /\ life = "running"
               /\ main = "accepting"
               /\ at["watcher"] = "ended"
               /\ main' = "draining"
               /\ UNCHANGED <<life, shutdownVars, signals, sampler, conn>>

\* Mutant: serve returns when it stops accepting.
ServeReturnsAtOnce == /\ life = "running"
                      /\ main = "draining"
                      /\ main' = "returned"
                      /\ sampler' = "stopped"
                      /\ UNCHANGED <<life, shutdownVars, signals, conn>>

\* The last connection is closed, upgraded ones aside: serve returns, and
\* main stops the hub client and the sampler without an await between.
ServeReturns == /\ life = "running"
                /\ main = "draining"
                /\ \A c \in Conns : ~Open(c)
                /\ main' = "returned"
                /\ sampler' = "stopped"
                /\ UNCHANGED <<life, shutdownVars, signals, conn>>

\* The runtime is dropped and every task that is left with it, the sessions
\* of upgraded connections included.
Exits == /\ life = "running"
         /\ main = "returned"
         /\ life' = "exited"
         /\ conn' = [c \in Conns |-> "closed"]
         /\ UNCHANGED <<main, shutdownVars, signals, sampler>>

-----------------------------------------------------------------------------
(* Signals *)

\* Polled once, the signal task has replaced the default action of SIGINT and
\* SIGTERM; tokio never restores it.
Handled == at["signal"] \in {"parked", "ended"}

\* Somebody sends SIGINT or SIGTERM.
Signal == /\ life = "running"
          /\ signals < MaxSignals
          /\ signals' = signals + 1
          /\ \/ Handled /\ raised' = TRUE /\ UNCHANGED life
             \/ ~Handled /\ life' = "killed" /\ UNCHANGED raised
          /\ UNCHANGED <<main, at, queue, notified, sampler, conn>>

\* Mutant: a second signal queues the task a second time.
WakesAgain == /\ life = "running"
              /\ main \in {"accepting", "draining"}
              /\ raised
              /\ at["signal"] = "parked"
              /\ Len(queue) < 2
              /\ queue' = Append(queue, "signal")
              /\ UNCHANGED <<life, main, at, raised, notified, signals, sampler,
                             conn>>

\* The driver wakes the task that waits for the signal.
Wakes == /\ life = "running"
         /\ main \in {"accepting", "draining"}
         /\ raised
         /\ at["signal"] = "parked"
         /\ queue \in {<<>>, <<"watcher">>}
         /\ queue' = Append(queue, "signal")
         /\ UNCHANGED <<life, main, at, raised, notified, signals, sampler,
                        conn>>

Polled(t) == /\ life = "running"
             /\ main \in {"accepting", "draining"}
             /\ queue # <<>>
             /\ Head(queue) = t

\* The first poll installs the handlers and waits; the next one follows a
\* signal, notifies whoever waits, and ends the task.
PollSignal ==
  /\ Polled("signal")
  /\ \/ /\ at["signal"] = "new"
        /\ at' = [at EXCEPT !.signal = "parked"]
        /\ queue' = Tail(queue)
        /\ UNCHANGED <<raised, notified>>
     \/ /\ at["signal"] = "parked"
        /\ at' = [at EXCEPT !.signal = "ended"]
        /\ raised' = FALSE
        /\ IF at["watcher"] = "parked"
             THEN notified' = TRUE /\ queue' = Append(Tail(queue), "watcher")
             ELSE UNCHANGED notified /\ queue' = Tail(queue)
  /\ UNCHANGED <<life, main, signals, sampler, conn>>

\* The first poll waits on the Notify; woken, the watcher ends.
PollWatcher ==
  /\ Polled("watcher")
  /\ at' = [at EXCEPT !.watcher = IF at["watcher"] = "new" THEN "parked"
                                                          ELSE "ended"]
  /\ queue' = Tail(queue)
  /\ UNCHANGED <<life, main, raised, notified, signals, sampler, conn>>

-----------------------------------------------------------------------------
(* Connections *)

\* A step of connection c from one of the states in from to the state to.
Moves(c, from, to) ==
  /\ life = "running"
  /\ main \in {"accepting", "draining"}
  /\ conn[c] \in from
  /\ conn' = [conn EXCEPT ![c] = to]
  /\ UNCHANGED <<life, main, shutdownVars, signals, sampler>>

Accept(c) == main = "accepting" /\ Moves(c, {"closed"}, "idle")

\* The client sends a request; a drained connection may still have read it.
Request(c) == Moves(c, {"idle"}, "busy")

\* The response is written; in the drain it closes the connection.
Respond(c) == Moves(c, {"busy"},
                    IF at["watcher"] = "ended" THEN "closed" ELSE "idle")

\* GET /connect: to the server the connection is done, and the session goes
\* on in a task of its own.
Upgrade(c) == Moves(c, {"busy"}, "upgraded")

\* The client closes, the session ends, or the drain closes an idle one.
Close(c) == Moves(c, {"idle", "upgraded"}, "closed")

Halted == life # "running" /\ UNCHANGED vars

Next == \/ BootFails \/ Serves \/ BindFails
        \/ DrainBegins \/ ServeReturns \/ Exits
        \/ Signal \/ Wakes \/ PollSignal \/ PollWatcher
        \/ \E c \in Conns : \/ Accept(c) \/ Request(c) \/ Respond(c)
                            \/ Upgrade(c) \/ Close(c)
        \/ Halted

Spec == Init /\ [][Next]_vars

\* The driver and the queue are served, a request is answered (probes have a
\* timeout, everything else is cached), and a drained idle connection closes.
Fairness == /\ WF_vars(Serves)
            /\ WF_vars(Wakes)
            /\ WF_vars(PollSignal)
            /\ WF_vars(PollWatcher)
            /\ WF_vars(DrainBegins)
            /\ WF_vars(ServeReturns)
            /\ WF_vars(Exits)
            /\ \A c \in Conns : /\ WF_vars(Respond(c) \/ Upgrade(c))
                                /\ WF_vars(conn[c] = "idle"
                                             /\ at["watcher"] = "ended"
                                             /\ Close(c))

LiveSpec == Spec /\ Fairness

-----------------------------------------------------------------------------
(* Properties *)

Tasks == {"signal", "watcher"}
Queues == {<<>>, <<"signal">>, <<"watcher">>,
           <<"signal", "watcher">>, <<"watcher", "signal">>}

\* Every variable has its type; no task is queued twice.
TypeOK == /\ life \in {"running", "exited", "killed"}
          /\ main \in {"boot", "accepting", "draining", "returned"}
          /\ at \in [Tasks -> {"unborn", "new", "parked", "ended"}]
          /\ queue \in Queues
          /\ raised \in BOOLEAN
          /\ notified \in BOOLEAN
          /\ signals \in 0..MaxSignals
          /\ sampler \in {"off", "running", "stopped"}
          /\ conn \in [Conns -> {"closed", "idle", "busy", "upgraded"}]

\* notify_waiters never finds nobody waiting: whenever a signal comes, the
\* watcher has been polled before the signal task is.
NotifyHeard == at["signal"] = "ended" => notified

\* A request is answered by a process whose sampler runs, and a graceful exit
\* cuts no request off: only the kernel does.
RequestsServed == (\E c \in Conns : conn[c] = "busy") /\ life # "killed"
                    => life = "running" /\ sampler = "running"

\* A signal that reached the handler ends the process.
SignalEndsProcess == raised ~> life # "running"

\* docs/how-it-flows.md:214: "If the user sends a second signal during
\* graceful shutdown, the kernel kills the process".
SecondSignalKills ==
  [][signals' > signals /\ main = "draining" => life' = "killed"]_vars
=============================================================================
