-------------------------------- MODULE Probes --------------------------------
(***************************************************************************)
(* src/server/probes.rs: GET /probes, which reads the settings anew, asks  *)
(* every target at once with HEAD, asks with GET those that deny HEAD, and *)
(* answers when all have settled; and the boot that reads the settings     *)
(* before it.  Calls of several clients share nothing but the read, which  *)
(* no await interrupts, so one call at a time is modelled.                 *)
(*                                                                         *)
(* Time advances in ticks, and a timer that is due fires before the next   *)
(* one.                                                                    *)
(***************************************************************************)
EXTENDS Settings

CONSTANTS
  Targets,      \* the probes any settings list
  ProbesOf,     \* per configuration, the targets it lists
  TimeoutOf,    \* per configuration, its probe_timeout in ticks; any integer
  MinTimeout,   \* the 0.1 seconds of probes::run, in ticks
  MaxDuration   \* the longest Duration; from_secs_f64 panics beyond it

ASSUME ConfigAssumption == /\ ProbesOf \in [Configs -> SUBSET Targets]
                           /\ TimeoutOf \in [Configs -> Int]
                           /\ MinTimeout \in Nat \ {0}
                           /\ MaxDuration \in Nat

VARIABLES
  life,    \* the process: down, booting, up
  call,    \* GET /probes: none, reading the settings, probing
  phase,   \* per target: idle, its HEAD or its GET in flight, done
  spent,   \* per target, ticks since the request in flight was sent
  age      \* ticks since the call dispatched its probes

probeVars == <<phase, spent, age>>
vars == <<settingsVars, life, call, probeVars>>

\* Mutant: the timeout is taken as it is.
LimitUnclamped(settings) == TimeoutOf[settings]

Limit(settings) == IF TimeoutOf[settings] > MinTimeout THEN TimeoutOf[settings]
                                                      ELSE MinTimeout

InFlight == {t \in Targets : phase[t] \in {"head", "get"}}

NoPhase == [t \in Targets |-> "idle"]
NotSpent == [t \in Targets |-> 0]

Init == /\ SettingsInit
        /\ life = "down" /\ call = "none"
        /\ phase = NoPhase /\ spent = NotSpent /\ age = 0

-----------------------------------------------------------------------------
(* The process *)

Boot == /\ life = "down"
        /\ life' = "booting"
        /\ BeginRead
        /\ UNCHANGED <<call, probeVars>>

\* serve builds a client of its own from the timeout as it is, and panics on
\* one that is negative or too long for a Duration.
Booted == /\ life = "booting"
          /\ Goes("returned", "idle")
          /\ life' = IF TimeoutOf[cfg] \in 0..MaxDuration THEN "up" ELSE "down"
          /\ UNCHANGED <<file, legacy, cfg, orphan, saving, touched, call,
                         probeVars>>

Request == /\ life = "up"
           /\ call = "none"
           /\ call' = "reading"
           /\ BeginRead
           /\ UNCHANGED <<life, probeVars>>

\* The settings are read and every HEAD is sent; or the client cannot be
\* built, which answers for every target.
Dispatch == /\ call = "reading"
            /\ Goes("returned", "idle")
            /\ Limit(cfg) <= MaxDuration
            /\ \/ /\ call' = "probing"
                  /\ phase' = [t \in Targets |-> IF t \in ProbesOf[cfg]
                                                 THEN "head" ELSE "done"]
                  /\ UNCHANGED <<spent, age>>
               \/ /\ call' = "none"
                  /\ UNCHANGED probeVars
            /\ UNCHANGED <<file, legacy, cfg, orphan, saving, touched, life>>

\* A panic in the handler loses the connection, or the process in a build
\* that aborts.
DispatchPanics == /\ call = "reading"
                  /\ Goes("returned", "idle")
                  /\ Limit(cfg) > MaxDuration
                  /\ call' = "none"
                  /\ life' \in {"up", "down"}
                  /\ UNCHANGED <<file, legacy, cfg, orphan, saving, touched,
                                 probeVars>>

CallEnds == /\ call' = "none"
            /\ phase' = NoPhase
            /\ spent' = NotSpent
            /\ age' = 0

\* Every probe has settled.
Answer == /\ call = "probing"
          /\ InFlight = {}
          /\ CallEnds
          /\ UNCHANGED <<settingsVars, life>>

\* The client is gone: the call and its requests are dropped.
HangUp == /\ call = "probing"
          /\ InFlight # {}
          /\ CallEnds
          /\ UNCHANGED <<settingsVars, life>>

\* The process is killed, in the middle of a read or of a call.
Kill == /\ life # "down"
        /\ life' = "down"
        /\ at' = "idle"
        /\ CallEnds
        /\ UNCHANGED <<file, legacy, cfg, orphan, saving, touched>>

-----------------------------------------------------------------------------
(* One probe *)

Settle(t) == /\ phase' = [phase EXCEPT ![t] = "done"]
             /\ spent' = [spent EXCEPT ![t] = 0]
             /\ UNCHANGED <<settingsVars, life, call, age>>

\* Mutant: a 405 is retried with GET whichever method was denied.
DeniedAgain(t) == /\ t \in InFlight
                  /\ phase' = [phase EXCEPT ![t] = "get"]
                  /\ spent' = [spent EXCEPT ![t] = 0]
                  /\ UNCHANGED <<settingsVars, life, call, age>>

\* HEAD is answered 405: a GET is sent, with a timeout of its own.
Denied(t) == /\ phase[t] = "head"
             /\ phase' = [phase EXCEPT ![t] = "get"]
             /\ spent' = [spent EXCEPT ![t] = 0]
             /\ UNCHANGED <<settingsVars, life, call, age>>

\* Any other answer, any answer to the GET, or an error of the transport.
Settled(t) == t \in InFlight /\ Settle(t)

\* Mutant: the GET is sent without the timeout.
TimesOutHead(t) == /\ phase[t] = "head"
                   /\ spent[t] = Limit(cfg)
                   /\ Settle(t)

TimesOut(t) == /\ t \in InFlight
               /\ spent[t] = Limit(cfg)
               /\ Settle(t)

Tick == /\ InFlight # {}
        /\ \A t \in InFlight : spent[t] < Limit(cfg)
        /\ spent' = [t \in Targets |-> IF t \in InFlight THEN spent[t] + 1
                                                         ELSE spent[t]]
        /\ age' = age + 1
        /\ UNCHANGED <<settingsVars, life, call, phase>>

-----------------------------------------------------------------------------
Reading == ReadStep /\ UNCHANGED <<life, call, probeVars>>
Operating == Operator /\ UNCHANGED <<life, call, probeVars>>

Next == \/ Boot \/ Booted \/ Request \/ Dispatch \/ DispatchPanics
        \/ Answer \/ HangUp \/ Kill
        \/ Reading \/ Operating \/ Tick
        \/ \E t \in Targets : Denied(t) \/ Settled(t) \/ TimesOut(t)

Spec == Init /\ [][Next]_vars

\* The file system returns from each call, time passes and timers fire; no
\* target owes an answer.
Fairness == /\ WF_vars(Reading)
            /\ WF_vars(Dispatch \/ DispatchPanics)
            /\ WF_vars(Tick)
            /\ \A t \in Targets : WF_vars(TimesOut(t))
            /\ WF_vars(Answer)

LiveSpec == Spec /\ Fairness

-----------------------------------------------------------------------------
(* Properties *)

\* Every variable has its type; no request outlives its timeout, and only a
\* call that probes has requests in flight.
TypeOK == /\ SettingsTypeOK
          /\ life \in {"down", "booting", "up"}
          /\ call \in {"none", "reading", "probing"}
          /\ phase \in [Targets -> {"idle", "head", "get", "done"}]
          /\ spent \in [Targets -> Nat] /\ age \in Nat
          /\ \A t \in InFlight : call = "probing" /\ spent[t] <= Limit(cfg)

\* However many targets are listed and however they behave, a call has its
\* answer within two timeouts: a HEAD that is denied late and a GET that is
\* never answered.
CallBounded == call = "probing" => age <= 2 * Limit(cfg)

\* A call returns, with targets that never answer and a file under edit: no
\* call holds the drain of a shutdown for ever.
CallReturns == call # "none" ~> call = "none"
=============================================================================
