------------------------------ MODULE WsServer ------------------------------
(***************************************************************************)
(* src/server/worker.rs and src/server/ws.rs: the registry of one-time     *)
(* tokens, the handshake of GET /connect with its capacity check, and the  *)
(* session that pushes to one client.  One step is what a task does from   *)
(* one await to the next; the steps of different tasks interleave.         *)
(*                                                                         *)
(* A token is a fresh random name (never issued twice), a frame from the   *)
(* client is "data" or "close", and the peer of a connection reads, has    *)
(* stopped reading (its buffers are full) or is gone.                      *)
(***************************************************************************)
EXTENDS Integers, FiniteSets

CONSTANTS
  Tokens,              \* ids POST /worker may hand out
  Conns,               \* connections, reused when they close
  max_ws_connections,  \* the setting of that name
  MaxHandshakes        \* bound: handshakes in flight at once

ASSUME CapAssumption == max_ws_connections \in Nat
ASSUME HandshakeAssumption == MaxHandshakes \in Nat \ {0}
ASSUME FiniteAssumption == IsFiniteSet(Conns) /\ IsFiniteSet(Tokens)

VARIABLES
  registry,   \* WorkerRegistry.inner: the ids issued and not claimed
  expiry,     \* per token, the task that expires it: none, sleeping, done
  claims,     \* history: per token, how often claim returned true
  conn,       \* per connection, where it stands
  active,     \* AppState.active_ws
  peer,       \* per connection, what the client does: reading, stalled, gone
  inbox,      \* per connection, the frame recv would return, or "empty"
  due         \* per connection, whether its push timer has elapsed

tokenVars == <<registry, expiry, claims>>
clientVars == <<peer, inbox>>
vars == <<tokenVars, conn, active, clientVars, due>>

Refusals == {"bad_request", "forbidden", "unavailable"}
Running == {c \in Conns : conn[c] \in {"sending", "waiting"}}
Upgrading == {c \in Conns : conn[c] = "upgrading"}

Init == /\ registry = {}
        /\ expiry = [t \in Tokens |-> "none"]
        /\ claims = [t \in Tokens |-> 0]
        /\ conn = [c \in Conns |-> "idle"]
        /\ active = 0
        /\ peer = [c \in Conns |-> "reading"]
        /\ inbox = [c \in Conns |-> "empty"]
        /\ due = [c \in Conns |-> FALSE]

-----------------------------------------------------------------------------
(* WorkerRegistry *)

\* POST /worker: the id is pending, and a task will expire it.
Issue(t) == /\ expiry[t] = "none"
            /\ registry' = registry \cup {t}
            /\ expiry' = [expiry EXCEPT ![t] = "sleeping"]
            /\ UNCHANGED <<claims, conn, active, clientVars, due>>

\* Mutant: the task ends without removing the id.
ExpireKeeping(t) == /\ expiry[t] = "sleeping"
                    /\ expiry' = [expiry EXCEPT ![t] = "done"]
                    /\ UNCHANGED <<registry, claims, conn, active, clientVars,
                                   due>>

\* Five seconds later: a no-op for an id that was claimed.
Expire(t) == /\ expiry[t] = "sleeping"
             /\ expiry' = [expiry EXCEPT ![t] = "done"]
             /\ registry' = registry \ {t}
             /\ UNCHANGED <<claims, conn, active, clientVars, due>>

\* Mutant: claim looks the id up and leaves it to the expiry task.
ClaimedLater(ids, t) == ids

\* The registry after claim: remove, under one lock.
Claimed(ids, t) == ids \ {t}

-----------------------------------------------------------------------------
(* GET /connect *)

\* Mutant: the capacity test is off by one.
FullAbove(n) == n > max_ws_connections

Full(n) == n >= max_ws_connections

\* A request without an id.
ConnectMissing(c) == /\ conn[c] = "idle"
                     /\ conn' = [conn EXCEPT ![c] = "bad_request"]
                     /\ UNCHANGED <<tokenVars, active, clientVars, due>>

\* An id that is not pending: unknown, claimed before, or expired.
ConnectInvalid(c, t) == /\ conn[c] = "idle"
                        /\ t \notin registry
                        /\ conn' = [conn EXCEPT ![c] = "forbidden"]
                        /\ UNCHANGED <<tokenVars, active, clientVars, due>>

\* Mutant: the result of claim is ignored.
ConnectUnclaimed(c, t) ==
  /\ conn[c] = "idle"
  /\ Cardinality(Upgrading) < MaxHandshakes
  /\ registry' = Claimed(registry, t)
  /\ claims' = [claims EXCEPT ![t] = @ + 1]
  /\ conn' = [conn EXCEPT ![c] = IF Full(active) THEN "unavailable"
                                                 ELSE "upgrading"]
  /\ UNCHANGED <<expiry, active, clientVars, due>>

\* The id is claimed first; the capacity is tested after, and a refusal
\* does not give the id back.
ConnectValid(c, t) ==
  /\ conn[c] = "idle"
  /\ Cardinality(Upgrading) < MaxHandshakes
  /\ t \in registry
  /\ registry' = Claimed(registry, t)
  /\ claims' = [claims EXCEPT ![t] = @ + 1]
  /\ conn' = [conn EXCEPT ![c] = IF Full(active) THEN "unavailable"
                                                 ELSE "upgrading"]
  /\ UNCHANGED <<expiry, active, clientVars, due>>

\* The upgrade never completes: on_upgrade drops the session unrun.
UpgradeFails(c) == /\ conn[c] = "upgrading"
                   /\ conn' = [conn EXCEPT ![c] = "closing"]
                   /\ UNCHANGED <<tokenVars, active, clientVars, due>>

-----------------------------------------------------------------------------
(* run_session and push_loop *)

\* The upgrade completes: the session is counted and sends its first frame.
Upgrade(c) == /\ conn[c] = "upgrading"
              /\ active' = active + 1
              /\ conn' = [conn EXCEPT ![c] = "sending"]
              /\ UNCHANGED <<tokenVars, clientVars, due>>

\* Mutant: the early return of a failed send skips the decrement.
SessionEndsUncounted(c) == /\ conn' = [conn EXCEPT ![c] = "closing"]
                           /\ active' = IF conn[c] = "sending" THEN active
                                                               ELSE active - 1

\* Mutant: push_loop decrements as well as run_session.
SessionEndsTwice(c) == /\ conn' = [conn EXCEPT ![c] = "closing"]
                       /\ active' = active - 2

\* push_loop returned, Ok or Err: the session is uncounted, then closes.
SessionEnds(c) == /\ conn' = [conn EXCEPT ![c] = "closing"]
                  /\ active' = active - 1

\* The send completes; it may have taken the whole interval.
Sent(c) == /\ conn[c] = "sending"
           /\ peer[c] = "reading"
           /\ conn' = [conn EXCEPT ![c] = "waiting"]
           /\ \E slow \in BOOLEAN : due' = [due EXCEPT ![c] = slow]
           /\ UNCHANGED <<tokenVars, active, clientVars>>

\* Mutant: a failed send is logged and the loop goes on.
SendFailsLogged(c) == /\ conn[c] = "sending"
                      /\ peer[c] = "gone"
                      /\ conn' = [conn EXCEPT ![c] = "waiting"]
                      /\ \E slow \in BOOLEAN : due' = [due EXCEPT ![c] = slow]
                      /\ UNCHANGED <<tokenVars, active, clientVars>>

\* The connection is lost: push_loop returns the error of the send.
SendFails(c) == /\ conn[c] = "sending"
                /\ peer[c] = "gone"
                /\ SessionEnds(c)
                /\ UNCHANGED <<tokenVars, clientVars, due>>

TimerFires(c) == /\ conn[c] = "waiting"
                 /\ ~due[c]
                 /\ due' = [due EXCEPT ![c] = TRUE]
                 /\ UNCHANGED <<tokenVars, conn, active, clientVars>>

\* Mutant: the select looks at the socket first.
PollSocketFirst(c) ==
  /\ conn[c] = "waiting"
  /\ \/ /\ inbox[c] = "data"
        /\ inbox' = [inbox EXCEPT ![c] = "empty"]
        /\ UNCHANGED <<conn, active, due>>
     \/ /\ inbox[c] = "close" \/ (inbox[c] = "empty" /\ peer[c] = "gone")
        /\ SessionEnds(c)
        /\ UNCHANGED <<inbox, due>>
     \/ /\ due[c] /\ inbox[c] = "empty" /\ peer[c] # "gone"
        /\ conn' = [conn EXCEPT ![c] = "sending"]
        /\ due' = [due EXCEPT ![c] = FALSE]
        /\ UNCHANGED <<inbox, active>>
  /\ UNCHANGED <<tokenVars, peer>>

\* The biased select: a due timer ends the wait; otherwise a frame is read
\* and dropped, and a close or a lost connection ends the session.
Poll(c) ==
  /\ conn[c] = "waiting"
  /\ \/ /\ due[c]
        /\ conn' = [conn EXCEPT ![c] = "sending"]
        /\ due' = [due EXCEPT ![c] = FALSE]
        /\ UNCHANGED <<inbox, active>>
     \/ /\ ~due[c] /\ inbox[c] = "data"
        /\ inbox' = [inbox EXCEPT ![c] = "empty"]
        /\ UNCHANGED <<conn, active, due>>
     \/ /\ ~due[c]
        /\ inbox[c] = "close" \/ (inbox[c] = "empty" /\ peer[c] = "gone")
        /\ SessionEnds(c)
        /\ UNCHANGED <<inbox, due>>
  /\ UNCHANGED <<tokenVars, peer>>

\* The socket is closed, or the refusal is sent: the connection is free.
Closed(c) == /\ conn[c] \in Refusals \cup {"closing"}
             /\ conn[c] = "closing" => peer[c] # "stalled"
             /\ conn' = [conn EXCEPT ![c] = "idle"]
             /\ peer' = [peer EXCEPT ![c] = "reading"]
             /\ inbox' = [inbox EXCEPT ![c] = "empty"]
             /\ due' = [due EXCEPT ![c] = FALSE]
             /\ UNCHANGED <<tokenVars, active>>

-----------------------------------------------------------------------------
(* The client of a session, which may do anything at any time *)

Established == {"upgrading", "sending", "waiting", "closing"}

ClientSends(c) == /\ conn[c] \in {"sending", "waiting"}
                  /\ peer[c] # "gone"
                  /\ inbox[c] = "empty"
                  /\ \E frame \in {"data", "close"} :
                       inbox' = [inbox EXCEPT ![c] = frame]
                  /\ UNCHANGED <<tokenVars, conn, active, peer, due>>

PeerChanges(c) == /\ conn[c] \in Established
                  /\ peer[c] # "gone"
                  /\ \E p \in {"reading", "stalled", "gone"} \ {peer[c]} :
                       peer' = [peer EXCEPT ![c] = p]
                  /\ UNCHANGED <<tokenVars, conn, active, inbox, due>>

-----------------------------------------------------------------------------
Session(c) == \/ UpgradeFails(c) \/ Upgrade(c)
              \/ Sent(c) \/ SendFails(c)
              \/ TimerFires(c) \/ Poll(c) \/ Closed(c)

Next == \/ \E t \in Tokens : Issue(t) \/ Expire(t)
        \/ \E c \in Conns :
             \/ ConnectMissing(c)
             \/ \E t \in Tokens : ConnectInvalid(c, t) \/ ConnectValid(c, t)
             \/ Session(c)
             \/ ClientSends(c) \/ PeerChanges(c)

Spec == Init /\ [][Next]_vars

\* Timers fire and the runtime polls what is ready; clients owe nothing.
Fairness == /\ \A t \in Tokens : WF_vars(Expire(t))
            /\ \A c \in Conns : /\ WF_vars(UpgradeFails(c) \/ Upgrade(c))
                                /\ WF_vars(Sent(c))
                                /\ WF_vars(SendFails(c))
                                /\ WF_vars(TimerFires(c))
                                /\ WF_vars(Poll(c))
                                /\ WF_vars(Closed(c))

LiveSpec == Spec /\ Fairness

-----------------------------------------------------------------------------
(* Properties *)

Phases == {"idle", "upgrading", "sending", "waiting", "closing"} \cup Refusals

\* Every variable has its type; the counter, a usize, never goes below zero.
TypeOK == /\ registry \subseteq Tokens
          /\ expiry \in [Tokens -> {"none", "sleeping", "done"}]
          /\ claims \in [Tokens -> Nat]
          /\ conn \in [Conns -> Phases]
          /\ active \in Nat
          /\ peer \in [Conns -> {"reading", "stalled", "gone"}]
          /\ inbox \in [Conns -> {"empty", "data", "close"}]
          /\ due \in [Conns -> BOOLEAN]

\* active_ws counts the sessions that run, whichever way each one ends.
CounterExact == active = Cardinality(Running)

\* A token admits one connection at most, however claims and the expiry task
\* interleave.
TokenSingleUse == \A t \in Tokens : claims[t] <= 1

\* A pending token always has the task that will expire it.
PendingExpires == \A t \in registry : expiry[t] = "sleeping"

\* The capacity test and the increment it protects are apart, so the sessions
\* and the handshakes that may still become one exceed the cap by at most the
\* other handshakes in flight: with one handshake at a time the cap is exact.
OvershootBounded ==
  active + Cardinality(Upgrading) <= max_ws_connections + MaxHandshakes - 1

\* README.md:136 calls max_ws_connections the cap on concurrent clients.
CapHolds == active <= max_ws_connections

\* Frames from the client, however many, never keep a push from being sent.
PushComes(c) == conn[c] = "waiting" ~> conn[c] # "waiting"
CadenceKept == \A c \in Conns : PushComes(c)

\* A session whose client is gone is uncounted in the end.
Uncounted(c) == (c \in Running /\ peer[c] = "gone") ~> c \notin Running
SlotReleased == \A c \in Conns : Uncounted(c)

\* An issued token leaves the registry, claimed or not.
TokenDrains(t) == t \in registry ~> t \notin registry
TokensDrain == \A t \in Tokens : TokenDrains(t)

\* The registry and the handshake implement one-time tokens.
TokenStatus(t) == IF claims[t] # 0 THEN "redeemed"
                  ELSE IF t \in registry THEN "pending"
                  ELSE IF expiry[t] = "none" THEN "fresh"
                  ELSE "expired"
OneTime == INSTANCE WorkerTokens WITH status <- [t \in Tokens |-> TokenStatus(t)]
OneTimeSpec == OneTime!Spec
=============================================================================
