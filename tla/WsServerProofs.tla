--------------------------- MODULE WsServerProofs ---------------------------
(***************************************************************************)
(* Theorems about WsServer, for any sets of tokens and connections, any    *)
(* cap and any number of handshakes in flight: types, the single use of a  *)
(* token, the exactness of the session counter, the bound on overshooting  *)
(* the cap, and that the server implements WorkerTokens.                   *)
(***************************************************************************)
EXTENDS WsServer, FiniteSetTheorems, TLAPS

-----------------------------------------------------------------------------
(* Types *)

\* Every variable but the counter, which is typed with its exactness below.
ShapeOK == /\ registry \subseteq Tokens
           /\ expiry \in [Tokens -> {"none", "sleeping", "done"}]
           /\ claims \in [Tokens -> Nat]
           /\ conn \in [Conns -> Phases]
           /\ active \in Int
           /\ peer \in [Conns -> {"reading", "stalled", "gone"}]
           /\ inbox \in [Conns -> {"empty", "data", "close"}]
           /\ due \in [Conns -> BOOLEAN]

LEMMA ShapeInit == Init => ShapeOK
BY DEF Init, ShapeOK, Phases

LEMMA ShapeStep == ShapeOK /\ [Next]_vars => ShapeOK'
<1> SUFFICES ASSUME ShapeOK, [Next]_vars PROVE ShapeOK'
  OBVIOUS
<1> USE DEF ShapeOK, Phases, Refusals
<1>1. ASSUME NEW t \in Tokens, Issue(t) \/ Expire(t) PROVE ShapeOK'
  BY <1>1 DEF Issue, Expire, clientVars
<1>2. ASSUME NEW c \in Conns, ConnectMissing(c) PROVE ShapeOK'
  BY <1>2 DEF ConnectMissing, tokenVars, clientVars
<1>3. ASSUME NEW c \in Conns, NEW t \in Tokens, ConnectInvalid(c, t)
      PROVE  ShapeOK'
  BY <1>3 DEF ConnectInvalid, tokenVars, clientVars
<1>4. ASSUME NEW c \in Conns, NEW t \in Tokens, ConnectValid(c, t)
      PROVE  ShapeOK'
  BY <1>4 DEF ConnectValid, Claimed, clientVars
<1>5. ASSUME NEW c \in Conns, UpgradeFails(c) \/ Upgrade(c) PROVE ShapeOK'
  BY <1>5 DEF UpgradeFails, Upgrade, tokenVars, clientVars
<1>6. ASSUME NEW c \in Conns, Sent(c) \/ SendFails(c) PROVE ShapeOK'
  BY <1>6 DEF Sent, SendFails, SessionEnds, tokenVars, clientVars
<1>7. ASSUME NEW c \in Conns, TimerFires(c) PROVE ShapeOK'
  BY <1>7 DEF TimerFires, tokenVars, clientVars
<1>8. ASSUME NEW c \in Conns, Poll(c) PROVE ShapeOK'
  <2>1. conn' \in [Conns -> Phases] /\ active' \in Int
    BY <1>8 DEF Poll, SessionEnds
  <2>2. inbox' \in [Conns -> {"empty", "data", "close"}]
    BY <1>8 DEF Poll
  <2>3. due' \in [Conns -> BOOLEAN]
    BY <1>8 DEF Poll
  <2> QED BY <1>8, <2>1, <2>2, <2>3 DEF Poll, tokenVars
<1>9. ASSUME NEW c \in Conns, Closed(c) PROVE ShapeOK'
  BY <1>9 DEF Closed, tokenVars
<1>10. ASSUME NEW c \in Conns, ClientSends(c) \/ PeerChanges(c) PROVE ShapeOK'
  BY <1>10 DEF ClientSends, PeerChanges, tokenVars
<1>11. CASE UNCHANGED vars
  BY <1>11 DEF vars, tokenVars, clientVars
<1> QED BY <1>1, <1>2, <1>3, <1>4, <1>5, <1>6, <1>7, <1>8, <1>9, <1>10,
           <1>11 DEF Next, Session

-----------------------------------------------------------------------------
(* Tokens *)

\* A pending token was never claimed and will expire; one that was never
\* issued was never claimed.
TokenInv == \A t \in Tokens :
  /\ claims[t] <= 1
  /\ t \in registry => expiry[t] = "sleeping" /\ claims[t] = 0
  /\ expiry[t] = "none" => claims[t] = 0

LEMMA TokenInit == Init => TokenInv
BY DEF Init, TokenInv

\* Only the three operations of the registry touch it.
LEMMA TokenFrame ==
  ASSUME [Next]_vars
  PROVE  \/ \E t \in Tokens : Issue(t) \/ Expire(t)
         \/ \E c \in Conns, t \in Tokens : ConnectValid(c, t)
         \/ UNCHANGED tokenVars
BY DEF Next, Session, ConnectMissing, ConnectInvalid, UpgradeFails, Upgrade,
       Sent, SendFails, TimerFires, Poll, Closed, ClientSends, PeerChanges, vars

LEMMA TokenStep == ShapeOK /\ TokenInv /\ [Next]_vars => TokenInv'
<1> SUFFICES ASSUME ShapeOK, TokenInv, [Next]_vars PROVE TokenInv'
  OBVIOUS
<1> USE DEF TokenInv, ShapeOK
<1>1. ASSUME NEW t \in Tokens, Issue(t) \/ Expire(t) PROVE TokenInv'
  BY <1>1 DEF Issue, Expire
<1>2. ASSUME NEW c \in Conns, NEW t \in Tokens, ConnectValid(c, t)
      PROVE  TokenInv'
  BY <1>2 DEF ConnectValid, Claimed
<1>3. CASE UNCHANGED tokenVars
  BY <1>3 DEF tokenVars
<1> QED BY <1>1, <1>2, <1>3, TokenFrame

\* No token is ever claimed twice, and none is left in the registry without
\* the task that will expire it.
THEOREM TokensAreOneTime == Spec => [](TokenSingleUse /\ PendingExpires)
<1>1. Init => ShapeOK /\ TokenInv
  BY ShapeInit, TokenInit
<1>2. ShapeOK /\ TokenInv /\ [Next]_vars => (ShapeOK /\ TokenInv)'
  BY ShapeStep, TokenStep
<1>3. ShapeOK /\ TokenInv => TokenSingleUse /\ PendingExpires
  BY DEF ShapeOK, TokenInv, TokenSingleUse, PendingExpires
<1> QED BY <1>1, <1>2, <1>3, PTL DEF Spec

\* No id waits in the registry without a task that will take it out.
THEOREM PendingTokensExpire == Spec => []PendingExpires
<1> QED BY TokensAreOneTime, PTL

-----------------------------------------------------------------------------
(* Sessions and the counter *)

\* A connection that changes phase joins or leaves the running sessions and
\* the handshakes, and changes no other's place.
LEMMA PhaseChange ==
  ASSUME ShapeOK, NEW c \in Conns, NEW p,
         conn' = [conn EXCEPT ![c] = p]
  PROVE  /\ Running' = IF p \in {"sending", "waiting"} THEN Running \cup {c}
                                                       ELSE Running \ {c}
         /\ Upgrading' = IF p = "upgrading" THEN Upgrading \cup {c}
                                            ELSE Upgrading \ {c}
BY DEF ShapeOK, Running, Upgrading

\* Adding a new element and removing an old one count for one.
LEMMA CountChange ==
  ASSUME NEW S \in SUBSET Conns, NEW c \in Conns
  PROVE  /\ Cardinality(S) \in Nat
         /\ Cardinality(S \cup {c})
              = IF c \in S THEN Cardinality(S) ELSE Cardinality(S) + 1
         /\ Cardinality(S \ {c})
              = IF c \in S THEN Cardinality(S) - 1 ELSE Cardinality(S)
<1>1. IsFiniteSet(S)
  BY FiniteAssumption, FS_Subset
<1> QED BY <1>1, FS_AddElement, FS_RemoveElement, FS_CardinalityType

LEMMA RunningCounts ==
  /\ Running \in SUBSET Conns /\ Upgrading \in SUBSET Conns
  /\ Running' \in SUBSET Conns /\ Upgrading' \in SUBSET Conns
BY DEF Running, Upgrading

\* The counter is exact, and it leaves room for the handshakes admitted.
CountInv == CounterExact /\ OvershootBounded

LEMMA CountInit == Init => CountInv
<1> SUFFICES ASSUME Init PROVE CountInv
  OBVIOUS
<1>1. Running = {} /\ Upgrading = {}
  BY DEF Init, Running, Upgrading
<1>2. Cardinality({}) = 0
  BY FS_EmptySet
<1> QED BY <1>1, <1>2, CapAssumption, HandshakeAssumption
        DEF Init, CountInv, CounterExact, OvershootBounded

\* What each step does to the counter and to the two sets it is compared with.
LEMMA CountFrame ==
  ASSUME ShapeOK, [Next]_vars
  PROVE  \/ \E c \in Conns :          \* a handshake is admitted
              /\ conn[c] = "idle" /\ active < max_ws_connections
              /\ Cardinality(Upgrading) < MaxHandshakes
              /\ conn' = [conn EXCEPT ![c] = "upgrading"] /\ active' = active
         \/ \E c \in Conns :          \* a session begins
              /\ conn[c] = "upgrading"
              /\ conn' = [conn EXCEPT ![c] = "sending"]
              /\ active' = active + 1
         \/ \E c \in Conns :          \* a session ends
              /\ conn[c] \in {"sending", "waiting"}
              /\ conn' = [conn EXCEPT ![c] = "closing"]
              /\ active' = active - 1
         \/ \E c \in Conns :          \* a session goes on
              /\ conn[c] \in {"sending", "waiting"} /\ active' = active
              /\ \E p \in {"sending", "waiting"} :
                   conn' = [conn EXCEPT ![c] = p]
         \/ \E c \in Conns :          \* a handshake fails
              /\ conn[c] = "upgrading" /\ active' = active
              /\ conn' = [conn EXCEPT ![c] = "closing"]
         \/ \E c \in Conns :          \* a refusal, or a connection closes
              /\ conn[c] \in {"idle", "closing"} \cup Refusals
              /\ active' = active
              /\ \E p \in {"idle"} \cup Refusals :
                   conn' = [conn EXCEPT ![c] = p]
         \/ conn' = conn /\ active' = active
<1>1. ASSUME NEW c \in Conns, NEW t \in Tokens, ConnectValid(c, t)
      PROVE  \/ /\ conn[c] = "idle" /\ active < max_ws_connections
                /\ Cardinality(Upgrading) < MaxHandshakes
                /\ conn' = [conn EXCEPT ![c] = "upgrading"]
                /\ active' = active
             \/ /\ conn[c] = "idle" /\ active' = active
                /\ conn' = [conn EXCEPT ![c] = "unavailable"]
  <2>1. CASE Full(active)
    BY <1>1, <2>1 DEF ConnectValid
  <2>2. CASE ~Full(active)
    <3>1. active < max_ws_connections
      BY <2>2, CapAssumption DEF Full, ShapeOK
    <3> QED BY <1>1, <2>2, <3>1 DEF ConnectValid
  <2> QED BY <2>1, <2>2
<1>2. ASSUME NEW c \in Conns, Poll(c)
      PROVE  \/ /\ conn[c] = "waiting" /\ active' = active
                /\ conn' = [conn EXCEPT ![c] = "sending"]
             \/ /\ conn[c] = "waiting" /\ active' = active - 1
                /\ conn' = [conn EXCEPT ![c] = "closing"]
             \/ conn' = conn /\ active' = active
  BY <1>2 DEF Poll, SessionEnds
<1>3. CASE \E t \in Tokens : Issue(t) \/ Expire(t)
  BY <1>3 DEF Issue, Expire
<1>4. CASE \E c \in Conns :
             ConnectMissing(c) \/ \E t \in Tokens : ConnectInvalid(c, t)
  BY <1>4 DEF ConnectMissing, ConnectInvalid, Refusals
<1>5. CASE \E c \in Conns : UpgradeFails(c) \/ Upgrade(c)
  BY <1>5 DEF UpgradeFails, Upgrade
<1>6. CASE \E c \in Conns : Sent(c) \/ SendFails(c)
  BY <1>6 DEF Sent, SendFails, SessionEnds
<1>7. CASE \E c \in Conns : Closed(c)
  BY <1>7 DEF Closed
<1>8. CASE \E c \in Conns : TimerFires(c) \/ ClientSends(c) \/ PeerChanges(c)
  BY <1>8 DEF TimerFires, ClientSends, PeerChanges
<1>9. CASE UNCHANGED vars
  BY <1>9 DEF vars
<1>10. CASE \E c \in Conns, t \in Tokens : ConnectValid(c, t)
  BY <1>1, <1>10 DEF Refusals
<1>11. CASE \E c \in Conns : Poll(c)
  BY <1>2, <1>11
<1> QED BY <1>3, <1>4, <1>5, <1>6, <1>7, <1>8, <1>9, <1>10, <1>11
        DEF Next, Session

LEMMA CountStep == ShapeOK /\ CountInv /\ [Next]_vars => CountInv'
<1> SUFFICES ASSUME ShapeOK, CountInv, [Next]_vars PROVE CountInv'
  OBVIOUS
<1>0. /\ active \in Int /\ max_ws_connections \in Nat /\ MaxHandshakes \in Nat
      /\ Cardinality(Running) \in Nat /\ Cardinality(Upgrading) \in Nat
  BY RunningCounts, CountChange, CapAssumption, HandshakeAssumption,
     FS_CardinalityType, FiniteAssumption, FS_Subset DEF ShapeOK
<1> USE DEF CountInv, CounterExact, OvershootBounded
<1>1. ASSUME NEW c \in Conns, conn[c] = "idle", active < max_ws_connections,
             Cardinality(Upgrading) < MaxHandshakes,
             conn' = [conn EXCEPT ![c] = "upgrading"], active' = active
      PROVE  CountInv'
  <2>1. Running' = Running \ {c} /\ Upgrading' = Upgrading \cup {c}
    BY <1>1, PhaseChange
  <2>2. c \notin Running /\ c \notin Upgrading
    BY <1>1 DEF Running, Upgrading
  <2>3. /\ Cardinality(Running') = Cardinality(Running)
        /\ Cardinality(Upgrading') = Cardinality(Upgrading) + 1
    BY <2>1, <2>2, RunningCounts, CountChange
  <2> QED BY <1>0, <1>1, <2>3
<1>2. ASSUME NEW c \in Conns, conn[c] = "upgrading",
             conn' = [conn EXCEPT ![c] = "sending"], active' = active + 1
      PROVE  CountInv'
  <2>1. Running' = Running \cup {c} /\ Upgrading' = Upgrading \ {c}
    BY <1>2, PhaseChange
  <2>2. c \notin Running /\ c \in Upgrading
    BY <1>2 DEF Running, Upgrading
  <2>3. /\ Cardinality(Running') = Cardinality(Running) + 1
        /\ Cardinality(Upgrading') = Cardinality(Upgrading) - 1
    BY <2>1, <2>2, RunningCounts, CountChange
  <2> QED BY <1>0, <1>2, <2>3
<1>3. ASSUME NEW c \in Conns, conn[c] \in {"sending", "waiting"},
             conn' = [conn EXCEPT ![c] = "closing"], active' = active - 1
      PROVE  CountInv'
  <2>1. Running' = Running \ {c} /\ Upgrading' = Upgrading \ {c}
    BY <1>3 DEF ShapeOK, Running, Upgrading
  <2>2. c \in Running /\ c \notin Upgrading
    BY <1>3 DEF Running, Upgrading
  <2>3. /\ Cardinality(Running') = Cardinality(Running) - 1
        /\ Cardinality(Upgrading') = Cardinality(Upgrading)
    BY <2>1, <2>2, RunningCounts, CountChange
  <2> QED BY <1>0, <1>3, <2>3
<1>4. ASSUME NEW c \in Conns, conn[c] \in {"sending", "waiting"},
             active' = active, NEW p \in {"sending", "waiting"},
             conn' = [conn EXCEPT ![c] = p]
      PROVE  CountInv'
  <2>1. Running' = Running \cup {c} /\ Upgrading' = Upgrading \ {c}
    BY <1>4, PhaseChange
  <2>2. Running' = Running /\ Upgrading' = Upgrading
    BY <1>4, <2>1 DEF Running, Upgrading
  <2> QED BY <1>0, <1>4, <2>2
<1>5. ASSUME NEW c \in Conns, conn[c] = "upgrading", active' = active,
             conn' = [conn EXCEPT ![c] = "closing"]
      PROVE  CountInv'
  <2>1. Running' = Running \ {c} /\ Upgrading' = Upgrading \ {c}
    BY <1>5 DEF ShapeOK, Running, Upgrading
  <2>2. c \notin Running /\ c \in Upgrading
    BY <1>5 DEF Running, Upgrading
  <2>3. /\ Cardinality(Running') = Cardinality(Running)
        /\ Cardinality(Upgrading') = Cardinality(Upgrading) - 1
    BY <2>1, <2>2, RunningCounts, CountChange
  <2> QED BY <1>0, <1>5, <2>3
<1>6. ASSUME NEW c \in Conns, conn[c] \in {"idle", "closing"} \cup Refusals,
             active' = active, NEW p \in {"idle"} \cup Refusals,
             conn' = [conn EXCEPT ![c] = p]
      PROVE  CountInv'
  <2>1. Running' = Running \ {c} /\ Upgrading' = Upgrading \ {c}
    BY <1>6, PhaseChange DEF Refusals
  <2>2. Running' = Running /\ Upgrading' = Upgrading
    BY <1>6, <2>1 DEF Running, Upgrading, Refusals
  <2> QED BY <1>0, <1>6, <2>2
<1>7. CASE conn' = conn /\ active' = active
  <2>1. Running' = Running /\ Upgrading' = Upgrading
    BY <1>7 DEF Running, Upgrading
  <2> QED BY <1>7, <2>1
<1> QED BY <1>1, <1>2, <1>3, <1>4, <1>5, <1>6, <1>7, CountFrame

\* Every variable has its type: in particular the usize never underflows.
LEMMA CountedTypes == ShapeOK /\ CountInv => active \in Nat
BY RunningCounts, CountChange, FS_CardinalityType, FiniteAssumption, FS_Subset
   DEF CountInv, CounterExact

THEOREM TypeCorrect == Spec => []TypeOK
<1>1. Init => ShapeOK /\ CountInv
  BY ShapeInit, CountInit
<1>2. ShapeOK /\ CountInv /\ [Next]_vars => (ShapeOK /\ CountInv)'
  BY ShapeStep, CountStep
<1>3. ShapeOK /\ CountInv => TypeOK
  BY CountedTypes DEF ShapeOK, TypeOK
<1> QED BY <1>1, <1>2, <1>3, PTL DEF Spec

\* The counter is the number of running sessions, and together with the
\* handshakes under way it exceeds the cap by fewer than MaxHandshakes.
THEOREM SessionsAreCounted == Spec => [](CounterExact /\ OvershootBounded)
<1>1. Init => ShapeOK /\ CountInv
  BY ShapeInit, CountInit
<1>2. ShapeOK /\ CountInv /\ [Next]_vars => (ShapeOK /\ CountInv)'
  BY ShapeStep, CountStep
<1>3. CountInv => CounterExact /\ OvershootBounded
  BY DEF CountInv
<1> QED BY <1>1, <1>2, <1>3, PTL DEF Spec

\* Whatever the interleaving of handshakes, the cap is exceeded by fewer than
\* the handshakes that may be in flight at once.
THEOREM OvershootStaysBounded == Spec => []OvershootBounded
<1> QED BY SessionsAreCounted, PTL

\* When handshakes do not overlap, the cap of the settings holds exactly.
THEOREM SerialCap ==
  ASSUME MaxHandshakes = 1
  PROVE  Spec => []CapHolds
<1>1. Init => ShapeOK /\ CountInv
  BY ShapeInit, CountInit
<1>2. ShapeOK /\ CountInv /\ [Next]_vars => (ShapeOK /\ CountInv)'
  BY ShapeStep, CountStep
<1>3. ShapeOK /\ CountInv => CapHolds
  <2>1. Cardinality(Upgrading) \in Nat
    BY RunningCounts, FiniteAssumption, FS_Subset, FS_CardinalityType
  <2> QED BY <2>1, CapAssumption
          DEF ShapeOK, CountInv, OvershootBounded, CapHolds
<1> QED BY <1>1, <1>2, <1>3, PTL DEF Spec

-----------------------------------------------------------------------------
(* Refinement *)

\* The server implements one-time tokens.
THEOREM ImplementsOneTime == Spec => OneTimeSpec
<1> DEFINE S == [t \in Tokens |-> TokenStatus(t)]
<1>1. Init => OneTime!Init
  BY DEF Init, OneTime!Init, TokenStatus
<1>2. ShapeOK /\ TokenInv /\ [Next]_vars => [OneTime!Next]_S
  <2> SUFFICES ASSUME ShapeOK, TokenInv, [Next]_vars
               PROVE  OneTime!Next \/ S' = S
    OBVIOUS
  <2> USE DEF ShapeOK, TokenInv
  <2>1. ASSUME NEW t \in Tokens, Issue(t) PROVE OneTime!Issue(t)
    <3>1. TokenStatus(t) = "fresh" /\ TokenStatus(t)' = "pending"
      BY <2>1 DEF Issue, TokenStatus
    <3>2. \A u \in Tokens \ {t} : TokenStatus(u)' = TokenStatus(u)
      BY <2>1 DEF Issue, TokenStatus
    <3> QED BY <3>1, <3>2 DEF OneTime!Issue
  <2>2. ASSUME NEW t \in Tokens, Expire(t) PROVE OneTime!Expire(t) \/ S' = S
    <3>1. \A u \in Tokens \ {t} : TokenStatus(u)' = TokenStatus(u)
      BY <2>2 DEF Expire, TokenStatus
    <3>2. CASE t \in registry
      <4>1. TokenStatus(t) = "pending" /\ TokenStatus(t)' = "expired"
        BY <2>2, <3>2 DEF Expire, TokenStatus
      <4> QED BY <3>1, <4>1 DEF OneTime!Expire
    <3>3. CASE t \notin registry
      <4>1. TokenStatus(t)' = TokenStatus(t)
        BY <2>2, <3>3 DEF Expire, TokenStatus
      <4> QED BY <3>1, <4>1
    <3> QED BY <3>2, <3>3
  <2>3. ASSUME NEW c \in Conns, NEW t \in Tokens, ConnectValid(c, t)
        PROVE  OneTime!Redeem(t)
    <3>1. TokenStatus(t) = "pending" /\ TokenStatus(t)' = "redeemed"
      BY <2>3 DEF ConnectValid, TokenStatus
    <3>2. \A u \in Tokens \ {t} : TokenStatus(u)' = TokenStatus(u)
      BY <2>3 DEF ConnectValid, Claimed, TokenStatus
    <3> QED BY <3>1, <3>2 DEF OneTime!Redeem
  <2>4. CASE UNCHANGED tokenVars
    BY <2>4 DEF tokenVars, TokenStatus
  <2> QED BY <2>1, <2>2, <2>3, <2>4, TokenFrame DEF OneTime!Next
<1>3. Init => ShapeOK /\ TokenInv
  BY ShapeInit, TokenInit
<1>4. ShapeOK /\ TokenInv /\ [Next]_vars => (ShapeOK /\ TokenInv)'
  BY ShapeStep, TokenStep
<1> QED BY <1>1, <1>2, <1>3, <1>4, PTL DEF Spec, OneTimeSpec, OneTime!Spec

-----------------------------------------------------------------------------
(* Progress, of one token or one connection.  The prover does not see when   *)
(* an action is enabled, so each fairness assumption of LiveSpec is stated   *)
(* with the action's guard.                                                  *)

\* Weak fairness of an action that its guard enables: the guard does not hold
\* for good without a step of the action.
WeakFair(guard, A) == []<>~guard \/ []<><<A>>_vars

\* The sleep of an expiry task and the timer of a push end, a session that has
\* something to do is polled, and a send to a lost client fails.
ExpiryFires(t) == WeakFair(expiry[t] = "sleeping", Expire(t))
TimerElapses(c) == WeakFair(conn[c] = "waiting" /\ ~due[c], TimerFires(c))
Polled(c) == WeakFair(/\ conn[c] = "waiting"
                      /\ \/ due[c] \/ inbox[c] # "empty"
                         \/ peer[c] = "gone",
                      Poll(c))
SendErrs(c) == WeakFair(conn[c] = "sending" /\ peer[c] = "gone", SendFails(c))

\* The invariants of the tokens, for the whole specification.
LEMMA TokenInvariance == Spec => [](ShapeOK /\ TokenInv)
BY ShapeInit, TokenInit, ShapeStep, TokenStep, PTL DEF Spec

LEMMA ShapeInvariance == Spec => []ShapeOK
BY TokenInvariance, PTL

\* TokensDrain for each token: whatever else is claimed or issued meanwhile,
\* it leaves the registry, by a claim or by the task it was issued with.
THEOREM TokenLeaves ==
  ASSUME NEW t \in Tokens
  PROVE  Spec /\ ExpiryFires(t) => TokenDrains(t)
<1>1. ShapeOK /\ TokenInv /\ t \in registry => expiry[t] = "sleeping"
  BY DEF TokenInv
<1>2. <<Expire(t)>>_vars => (t \notin registry)'
  BY DEF Expire
<1>3. t \notin registry <=> ~(t \in registry)
  OBVIOUS
<1> QED BY <1>1, <1>2, <1>3, TokenInvariance, PTL
        DEF ExpiryFires, WeakFair, TokenDrains

\* And it never comes back: whoever presents it later is refused, for good.
THEOREM TokenStaysOut ==
  ASSUME NEW t \in Tokens
  PROVE  Spec /\ ExpiryFires(t) => (t \in registry ~> [](t \notin registry))
<1> DEFINE Spent == expiry[t] # "none" /\ t \notin registry
<1>1. ShapeOK /\ TokenInv /\ Spent /\ [Next]_vars => Spent'
  <2> SUFFICES ASSUME ShapeOK, Spent, [Next]_vars PROVE Spent'
    OBVIOUS
  <2>1. CASE \E u \in Tokens : Issue(u) \/ Expire(u)
    BY <2>1 DEF Issue, Expire, ShapeOK
  <2>2. CASE \E c \in Conns, u \in Tokens : ConnectValid(c, u)
    BY <2>2 DEF ConnectValid, Claimed
  <2>3. CASE UNCHANGED tokenVars
    BY <2>3 DEF tokenVars
  <2> QED BY <2>1, <2>2, <2>3, TokenFrame
<1>2. ShapeOK /\ TokenInv /\ t \in registry /\ [Next]_vars
        => (t \in registry \/ Spent)'
  <2> SUFFICES ASSUME ShapeOK, TokenInv, t \in registry, [Next]_vars
               PROVE  expiry'[t] # "none"
    OBVIOUS
  <2>1. expiry[t] = "sleeping"
    BY DEF TokenInv
  <2>2. CASE \E u \in Tokens : Issue(u) \/ Expire(u)
    BY <2>1, <2>2 DEF Issue, Expire, ShapeOK
  <2>3. CASE \E c \in Conns, u \in Tokens : ConnectValid(c, u)
    BY <2>1, <2>3 DEF ConnectValid
  <2>4. CASE UNCHANGED tokenVars
    BY <2>1, <2>4 DEF tokenVars
  <2> QED BY <2>2, <2>3, <2>4, TokenFrame
<1>3. Spec /\ ExpiryFires(t) => (t \in registry ~> t \notin registry)
  BY TokenLeaves DEF TokenDrains
<1>4. Spent => t \notin registry
  OBVIOUS
<1>5. t \notin registry <=> ~(t \in registry)
  OBVIOUS
<1> HIDE DEF Spent
<1> QED BY <1>1, <1>2, <1>3, <1>4, <1>5, TokenInvariance, PTL DEF Spec

\* Where the wait of a session stands.
Idling(c) == conn[c] = "waiting" /\ ~due[c]
Overdue(c) == conn[c] = "waiting" /\ due[c]

\* While it runs, only the session of a connection itself, or its client, changes it.
LEMMA ConnFrame ==
  ASSUME NEW c \in Conns, ShapeOK, [Next]_vars
  PROVE  \/ conn[c] \notin {"sending", "waiting"}
         \/ Session(c)
         \/ ClientSends(c) \/ PeerChanges(c)
         \/ /\ conn'[c] = conn[c] /\ due'[c] = due[c]
            /\ peer'[c] = peer[c] /\ inbox'[c] = inbox[c]
<1> USE DEF ShapeOK
<1>1. ASSUME NEW t \in Tokens, Issue(t) \/ Expire(t)
      PROVE  UNCHANGED <<conn, due, peer, inbox>>
  BY <1>1 DEF Issue, Expire, clientVars
<1>2. ASSUME NEW d \in Conns, NEW t \in Tokens,
             ConnectInvalid(d, t) \/ ConnectValid(d, t)
      PROVE  \/ conn[c] \notin {"sending", "waiting"}
             \/ /\ conn'[c] = conn[c] /\ due'[c] = due[c]
                /\ peer'[c] = peer[c] /\ inbox'[c] = inbox[c]
  BY <1>2 DEF ConnectInvalid, ConnectValid, clientVars
<1>3. ASSUME NEW d \in Conns \ {c},
             Session(d) \/ ClientSends(d) \/ PeerChanges(d)
      PROVE  /\ conn'[c] = conn[c] /\ due'[c] = due[c]
             /\ peer'[c] = peer[c] /\ inbox'[c] = inbox[c]
  BY <1>3 DEF Session, UpgradeFails, Upgrade, Sent, SendFails, SessionEnds,
              TimerFires, Poll, Closed, ClientSends, PeerChanges, clientVars
<1>4. CASE UNCHANGED vars
  BY <1>4 DEF vars, clientVars
<1>5. ASSUME NEW d \in Conns, ConnectMissing(d)
      PROVE  \/ conn[c] \notin {"sending", "waiting"}
             \/ /\ conn'[c] = conn[c] /\ due'[c] = due[c]
                /\ peer'[c] = peer[c] /\ inbox'[c] = inbox[c]
  BY <1>5 DEF ConnectMissing, clientVars
<1> QED BY <1>1, <1>2, <1>3, <1>4, <1>5 DEF Next

\* A wait goes on until its timer is due, and from then on until its end.
LEMMA WaitStep ==
  ASSUME NEW c \in Conns, ShapeOK, [Next]_vars
  PROVE  /\ Idling(c) => Idling(c)' \/ Overdue(c)' \/ (conn[c] # "waiting")'
         /\ Overdue(c) => Overdue(c)' \/ (conn[c] # "waiting")'
<1>1. \/ conn[c] # "waiting"
      \/ Session(c)
      \/ ClientSends(c) \/ PeerChanges(c)
      \/ conn'[c] = conn[c] /\ due'[c] = due[c]
  BY ConnFrame
<1> QED BY <1>1 DEF ShapeOK, Idling, Overdue, Session, UpgradeFails, Upgrade,
     Sent, SendFails, TimerFires, Poll, Closed, ClientSends, PeerChanges

\* CadenceKept for each connection: once due, the timer wins the biased select,
\* so frames from the client, however many, never keep a push from being sent.
THEOREM PushIsNotStarved ==
  ASSUME NEW c \in Conns
  PROVE  Spec /\ TimerElapses(c) /\ Polled(c) => PushComes(c)
<1>1. ShapeOK /\ [Next]_vars =>
        /\ Idling(c) => Idling(c)' \/ Overdue(c)' \/ (conn[c] # "waiting")'
        /\ Overdue(c) => Overdue(c)' \/ (conn[c] # "waiting")'
  BY WaitStep
<1>2. ShapeOK /\ <<TimerFires(c)>>_vars => ~Idling(c)'
  BY DEF ShapeOK, TimerFires, Idling
<1>3. ShapeOK /\ Overdue(c) /\ <<Poll(c)>>_vars => ~Overdue(c)'
  BY DEF ShapeOK, Poll, Overdue
<1>4. ShapeOK => /\ conn[c] = "waiting" => Idling(c) \/ Overdue(c)
                 /\ Idling(c) => conn[c] = "waiting" /\ ~due[c]
  BY DEF Idling, Overdue
<1>5. Overdue(c) => /\ conn[c] = "waiting"
                    /\ due[c] \/ inbox[c] # "empty" \/ peer[c] = "gone"
  BY DEF Overdue
<1>6. conn[c] # "waiting" <=> ~(conn[c] = "waiting")
  OBVIOUS
<1> QED BY <1>1, <1>2, <1>3, <1>4, <1>5, <1>6, ShapeInvariance, PTL
        DEF Spec, TimerElapses, Polled, WeakFair, PushComes

\* The session of a client that is gone.
Bereft(c) == c \in Running /\ peer[c] = "gone"

\* It stays one until it ends, and does not leave a send but by ending.
LEMMA GoneStep ==
  ASSUME NEW c \in Conns, ShapeOK, [Next]_vars, Bereft(c)
  PROVE  /\ Bereft(c)' \/ (c \notin Running)'
         /\ conn[c] = "sending" => conn'[c] = "sending" \/ (c \notin Running)'
<1>1. conn[c] \in {"sending", "waiting"} /\ peer[c] = "gone"
  BY DEF Bereft, Running
<1>2. \/ Session(c)
      \/ ClientSends(c) \/ PeerChanges(c)
      \/ conn'[c] = conn[c] /\ peer'[c] = peer[c]
  BY <1>1, ConnFrame
<1>3. CASE conn'[c] = conn[c] /\ peer'[c] = peer[c]
  BY <1>1, <1>3 DEF Bereft, Running
<1>4. CASE ClientSends(c) \/ PeerChanges(c)
  BY <1>1, <1>4 DEF ClientSends, PeerChanges
<1>5. CASE SendFails(c)
  BY <1>5 DEF SendFails, SessionEnds, ShapeOK, Running
<1>6. CASE TimerFires(c)
  BY <1>1, <1>6 DEF TimerFires, clientVars, Bereft, Running
<1>7. CASE Poll(c)
  <2>1. peer' = peer /\ conn[c] = "waiting"
    BY <1>7 DEF Poll
  <2>2. conn'[c] \in {"sending", "waiting", "closing"}
    BY <1>7, <2>1 DEF Poll, SessionEnds, ShapeOK
  <2> QED BY <1>1, <2>1, <2>2 DEF Bereft, Running
<1>8. CASE UpgradeFails(c) \/ Upgrade(c) \/ Sent(c) \/ Closed(c)
  BY <1>1, <1>8 DEF UpgradeFails, Upgrade, Sent, Closed, Refusals
<1> QED BY <1>2, <1>3, <1>4, <1>5, <1>6, <1>7, <1>8 DEF Session

\* SlotReleased for each connection: the session of a lost client ends, at its
\* next send if no read tells it before.
THEOREM LostClientIsUncounted ==
  ASSUME NEW c \in Conns
  PROVE  Spec /\ TimerElapses(c) /\ Polled(c) /\ SendErrs(c) => Uncounted(c)
<1>1. ShapeOK /\ [Next]_vars /\ Bereft(c) =>
        /\ Bereft(c)' \/ ~(c \in Running)'
        /\ conn[c] = "sending" => (conn[c] = "sending")' \/ ~(c \in Running)'
  BY GoneStep
<1>2. ShapeOK /\ <<SendFails(c)>>_vars => ~(c \in Running)'
  BY DEF ShapeOK, SendFails, SessionEnds, Running
<1>3. Bereft(c) => /\ peer[c] = "gone" /\ c \in Running
                   /\ conn[c] = "waiting" \/ conn[c] = "sending"
  BY DEF Bereft, Running
<1>4. /\ conn[c] # "waiting" <=> ~(conn[c] = "waiting")
      /\ c \notin Running <=> ~(c \in Running)
      /\ c \in Running /\ peer[c] = "gone" <=> Bereft(c)
  BY DEF Bereft
<1> QED BY <1>1, <1>2, <1>3, <1>4, PushIsNotStarved, ShapeInvariance, PTL
        DEF Spec, SendErrs, WeakFair, PushComes, Uncounted

\* TokensDrain: with every expiry task served, the registry keeps no token.
THEOREM TokensAllLeave ==
  Spec /\ (\A t \in Tokens : ExpiryFires(t)) => TokensDrain
<1>1. \A t \in Tokens : Spec /\ ExpiryFires(t) => TokenDrains(t)
  BY TokenLeaves
<1> QED BY <1>1 DEF TokensDrain

\* CadenceKept: no session is starved of its pushes by what any client sends.
THEOREM CadenceIsKept ==
  Spec /\ (\A c \in Conns : TimerElapses(c) /\ Polled(c)) => CadenceKept
<1>1. \A c \in Conns : Spec /\ TimerElapses(c) /\ Polled(c) => PushComes(c)
  BY PushIsNotStarved
<1> QED BY <1>1 DEF CadenceKept

\* SlotReleased: no lost client keeps its slot.
THEOREM SlotsAreReleased ==
  Spec /\ (\A c \in Conns : TimerElapses(c) /\ Polled(c) /\ SendErrs(c))
    => SlotReleased
<1>1. \A c \in Conns :
        Spec /\ TimerElapses(c) /\ Polled(c) /\ SendErrs(c) => Uncounted(c)
  BY LostClientIsUncounted
<1> QED BY <1>1 DEF SlotReleased
=============================================================================
