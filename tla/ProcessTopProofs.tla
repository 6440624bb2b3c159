-------------------------- MODULE ProcessTopProofs --------------------------
(***************************************************************************)
(* Theorems about ProcessTop, for any processes, names and figures, any    *)
(* length of the ranking, and whatever exits or grows during the reads.    *)
(***************************************************************************)
EXTENDS ProcessTop, FiniteSetTheorems, TLAPS

\* What the streaming loop knows of the entries it has taken.
WalkInv ==
  /\ pc \in {"group", "probe", "exists"} => top = {} /\ walked = {}
  /\ pc \in {"cpu", "done"} => walked = {}
  /\ pc \in {"walk", "read"} =>
       /\ top \subseteq walked
       /\ walked \subseteq Groups
       /\ walked # top => Cardinality(top) = TOP_N
       /\ \A out \in walked \ top, in \in top : value[out] <= value[in]
  /\ pc = "read" => group \in Groups \ walked
  /\ pc = "ranked" => top \subseteq walked
  /\ NothingLargerLeftOut
  /\ RankingIsFull

\* What the loop over the CPU shares knows of the processes it has come to.
RepInv ==
  pc \in {"cpu", "done"} => \A g \in Groups :
    /\ rep[g] = 0 => busy[g] = 0 /\ Members(g) \subseteq left
    /\ rep[g] # 0 => rep[g] \in Members(g) \ left
    /\ busy[g] > 0 => share[rep[g]] > 0
FreshInv ==
  /\ pc \notin {"cpu", "done"} => share = Nowhere /\ busy = Zero /\ rep = Zero
  /\ pc = "done" => left = {}

-----------------------------------------------------------------------------
(* Types *)

LEMMA RankedTypes ==
  ASSUME listed \in SUBSET Pids, NEW f, NEW T \in Ranked(f)
  PROVE  /\ T \in SUBSET Names
         /\ T \subseteq Groups
         /\ Cardinality(T) <= TOP_N
         /\ Cardinality(T) < TOP_N => T = Groups
<1>1. Groups \subseteq Names
  BY PidAssumption DEF Groups, Leaders
<1>2. IsFiniteSet(Groups)
  BY <1>1, PidAssumption, FS_Subset
<1>3. T \subseteq Groups
  BY DEF Ranked
<1>4. Cardinality(Groups) \in Nat
  BY <1>2, FS_CardinalityType
<1>5. Cardinality(T) <= TOP_N
  BY <1>4, RankAssumption DEF Ranked
<1>6. ASSUME Cardinality(T) < TOP_N PROVE T = Groups
  <2>1. Cardinality(T) = Cardinality(Groups)
    BY <1>4, <1>6, RankAssumption DEF Ranked
  <2> QED BY <2>1, <1>2, <1>3, FS_Subset
<1> QED BY <1>1, <1>3, <1>5, <1>6

\* Pushing an entry onto a ranking of TOP_N at most, and popping the last.
LEMMA PushedTypes ==
  ASSUME top \in SUBSET Names, group \in Names, group \notin top,
         Cardinality(top) <= TOP_N, Pushed
  PROVE  /\ top' \in SUBSET (top \cup {group})
         /\ Cardinality(top') <= TOP_N
         /\ top' # top \cup {group} => Cardinality(top') = TOP_N
         /\ Cardinality(top) = TOP_N => Cardinality(top') = TOP_N
<1>1. IsFiniteSet(top) /\ Cardinality(top) \in Nat
  BY PidAssumption, FS_Subset, FS_CardinalityType
<1>2. Cardinality(top \cup {group}) = Cardinality(top) + 1
  BY <1>1, FS_AddElement
<1>3. CASE Cardinality(top) < TOP_N /\ top' = top \cup {group}
  BY <1>1, <1>2, <1>3, RankAssumption
<1>4. CASE Cardinality(top) = TOP_N /\ UNCHANGED top
  BY <1>4
<1>5. ASSUME NEW last \in top, Cardinality(top) = TOP_N,
             top' = (top \ {last}) \cup {group}
      PROVE  Cardinality(top') = TOP_N /\ top' \in SUBSET (top \cup {group})
  <2>1. /\ IsFiniteSet(top \ {last})
        /\ Cardinality(top \ {last}) = Cardinality(top) - 1
    BY <1>1, FS_RemoveElement
  <2>2. Cardinality((top \ {last}) \cup {group})
          = Cardinality(top \ {last}) + 1
    BY <2>1, FS_AddElement
  <2> QED BY <1>1, <1>5, <2>1, <2>2
<1>6. CASE Cardinality(top) = TOP_N /\ \E last \in top :
             top' = (top \ {last}) \cup {group}
  BY <1>5, <1>6, RankAssumption
<1> QED BY <1>3, <1>4, <1>6 DEF Pushed

LEMMA TypeInit == Init => TypeOK
<1> SUFFICES ASSUME Init PROVE TypeOK
  OBVIOUS
<1>1. Cardinality(top) = 0
  BY FS_EmptySet DEF Init
<1>2. NameOf[OwnPid] \in Names
  BY PidAssumption
<1> QED BY <1>1, <1>2, RankAssumption DEF Init, TypeOK, Nowhere, Zero


LEMMA TypeStep == TypeOK /\ WalkInv /\ [Next]_vars => TypeOK'
<1> SUFFICES ASSUME TypeOK, WalkInv, [Next]_vars PROVE TypeOK'
  OBVIOUS
<1> USE PidAssumption, RankAssumption, FigureAssumption
    DEF TypeOK, memVars, cpuVars
<1>1. ASSUME NEW p \in Pids, Group(p) PROVE TypeOK'
  BY <1>1 DEF Group
<1>2. ASSUME NEW p \in Pids, ProbeRead(p) PROVE TypeOK'
  BY <1>2 DEF ProbeRead
<1>3. ASSUME NEW p \in Pids, ProbeExists(p) PROVE TypeOK'
  BY <1>3 DEF ProbeExists
<1>4. ASSUME NEW p \in Pids, ReadPss(p) PROVE TypeOK'
  BY <1>4 DEF ReadPss
<1>5. ASSUME NEW p \in Pids, Share(p) PROVE TypeOK'
  <2>1. CASE p \in Leaders
    <3>1. rep' \in [Names -> Pids \cup {0}]
      BY <1>5, <2>1 DEF Share, Leaders
    <3>2. busy' \in [Names -> Nat] /\ share' \in [Pids -> Nat]
      BY <1>5, <2>1 DEF Share, Leaders
    <3> QED BY <1>5, <3>1, <3>2 DEF Share
  <2>2. CASE p \notin Leaders
    BY <1>5, <2>2 DEF Share
  <2> QED BY <2>1, <2>2
<1>6. ASSUME NEW p \in Pids, Exit(p) PROVE TypeOK'
  BY <1>6 DEF Exit, Statuses
<1>7. CASE Grouped
  BY <1>7 DEF Grouped
<1>8. CASE ProbeExhausted
  BY <1>8 DEF ProbeExhausted
<1>9. CASE RankByRss
  BY <1>9, RankedTypes DEF RankByRss, Groups, Leaders
<1>10. CASE WalkStops
  BY <1>10 DEF WalkStops
<1>11. CASE Insert
  <2>1. group \notin top
    BY <1>11 DEF Insert, WalkInv
  <2>2. top' \in SUBSET Names /\ Cardinality(top') <= TOP_N
    BY <1>11, <2>1, PushedTypes DEF Insert
  <2> QED BY <1>11, <2>2 DEF Insert
<1>12. ASSUME NEW g \in Names, Take(g) PROVE TypeOK'
  BY <1>12 DEF Take, Members, Leaders
<1>13. CASE CpuBegins
  <2>1. Cardinality(top') = 0
    BY <1>13, FS_EmptySet DEF CpuBegins
  <2> QED BY <1>13, <2>1 DEF CpuBegins, Nowhere, Zero
<1>14. CASE RankByCpu
  BY <1>14, RankedTypes DEF RankByCpu
<1>15. CASE Rescan
  <2>1. Cardinality(top') = 0
    BY <1>15, FS_EmptySet DEF Rescan
  <2> QED BY <1>15, <2>1 DEF Rescan, Nowhere, Zero
<1>16. CASE UNCHANGED vars
  BY <1>16 DEF vars
<1> QED BY <1>1, <1>2, <1>3, <1>4, <1>5, <1>6, <1>7, <1>8, <1>9, <1>10, <1>11,
           <1>12, <1>13, <1>14, <1>15, <1>16 DEF Next

-----------------------------------------------------------------------------
(* The memory ranking *)

LEMMA WalkInit == Init => WalkInv
BY DEF Init, WalkInv, NothingLargerLeftOut, RankingIsFull

LEMMA WalkStep == TypeOK /\ WalkInv /\ [Next]_vars => WalkInv'
<1> SUFFICES ASSUME TypeOK, WalkInv, [Next]_vars PROVE WalkInv'
  OBVIOUS
<1> USE DEF WalkInv, NothingLargerLeftOut, RankingIsFull, memVars, cpuVars
<1>0. /\ \A name \in Names : rss[name] \in Nat /\ value[name] \in Nat
      /\ Groups \subseteq Names /\ TOP_N \in Nat
      /\ Cardinality(top) <= TOP_N
  BY PidAssumption, RankAssumption DEF TypeOK, Groups, Leaders
<1>1. ASSUME NEW p \in Pids, Group(p) PROVE WalkInv'
  BY <1>1 DEF Group
<1>2. ASSUME NEW p \in Pids, ProbeRead(p) PROVE WalkInv'
  BY <1>2 DEF ProbeRead
<1>3. ASSUME NEW p \in Pids, ProbeExists(p) PROVE WalkInv'
  BY <1>3 DEF ProbeExists
<1>4. ASSUME NEW p \in Pids, ReadPss(p) PROVE WalkInv'
  <2>1. \A g \in Names \ {group} : value'[g] = value[g]
    BY <1>4 DEF ReadPss, TypeOK
  <2>2. group \notin walked /\ top \subseteq walked /\ walked \subseteq Groups
    BY <1>4 DEF ReadPss
  <2> QED BY <1>0, <1>4, <2>1, <2>2 DEF ReadPss, Groups, Leaders
<1>5. ASSUME NEW p \in Pids, Share(p) PROVE WalkInv'
  BY <1>5 DEF Share
<1>6. ASSUME NEW p \in Pids, Exit(p) PROVE WalkInv'
  BY <1>6 DEF Exit, Observed, Groups, Leaders
<1>7. CASE Grouped
  BY <1>7 DEF Grouped
<1>8. CASE ProbeExhausted
  BY <1>8 DEF ProbeExhausted
<1>9. CASE RankByRss
  <2>1. /\ top' \subseteq Groups
        /\ Cardinality(top') < TOP_N => top' = Groups
    BY <1>9, RankedTypes DEF RankByRss, TypeOK
  <2>2. \A out \in Groups \ top', in \in top' : rss[out] <= rss[in]
    BY <1>9 DEF RankByRss, Ranked
  <2> QED BY <1>9, <2>1, <2>2 DEF RankByRss, Groups, Leaders
<1>10. CASE WalkStops
  <2>1. CASE Unwalked = {}
    BY <1>0, <1>10, <2>1 DEF WalkStops, Unwalked, Groups, Leaders
  <2>2. ASSUME NEW g \in Unwalked, NextEntry(g), Bound(g) PROVE WalkInv'
    <3>1. \A out \in Unwalked, in \in top : rss[out] <= value[in]
      <4> SUFFICES ASSUME NEW out \in Unwalked, NEW in \in top
                   PROVE  rss[out] <= value[in]
        OBVIOUS
      <4>1. rss[out] <= rss[g] /\ rss[g] <= value[in]
        BY <2>2 DEF NextEntry, Bound
      <4>2. /\ rss[out] \in Nat /\ rss[g] \in Nat
            /\ value[in] \in Nat
        BY <1>0 DEF Unwalked, TypeOK
      <4> QED BY <4>1, <4>2
    <3>2. Cardinality(top) = TOP_N
      BY <2>2 DEF Bound
    <3> QED BY <1>0, <1>10, <3>1, <3>2
            DEF WalkStops, Unwalked, Groups, Leaders
  <2> QED BY <1>10, <2>1, <2>2 DEF WalkStops
<1>11. CASE Insert
  <2>1. /\ top \subseteq walked /\ walked \subseteq Groups
        /\ walked # top => Cardinality(top) = TOP_N
        /\ \A out \in walked \ top, in \in top : value[out] <= value[in]
        /\ group \in Groups \ walked
    BY <1>11 DEF Insert
  <2>2. /\ top' \in SUBSET (top \cup {group})
        /\ top' # top \cup {group} => Cardinality(top') = TOP_N
        /\ Cardinality(top) = TOP_N => Cardinality(top') = TOP_N
    BY <1>11, <2>1, PushedTypes DEF Insert, TypeOK
  <2>3. walked' # top' => Cardinality(top') = TOP_N
    BY <1>0, <1>11, <2>1, <2>2 DEF Insert
  <2>4. \A out \in walked' \ top', in \in top' : value'[out] <= value'[in]
    <3>1. walked' = walked \cup {group} /\ value' = value
      BY <1>11 DEF Insert
    <3>2. CASE Cardinality(top) < TOP_N /\ top' = top \cup {group}
      BY <1>0, <2>1, <3>1, <3>2
    <3>3. CASE /\ \A h \in top : value[group] <= value[h]
               /\ UNCHANGED top
      BY <2>1, <3>1, <3>3
    <3>4. ASSUME NEW last \in top, value[last] < value[group],
                 \A h \in top : value[last] <= value[h],
                 top' = (top \ {last}) \cup {group}
          PROVE  \A out \in walked' \ top', in \in top' :
                   value'[out] <= value'[in]
      <4> SUFFICES ASSUME NEW out \in walked' \ top', NEW in \in top'
                   PROVE  value[out] <= value[in]
        BY <3>1
      <4>1. /\ value[out] \in Nat /\ value[in] \in Nat
            /\ value[last] \in Nat /\ value[group] \in Nat
        BY <1>0, <2>1, <3>1, <3>4
      <4>2. value[out] <= value[last]
        BY <2>1, <3>1, <3>4, <4>1
      <4>3. value[last] <= value[in]
        BY <3>4, <4>1
      <4> QED BY <4>1, <4>2, <4>3
    <3> QED BY <1>11, <3>2, <3>3, <3>4 DEF Insert, Pushed
  <2> QED BY <1>11, <2>1, <2>2, <2>3, <2>4 DEF Insert, Groups, Leaders
<1>12. ASSUME NEW g \in Names, Take(g) PROVE WalkInv'
  <2>1. g \in Groups \ walked
    BY <1>12 DEF Take, NextEntry, Unwalked
  <2>2. \A h \in Names \ {g} : value'[h] = value[h]
    BY <1>12 DEF Take, TypeOK
  <2>3. top \subseteq walked /\ walked \subseteq Groups
    BY <1>12 DEF Take
  <2> QED BY <1>0, <1>12, <2>1, <2>2, <2>3 DEF Take, Groups, Leaders
<1>13. CASE CpuBegins
  BY <1>13 DEF CpuBegins
<1>14. CASE RankByCpu
  BY <1>14 DEF RankByCpu
<1>15. CASE Rescan
  BY <1>15 DEF Rescan
<1>16. CASE UNCHANGED vars
  BY <1>16 DEF vars, Groups, Leaders
<1> QED BY <1>1, <1>2, <1>3, <1>4, <1>5, <1>6, <1>7, <1>8, <1>9, <1>10, <1>11,
           <1>12, <1>13, <1>14, <1>15, <1>16 DEF Next

LEMMA WalkInvariance == Spec => [](TypeOK /\ WalkInv)
BY TypeInit, TypeStep, WalkInit, WalkStep, PTL DEF Spec

\* Every variable keeps its type, and no ranking is longer than TOP_N.
THEOREM TypeCorrect == Spec => []TypeOK
BY WalkInvariance, PTL

\* The streaming loop of collect_top is exact: no entry it left out, read or
\* unread, is worth more than one it ranked, given PSS <= RSS.
THEOREM StreamedRankingIsExact == Spec => []NothingLargerLeftOut
<1>1. TypeOK /\ WalkInv => NothingLargerLeftOut
  BY DEF WalkInv
<1> QED BY <1>1, WalkInvariance, PTL

\* The loop stops early with a full ranking only.
THEOREM StreamedRankingIsFull == Spec => []RankingIsFull
<1>1. TypeOK /\ WalkInv => RankingIsFull
  BY DEF WalkInv
<1> QED BY <1>1, WalkInvariance, PTL

\* Figures for the entries that agree with every read that was made, and with
\* PSS <= RSS for those that were not: what reading them all could have given.
Admissible(f) == /\ f \in [Names -> Nat]
                 /\ \A g \in walked : f[g] = value[g]
                 /\ \A g \in Unwalked : f[g] <= rss[g]

\* The early stop changes nothing: the ranking of the streaming loop is one that
\* sorting and truncating gives, whatever the unread figures would have been.
EarlyStopIsExact ==
  pc = "ranked" => \A f : Admissible(f) => top \in Ranked(f)

\* A ranking within Groups that is full, and no longer than TOP_N, has the
\* length of a truncated sort.
LEMMA FullLength ==
  ASSUME TypeOK, RankingIsFull, pc = "ranked"
  PROVE  Cardinality(top) = IF Cardinality(Groups) < TOP_N
                              THEN Cardinality(Groups) ELSE TOP_N
<1>1. IsFiniteSet(Groups) /\ Cardinality(Groups) \in Nat
  BY PidAssumption, FS_Subset, FS_CardinalityType
     DEF TypeOK, Groups, Leaders
<1>2. /\ top \subseteq Groups
      /\ Cardinality(top) < TOP_N => top = Groups
  BY DEF RankingIsFull
<1>3. /\ Cardinality(top) \in Nat
      /\ Cardinality(top) <= Cardinality(Groups)
  BY <1>1, <1>2, FS_Subset, FS_CardinalityType
<1> QED BY <1>1, <1>2, <1>3, RankAssumption DEF TypeOK

\* EarlyStopIsExact, for every figures admitted: collect_top returns a correct
\* ranking by PSS though it reads only the entries it has to.
THEOREM EarlyStopLosesNothing == Spec => []EarlyStopIsExact
<1>1. TypeOK /\ WalkInv => EarlyStopIsExact
  <2> SUFFICES ASSUME TypeOK, WalkInv, pc = "ranked", NEW f, Admissible(f)
               PROVE  top \in Ranked(f)
    BY DEF EarlyStopIsExact
  <2>1. top \subseteq walked /\ RankingIsFull /\ NothingLargerLeftOut
    BY DEF WalkInv
  <2>2. Groups \subseteq Names
    BY PidAssumption DEF TypeOK, Groups, Leaders
  <2>3. ASSUME NEW in \in top, NEW out \in Groups \ top
        PROVE  f[out] <= f[in]
    <3>1. f[in] = value[in] /\ f[in] \in Nat /\ f[out] \in Nat
      BY <2>1, <2>2 DEF Admissible, TypeOK
    <3>2. CASE out \in walked
      BY <2>1, <3>1, <3>2 DEF Admissible, NothingLargerLeftOut
    <3>3. CASE out \in Unwalked
      <4>1. f[out] <= rss[out] /\ rss[out] <= value[in]
        BY <2>1, <3>3 DEF Admissible, NothingLargerLeftOut, Unwalked
      <4>2. rss[out] \in Nat
        BY <2>2 DEF TypeOK
      <4> QED BY <3>1, <4>1, <4>2
    <3> QED BY <3>2, <3>3 DEF Unwalked
  <2>4. Cardinality(top) = IF Cardinality(Groups) < TOP_N
                             THEN Cardinality(Groups) ELSE TOP_N
    BY <2>1, FullLength
  <2> QED BY <2>1, <2>3, <2>4 DEF Ranked, RankingIsFull
<1> QED BY <1>1, WalkInvariance, PTL

-----------------------------------------------------------------------------
(* The CPU ranking *)

LEMMA RepInit == Init => RepInv /\ FreshInv
BY DEF Init, RepInv, FreshInv

LEMMA RepStep ==
  TypeOK /\ RepInv /\ FreshInv /\ [Next]_vars => RepInv' /\ FreshInv'
<1> SUFFICES ASSUME TypeOK, RepInv, FreshInv, [Next]_vars
             PROVE  RepInv' /\ FreshInv'
  OBVIOUS
<1> USE DEF FreshInv, memVars, cpuVars
<1>1. ASSUME NEW p \in Pids,
             Group(p) \/ ProbeRead(p) \/ ProbeExists(p) \/ ReadPss(p)
      PROVE  RepInv' /\ FreshInv'
  BY <1>1 DEF Group, ProbeRead, ProbeExists, ReadPss, RepInv
<1>2. ASSUME NEW p \in Pids, Exit(p) PROVE RepInv' /\ FreshInv'
  BY <1>2 DEF Exit, Observed, RepInv
<1>3. ASSUME NEW p \in Pids, Share(p) PROVE RepInv' /\ FreshInv'
  <2>1. pc = "cpu" /\ pc' = "cpu" /\ p \in left /\ left' = left \ {p}
        /\ listed' = listed
    BY <1>3 DEF Share
  <2>2. CASE p \notin Leaders
    <3>1. UNCHANGED <<share, busy, rep>>
      BY <1>3, <2>2 DEF Share
    <3> QED BY <2>1, <2>2, <3>1 DEF RepInv, Members, Groups, Leaders
  <2>3. CASE p \in Leaders
    <3>1. PICK cpu \in Shares :
            /\ share' = [share EXCEPT ![p] = cpu]
            /\ busy' = [busy EXCEPT ![NameOf[p]] = @ + cpu]
            /\ rep' = IF Represents(NameOf[p], cpu)
                        THEN [rep EXCEPT ![NameOf[p]] = p] ELSE rep
      BY <1>3, <2>3 DEF Share
    <3>2. SUFFICES ASSUME NEW g \in Groups
                   PROVE  /\ rep'[g] = 0 => /\ busy'[g] = 0
                                            /\ Members(g) \subseteq left'
                          /\ rep'[g] # 0 => rep'[g] \in Members(g) \ left'
                          /\ busy'[g] > 0 => share'[rep'[g]] > 0
      BY <2>1 DEF RepInv, Members, Groups, Leaders
    <3>3. /\ rep[g] = 0 => busy[g] = 0 /\ Members(g) \subseteq left
          /\ rep[g] # 0 => rep[g] \in Members(g) \ left
          /\ busy[g] > 0 => share[rep[g]] > 0
      BY <2>1 DEF RepInv
    <3>4. /\ g \in Names /\ NameOf[p] \in Names /\ p # 0
          /\ cpu \in Nat /\ busy[g] \in Nat
      BY PidAssumption, FigureAssumption DEF TypeOK, Groups, Leaders
    <3>5. CASE NameOf[p] # g
      <4>1. rep'[g] = rep[g] /\ busy'[g] = busy[g]
        BY <3>1, <3>4, <3>5 DEF TypeOK
      <4>2. p \notin Members(g)
        BY <3>5 DEF Members
      <4>3. rep[g] # 0 => share'[rep[g]] = share[rep[g]]
        BY <3>1, <3>3, <4>2, <2>1 DEF TypeOK
      <4> QED BY <2>1, <3>3, <3>4, <4>1, <4>2, <4>3
    <3>6. CASE NameOf[p] = g /\ Represents(g, cpu)
      <4>1. rep'[g] = p /\ busy'[g] = busy[g] + cpu /\ share'[p] = cpu
        BY <3>1, <3>4, <3>6 DEF TypeOK
      <4>2. p \in Members(g)
        BY <2>3, <3>6 DEF Members
      <4>3. busy'[g] > 0 => cpu > 0
        BY <3>3, <3>4, <3>6, <4>1 DEF Represents
      <4> QED BY <2>1, <3>4, <4>1, <4>2, <4>3
    <3>7. CASE NameOf[p] = g /\ ~Represents(g, cpu)
      <4>1. rep[g] # 0 /\ cpu = 0
        BY <3>4, <3>7 DEF Represents
      <4>2. rep'[g] = rep[g] /\ busy'[g] = busy[g] + cpu
        BY <3>1, <3>4, <3>7 DEF TypeOK
      <4>3. rep[g] # p
        BY <2>1, <3>3, <4>1
      <4>4. share'[rep[g]] = share[rep[g]]
        BY <3>1, <3>3, <4>1, <4>3 DEF TypeOK, Members, Leaders
      <4> QED BY <2>1, <3>3, <3>4, <4>1, <4>2, <4>4
    <3> QED BY <3>5, <3>6, <3>7
  <2> QED BY <2>2, <2>3
<1>4. ASSUME NEW g \in Names, Take(g) PROVE RepInv' /\ FreshInv'
  BY <1>4 DEF Take, RepInv
<1>5. CASE Grouped \/ ProbeExhausted \/ RankByRss \/ WalkStops \/ Insert
  BY <1>5 DEF Grouped, ProbeExhausted, RankByRss, WalkStops, Insert, RepInv
<1>6. CASE CpuBegins
  <2>1. /\ share' = Nowhere /\ busy' = Zero /\ rep' = Zero
        /\ left' = listed /\ listed' = listed /\ pc' = "cpu"
    BY <1>6 DEF CpuBegins
  <2>2. \A g \in Groups : g \in Names /\ Members(g) \subseteq listed
    BY PidAssumption DEF TypeOK, Groups, Members, Leaders
  <2> QED BY <2>1, <2>2 DEF RepInv, Zero, Groups, Members, Leaders
<1>7. CASE RankByCpu
  BY <1>7 DEF RankByCpu, RepInv, Members, Groups, Leaders
<1>8. CASE Rescan
  BY <1>8 DEF Rescan, RepInv
<1>9. CASE UNCHANGED vars
  BY <1>9 DEF vars, RepInv, Members, Groups, Leaders
<1> QED BY <1>1, <1>2, <1>3, <1>4, <1>5, <1>6, <1>7, <1>8, <1>9 DEF Next

\* The pid shown with a CPU entry is a process of that entry which used the
\* CPU, if any of them did.
THEOREM RepresentativesAreBusy == Spec => []RepresentativeIsBusy
<1>1. TypeOK /\ RepInv /\ FreshInv => RepresentativeIsBusy
  <2> SUFFICES ASSUME TypeOK, RepInv, FreshInv, pc = "done",
                      NEW g \in Groups
               PROVE  /\ rep[g] \in Members(g)
                      /\ busy[g] > 0 => share[rep[g]] > 0
    BY DEF RepresentativeIsBusy
  <2>1. Members(g) # {}
    BY DEF Groups, Members
  <2> QED BY <2>1 DEF RepInv, FreshInv
<1> QED BY <1>1, RepInit, RepStep, TypeCorrect, PTL DEF Spec
=============================================================================
