----------------------------- MODULE ProcessTop -----------------------------
(***************************************************************************)
(* src/metrics/process.rs: the two rankings of one process scan, and the   *)
(* probe that decides once whether memory is ranked by PSS or by RSS.      *)
(*                                                                         *)
(* The scan's figures are as old as the scan, while smaps_rollup is read   *)
(* from processes that run on, grow and exit.  What a scan or a read gives *)
(* is chosen when the code first uses it.  Process maps are HashMaps, so   *)
(* loops over them run in any order, and ties in a ranking break any way;  *)
(* a ranking is therefore the set of its entries.                          *)
(***************************************************************************)
EXTENDS Integers, FiniteSets

CONSTANTS
  Pids,        \* process and thread ids
  Threads,     \* those of threads, which sysinfo lists as well
  OwnPid,      \* the collector's own
  Names,       \* display names
  NameOf,      \* the display name of each pid
  TOP_N,       \* length of a ranking
  Mem,         \* RSS and PSS figures explored
  Shares       \* CPU shares explored

ASSUME PidAssumption == /\ IsFiniteSet(Pids) /\ IsFiniteSet(Names)
                        /\ Pids \subseteq Nat \ {0}
                        /\ Threads \subseteq Pids
                        /\ OwnPid \in Pids \ Threads
                        /\ NameOf \in [Pids -> Names]
ASSUME RankAssumption == TOP_N \in Nat \ {0}
ASSUME FigureAssumption == Mem \subseteq Nat /\ Shares \subseteq Nat

VARIABLES
  pc,         \* where the scan is
  proc,       \* the processes themselves
  listed,     \* the pids sysinfo found in this scan
  supported,  \* PSS_SUPPORTED: unset, pss or rss
  left,       \* pids the current loop has not come to
  mem,        \* the RSS the scan gave for each pid
  rss,        \* by name: mem_mb of the first pass
  value,      \* by name: mem_mb of the second pass
  group,      \* the entry group_pss_mb is summing
  walked,     \* the entries the streaming loop has taken
  top,        \* the entries ranked so far
  share,      \* the CPU share the scan gave for each pid
  busy,       \* by name: cpu_pct
  rep         \* by name: the representative pid, 0 for none

memVars == <<mem, rss, value, group, walked, top>>
cpuVars == <<share, busy, rep>>
vars == <<pc, proc, listed, supported, left, memVars, cpuVars>>

Statuses == {"readable", "denied", "zombie", "gone"}

Leaders == listed \ Threads
Groups == {NameOf[p] : p \in Leaders}
Members(name) == {p \in Leaders : NameOf[p] = name}

Nowhere == [p \in Pids |-> 0]
Zero == [name \in Names |-> 0]

\* The entries that sorting by f and truncating may leave.
Ranked(f) == {T \in SUBSET Groups :
                /\ Cardinality(T) = IF Cardinality(Groups) < TOP_N
                                      THEN Cardinality(Groups) ELSE TOP_N
                /\ \A in \in T, out \in Groups \ T : f[out] <= f[in]}

Init == /\ pc = "group"
        /\ proc \in [Pids -> Statuses] /\ proc[OwnPid] = "readable"
        /\ listed = {p \in Pids : proc[p] # "gone"}
        /\ left = listed
        /\ supported = "unset"
        /\ mem = Nowhere /\ rss = Zero /\ value = Zero
        /\ group = NameOf[OwnPid] /\ walked = {} /\ top = {}
        /\ share = Nowhere /\ busy = Zero /\ rep = Zero

-----------------------------------------------------------------------------
(* collect_top: the first pass *)

Group(p) == /\ pc = "group"
            /\ p \in left
            /\ left' = left \ {p}
            /\ \/ p \in Leaders
                  /\ \E kb \in Mem :
                       /\ mem' = [mem EXCEPT ![p] = kb]
                       /\ rss' = [rss EXCEPT ![NameOf[p]] = @ + kb]
               \/ p \notin Leaders /\ UNCHANGED <<mem, rss>>
            /\ UNCHANGED <<pc, proc, listed, supported, value, group, walked,
                           top, cpuVars>>

Grouped == /\ pc = "group"
           /\ left = {}
           /\ pc' = IF supported = "unset" THEN "probe" ELSE "walk"
           /\ left' = listed \ {OwnPid}
           /\ UNCHANGED <<proc, listed, supported, memVars, cpuVars>>

-----------------------------------------------------------------------------
(* detect_pss: foreign pids in ascending order *)

Lowest(p) == p \in left /\ \A q \in left : p <= q

ProbeRead(p) == /\ pc = "probe"
                /\ Lowest(p)
                /\ \/ /\ proc[p] = "readable"
                      /\ supported' = "pss" /\ pc' = "walk"
                   \/ /\ proc[p] # "readable"
                      /\ pc' = "exists" /\ UNCHANGED supported
                /\ UNCHANGED <<proc, listed, left, memVars, cpuVars>>

\* The read failed: is the process there and denies it, or has it exited?
ProbeExists(p) == /\ pc = "exists"
                  /\ Lowest(p)
                  /\ \/ /\ proc[p] # "gone"
                        /\ supported' = "rss" /\ pc' = "walk"
                        /\ UNCHANGED left
                     \/ /\ proc[p] = "gone"
                        /\ left' = left \ {p} /\ pc' = "probe"
                        /\ UNCHANGED supported
                  /\ UNCHANGED <<proc, listed, memVars, cpuVars>>

ProbeExhausted == /\ pc = "probe"
                  /\ left = {}
                  /\ supported' = "rss"
                  /\ pc' = "walk"
                  /\ UNCHANGED <<proc, listed, left, memVars, cpuVars>>

-----------------------------------------------------------------------------
(* collect_top: the ranking *)

RankByRss == /\ pc = "walk"
             /\ supported = "rss"
             /\ top' \in Ranked(rss)
             /\ value' = rss
             /\ walked' = Groups
             /\ pc' = "ranked"
             /\ UNCHANGED <<proc, listed, supported, left, mem, rss, group,
                            cpuVars>>

Unwalked == Groups \ walked
NextEntry(g) == g \in Unwalked /\ \A h \in Unwalked : rss[h] <= rss[g]

\* Mutant: the bound is compared with the largest entry of the ranking.
BoundAgainstFirst(g) == /\ Cardinality(top) = TOP_N
                        /\ \E h \in top : rss[g] <= value[h]

\* Mutant: the ranking need not be full for the walk to stop.
BoundWhenShort(g) == top # {} /\ \A h \in top : rss[g] <= value[h]

\* The RSS of the next entry does not exceed the smallest PSS ranked.
Bound(g) == /\ Cardinality(top) = TOP_N
            /\ \A h \in top : rss[g] <= value[h]

WalkStops == /\ pc = "walk"
             /\ supported = "pss"
             /\ Unwalked = {} \/ \E g \in Unwalked : NextEntry(g) /\ Bound(g)
             /\ pc' = "ranked"
             /\ UNCHANGED <<proc, listed, supported, left, memVars, cpuVars>>

Take(g) == /\ pc = "walk"
           /\ supported = "pss"
           /\ NextEntry(g)
           /\ ~Bound(g)
           /\ group' = g
           /\ value' = [value EXCEPT ![g] = 0]
           /\ left' = Members(g)
           /\ pc' = "read"
           /\ UNCHANGED <<proc, listed, supported, mem, rss, walked, top,
                          cpuVars>>

\* group_pss_mb: a process that cannot be read counts with its RSS.
ReadPss(p) == /\ pc = "read"
              /\ p \in left
              /\ left' = left \ {p}
              /\ \E kb \in Mem :
                   /\ proc[p] # "readable" => kb = mem[p]
                   /\ value' = [value EXCEPT ![group] = @ + kb]
              /\ UNCHANGED <<pc, proc, listed, supported, mem, rss, group,
                             walked, top, cpuVars>>

\* Mutant: the entry is pushed and nothing is popped.
PushedOnly == top' = top \cup {group}

\* Push, stable sort, pop: among equals the one pushed last goes first.
Pushed ==
  \/ Cardinality(top) < TOP_N /\ top' = top \cup {group}
  \/ /\ Cardinality(top) = TOP_N
     /\ \A h \in top : value[group] <= value[h]
     /\ UNCHANGED top
  \/ /\ Cardinality(top) = TOP_N
     /\ \E last \in top : /\ value[last] < value[group]
                          /\ \A h \in top : value[last] <= value[h]
                          /\ top' = (top \ {last}) \cup {group}

Insert == /\ pc = "read"
          /\ left = {}
          /\ Pushed
          /\ walked' = walked \cup {group}
          /\ pc' = "walk"
          /\ UNCHANGED <<proc, listed, supported, left, mem, rss, value, group,
                         cpuVars>>

-----------------------------------------------------------------------------
(* collect_top_cpu *)

\* The first ranking is returned and its locals are gone.
CpuBegins == /\ pc = "ranked"
             /\ mem' = Nowhere /\ rss' = Zero /\ value' = Zero
             /\ walked' = {} /\ top' = {}
             /\ left' = listed
             /\ pc' = "cpu"
             /\ UNCHANGED <<proc, listed, supported, group, cpuVars>>

\* Mutant: every process replaces the one before it.
RepresentsAlways(name, cpu) == TRUE

Represents(name, cpu) == rep[name] = 0 \/ cpu > 0

Share(p) == /\ pc = "cpu"
            /\ p \in left
            /\ left' = left \ {p}
            /\ \/ /\ p \in Leaders
                  /\ \E cpu \in Shares :
                       /\ share' = [share EXCEPT ![p] = cpu]
                       /\ busy' = [busy EXCEPT ![NameOf[p]] = @ + cpu]
                       /\ rep' = IF Represents(NameOf[p], cpu)
                                   THEN [rep EXCEPT ![NameOf[p]] = p] ELSE rep
               \/ p \notin Leaders /\ UNCHANGED cpuVars
            /\ UNCHANGED <<pc, proc, listed, supported, memVars>>

RankByCpu == /\ pc = "cpu"
             /\ left = {}
             /\ top' \in Ranked(busy)
             /\ pc' = "done"
             /\ UNCHANGED <<proc, listed, supported, left, mem, rss, value,
                            group, walked, cpuVars>>

-----------------------------------------------------------------------------
(* The processes, and the next scan *)

\* Only the probe and the PSS reads look at a process again after the scan.
Observed == pc \in {"probe", "exists", "walk", "read"}

Exit(p) == /\ Observed
           /\ p # OwnPid
           /\ \/ proc[p] \in {"readable", "denied"}
                 /\ proc' = [proc EXCEPT ![p] = "zombie"]
              \/ proc[p] = "zombie" /\ proc' = [proc EXCEPT ![p] = "gone"]
           /\ UNCHANGED <<pc, listed, supported, left, memVars, cpuVars>>

\* A later tick refreshes the process list and ranks it anew.
Rescan == /\ pc = "done"
          /\ pc' = "group"
          /\ proc' \in [Pids -> Statuses] /\ proc'[OwnPid] = "readable"
          /\ listed' = {p \in Pids : proc'[p] # "gone"}
          /\ left' = listed'
          /\ top' = {}
          /\ share' = Nowhere /\ busy' = Zero /\ rep' = Zero
          /\ UNCHANGED <<supported, mem, rss, value, group, walked>>

Next == \/ \E p \in Pids : \/ Group(p) \/ ProbeRead(p) \/ ProbeExists(p)
                           \/ ReadPss(p) \/ Share(p) \/ Exit(p)
        \/ Grouped \/ ProbeExhausted
        \/ RankByRss \/ WalkStops \/ Insert
        \/ \E g \in Names : Take(g)
        \/ CpuBegins \/ RankByCpu \/ Rescan

Spec == Init /\ [][Next]_vars

-----------------------------------------------------------------------------
(* Properties *)

\* Every variable has its type, and a ranking has TOP_N entries at most.
TypeOK == /\ pc \in {"group", "probe", "exists", "walk", "read", "ranked",
                     "cpu", "done"}
          /\ proc \in [Pids -> Statuses]
          /\ listed \in SUBSET Pids
          /\ supported \in {"unset", "pss", "rss"}
          /\ left \in SUBSET Pids
          /\ mem \in [Pids -> Nat] /\ share \in [Pids -> Nat]
          /\ rss \in [Names -> Nat] /\ value \in [Names -> Nat]
          /\ busy \in [Names -> Nat]
          /\ rep \in [Names -> Pids \cup {0}]
          /\ group \in Names
          /\ walked \in SUBSET Names
          /\ top \in SUBSET Names /\ Cardinality(top) <= TOP_N

\* The memory ranking is exact although most processes are never read: an
\* entry that was read and left out is no larger than any that is in, and one
\* that was not read could not be, as its RSS is no larger and PSS <= RSS.
NothingLargerLeftOut ==
  pc = "ranked" =>
    \A out \in Groups \ top, in \in top :
      (IF out \in walked THEN value[out] ELSE rss[out]) <= value[in]

\* The early stop never leaves the ranking short of entries it could have.
RankingIsFull ==
  pc = "ranked" => /\ top \subseteq Groups
                   /\ Cardinality(top) < TOP_N => top = Groups

\* The process a CPU entry points at is one that used the CPU, if any did, and
\* is a member of the entry in this scan.
RepresentativeIsBusy ==
  pc = "done" => \A g \in Groups : /\ rep[g] \in Members(g)
                                   /\ busy[g] > 0 => share[rep[g]] > 0

\* The representative of a CPU entry is its busiest process, as the comment at
\* process.rs:265 has it.
RepresentativeIsBusiest ==
  pc = "done" => \A g \in Groups : \A p \in Members(g) :
                   share[p] <= share[rep[g]]
=============================================================================
