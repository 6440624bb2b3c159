---------------------------- MODULE SnapshotCell ----------------------------
(***************************************************************************)
(* What the sampler promises its readers, and nothing of how it does it:   *)
(* one cell that is written as a whole and read as a whole.  The handlers  *)
(* of GET /system, GET /network, the WebSocket push loop and the hub       *)
(* client read four different slots; to them the four are this one cell.   *)
(***************************************************************************)
EXTENDS Integers

VARIABLES
  cur,    \* version of the snapshot in the cell, 0 before the first one
  seen,   \* version handed to the latest reader, NoRead if there was none
  open    \* TRUE while the process serves and samples

vars == <<cur, seen, open>>

NoRead == -1

Init == cur = 0 /\ seen = NoRead /\ open = TRUE

\* A new snapshot replaces the one in the cell; versions only grow.
Publish == /\ open
           /\ cur' \in Nat
           /\ cur' > cur
           /\ UNCHANGED <<seen, open>>

\* A reader gets the snapshot in the cell, never the placeholder.
Read == /\ open
        /\ cur # 0
        /\ seen' = cur
        /\ UNCHANGED <<cur, open>>

\* The process stops or dies: the cell is never written or read again.
Close == /\ open
         /\ open' = FALSE
         /\ UNCHANGED <<cur, seen>>

Next == Publish \/ Read \/ Close

Spec == Init /\ [][Next]_vars
=============================================================================
