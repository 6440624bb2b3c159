------------------------------ MODULE MCSampler ------------------------------
(***************************************************************************)
(* Sampler as TLC checks it.  The cadences are scaled down so that both    *)
(* come due several times, at different ticks, and the counter wraps       *)
(* between two scans.                                                      *)
(***************************************************************************)
EXTENDS Sampler

\* A serving process publishes a newer snapshot in the end, unless a rebuild
\* panicked as well, or the bound on refreshes may be used up by the panics
\* still allowed.
NeverSilent ==
  \A v \in Versions :
    (life = "running" /\ snap.ver = v
                      /\ clock + (MaxPanics - panics) < MaxRefreshes)
      ~> (snap.ver > v \/ life # "running" \/ task = "panicked")
=============================================================================
