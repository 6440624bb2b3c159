------------------------------- MODULE MCProbes -------------------------------
(***************************************************************************)
(* Probes as TLC checks it: settings with an ordinary timeout, with one    *)
(* that is clamped, and with one beyond any Duration.                      *)
(***************************************************************************)
EXTENDS Probes, TLC

CONSTANTS ordinary, negative, huge, typo, p1, p2

MCProbesOf == "defaults" :> {p1, p2} @@ ordinary :> {p1, p2}
                @@ negative :> {p1} @@ huge :> {}
MCTimeoutOf == "defaults" :> 2 @@ ordinary :> 3 @@ negative :> -1 @@ huge :> 4
=============================================================================
