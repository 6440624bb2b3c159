----------------------------- MODULE MCLifecycle -----------------------------
(***************************************************************************)
(* Lifecycle as TLC checks it: two connections, so that one drains while   *)
(* the other is accepted or upgraded, and two signals.                     *)
(***************************************************************************)
EXTENDS Lifecycle
=============================================================================
