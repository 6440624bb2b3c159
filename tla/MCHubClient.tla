----------------------------- MODULE MCHubClient -----------------------------
(***************************************************************************)
(* HubClient as TLC checks it, with the delays of the source.              *)
(***************************************************************************)
EXTENDS HubClient
=============================================================================
