---------------------------- MODULE MCProcessTop ----------------------------
(* Four processes under three names and a thread; two entries are ranked. *)
EXTENDS ProcessTop, TLC

MCNameOf == 1 :> "a" @@ 2 :> "a" @@ 3 :> "b" @@ 4 :> "c" @@ 5 :> "c"
=============================================================================
