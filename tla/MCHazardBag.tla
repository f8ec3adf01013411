---------------------------- MODULE MCHazardBag ----------------------------
(* HazardBag on two threads, three slot addresses and two pointer values. *)
EXTENDS HazardBag
=============================================================================
