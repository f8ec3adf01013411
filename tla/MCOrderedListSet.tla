------------------------- MODULE MCOrderedListSet -------------------------
(* OrderedListSet instantiated for TLC: the constants come from the cfg.  *)
EXTENDS OrderedListSet
=============================================================================
