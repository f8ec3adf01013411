------------------------- MODULE MCSplitOrderedList -------------------------
(* SplitOrderedList on a 4-bit usize: keys 0..7, bucket counts 2, 4, 8.  *)
(* The map starts empty, or holding PreKeys (four keys of bucket 1), so   *)
(* that the next insert doubles the size and a later call initialises a   *)
(* new bucket from its parent.                                            *)
EXTENDS SplitOrderedList

=============================================================================
