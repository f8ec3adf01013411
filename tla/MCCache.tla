------------------------------- MODULE MCCache -------------------------------
(* Three callers on two keys, so that two callers share a key while a     *)
(* third asks for a different one.                                        *)
EXTENDS Cache
=============================================================================
