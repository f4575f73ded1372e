---------------------------- MODULE MCPageCache ----------------------------
(* PageCache for TLC. *)
EXTENDS PageCache, TLC

=============================================================================
