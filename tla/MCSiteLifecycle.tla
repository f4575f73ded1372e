-------------------------- MODULE MCSiteLifecycle --------------------------
(* SiteLifecycle for TLC: request threads are interchangeable. *)
EXTENDS SiteLifecycle, TLC

RequestSymmetry == Permutations(Requests)

=============================================================================
