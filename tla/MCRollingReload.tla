-------------------------- MODULE MCRollingReload --------------------------
(* RollingReload for TLC: the reloads, departures and failures of a behaviour. *)
EXTENDS RollingReload, TLC

AvailableBudgets ==
  {[gui |-> 1, gizer |-> 0, leave |-> 1], [gui |-> 2, gizer |-> 0, leave |-> 0]}

ConvergesBudgets == {[gui |-> 2, gizer |-> 1, leave |-> 1]}

\* The administrators' own loads, or those that events ask for.
AvailableFailing == Admins \X {Gui}

ConvergesFailing == Nodes \X Handlers

=============================================================================
