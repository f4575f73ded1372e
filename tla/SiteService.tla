---------------------------- MODULE SiteService ----------------------------
(***************************************************************************)
(* What the users of a site see of its reloads: at most one generation     *)
(* serves at a time, a generation goes up once and never comes back, and a *)
(* request is begun only by the generation that serves.  SiteLifecycle     *)
(* implements it as long as loads are synchronized, whoever stops the site *)
(* meanwhile.                                                              *)
(***************************************************************************)
CONSTANTS Requests, Generations, Nobody

VARIABLES
  serving,  \* the generation that serves, or Nobody
  fresh,    \* the generations that may still go up
  at        \* the generation that handles a request, or Nobody

serviceVars == <<serving, fresh, at>>

ServiceInit ==
  /\ serving \in Generations \cup {Nobody}
  /\ fresh \in SUBSET (Generations \ {serving})
  /\ at = [r \in Requests |-> Nobody]

GoUp(g) ==
  /\ serving = Nobody
  /\ g \in fresh
  /\ serving' = g
  /\ fresh' = fresh \ {g}
  /\ UNCHANGED at

GoDown ==
  /\ serving # Nobody
  /\ serving' = Nobody
  /\ UNCHANGED <<fresh, at>>

\* A load fails for good.
Discard(g) ==
  /\ g \in fresh
  /\ fresh' = fresh \ {g}
  /\ UNCHANGED <<serving, at>>

BeginRequest(r) ==
  /\ serving # Nobody
  /\ at[r] = Nobody
  /\ at' = [at EXCEPT ![r] = serving]
  /\ UNCHANGED <<serving, fresh>>

EndRequest(r) ==
  /\ at[r] # Nobody
  /\ at' = [at EXCEPT ![r] = Nobody]
  /\ UNCHANGED <<serving, fresh>>

ServiceNext ==
  \/ GoDown
  \/ \E g \in Generations : GoUp(g) \/ Discard(g)
  \/ \E r \in Requests : BeginRequest(r) \/ EndRequest(r)

ServiceSpec == ServiceInit /\ [][ServiceNext]_serviceVars

=============================================================================
