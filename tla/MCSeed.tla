--------------------------------- MODULE MCSeed ---------------------------------
(***************************************************************************)
(* One run of the seed script on a devnet where k2 may become the admin:   *)
(* its control flow, and the script as it stands.                          *)
(***************************************************************************)
EXTENDS MCMaxim, SeedScript

VARIABLE as_it_stands   \* whether a behaviour is one of WireSpec or of SeedSpec

SeededPolicies == {SeededPolicy}

EitherInit == SeedInit /\ as_it_stands \in BOOLEAN

EitherNext ==
  \/ as_it_stands /\ WireNext /\ UNCHANGED as_it_stands
  \/ ~as_it_stands /\ SeedNext /\ UNCHANGED as_it_stands

StandingInit == EitherInit /\ as_it_stands

EitherSpec == EitherInit /\ [][EitherNext]_<<seedVars, as_it_stands>> /\ WF_seedVars(Script)

StandingSpec == StandingInit /\ [][EitherNext]_<<seedVars, as_it_stands>> /\ WF_seedVars(Script)

(***************************************************************************)
(* Of the script as it stands, and not of its control flow alone:          *)
(* the program reads no set_spend_policy, and main ends before it has set  *)
(* up an agent.                                                            *)
(***************************************************************************)
StopsAsItStands == as_it_stands => StopsAtFirstPolicy
=============================================================================
