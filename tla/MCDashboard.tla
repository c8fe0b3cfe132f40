------------------------------ MODULE MCDashboard ------------------------------
(***************************************************************************)
(* The whole life of an agent, with the events it leaves behind.           *)
(***************************************************************************)
EXTENDS MCMaxim, Dashboard

\* No limits, and a limit that refuses payments of 2
TwoPolicies ==
  {NoLimits, [NoLimits EXCEPT !.high_value_threshold = 2, !.per_call_limit = 1]}
=============================================================================
