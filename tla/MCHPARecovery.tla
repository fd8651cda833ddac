--------------------------- MODULE MCHPARecovery ----------------------------
(* Instances of HPARecovery for TLC. *)
EXTENDS HPARecovery

CONSTANTS a, b         \* ScaledObjects
CONSTANTS m1, m2       \* predictive metrics

\* A second predictive trigger comes or goes.
OneOrTwo == {{m1}, {m1, m2}}
=============================================================================
