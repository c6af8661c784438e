----------------------------- MODULE MCStandby ------------------------------
(* Standby with the constants of the model checker's runs.                 *)
EXTENDS StandbyProps
=============================================================================
