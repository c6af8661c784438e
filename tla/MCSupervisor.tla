---------------------------- MODULE MCSupervisor ----------------------------
(* Supervisor with the constants of the model checker's runs.              *)
EXTENDS SupervisorProps
=============================================================================
