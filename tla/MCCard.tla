------------------------------- MODULE MCCard -------------------------------
(* Card with the constants of the model checker's runs.                    *)
EXTENDS CardProps
=============================================================================
