------------------------------- MODULE MCLink -------------------------------
(* Link with the constants of the model checker's runs.                    *)
EXTENDS LinkProps
=============================================================================
