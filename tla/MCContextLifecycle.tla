-------------------------- MODULE MCContextLifecycle --------------------------
(* The instance of ContextLifecycle that TLC checks: three goroutines may   *)
(* close the context that a fourth uses.                                   *)
EXTENDS ContextLifecycle

CONSTANTS g1, g2, g3

MCClosers == {g1, g2, g3}
===============================================================================
