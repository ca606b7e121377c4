---------------------------- MODULE MCRegression ----------------------------
(* Model values for the run of Regression. *)
EXTENDS Regression
=============================================================================
