---------------------------- MODULE MCKeepAlive ----------------------------
(* Model values and hosts of the requests for KeepAlive. *)
EXTENDS KeepAlive, TLC

CONSTANTS h1, h2, q1, q2, q3

OneHost  == [q \in {q1, q2, q3} |-> h1]
TwoHosts == [q \in {q1, q2, q3} |-> IF q = q3 THEN h2 ELSE h1]
=============================================================================
