----------------------------- MODULE MCPaidFlow -----------------------------
(* A small instance of PaidFlow for TLC.                                   *)
EXTENDS PaidFlow

CONSTANTS p1, c1, m1, a1, a2, o1, rp1, k1, u1, u2, l1, s1, s2

\* One order of one app, and a pay-in that fits it.
OneBody == {[app |-> a1, order |-> o1, amount |-> rp1, ttl |-> 1, valid |-> TRUE]}

OnePayIn == {[app |-> a1, key |-> k1, amount |-> rp1, paidAt |-> 0]}
=============================================================================
