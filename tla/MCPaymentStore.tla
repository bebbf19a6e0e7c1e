--------------------------- MODULE MCPaymentStore ---------------------------
(* Small instances of PaymentStore for TLC.                                *)
EXTENDS PaymentStore, TLC

CONSTANTS p1, p2, c1, c2, m1, m2, a1, a2, o1, o2, rp1, rp2, k1, k2

Body(app, order, amount, ttl) ==
  [app |-> app, order |-> order, amount |-> amount, ttl |-> ttl, valid |-> TRUE]

PayIn(app, key, amount, paidAt) ==
  [app |-> app, key |-> key, amount |-> amount, paidAt |-> paidAt]

\* Two orders of one app for one amount, the first order once more with
\* another amount, the same order of another app, and a refused body.
Bodies ==
  {Body(a1, o1, rp1, 1), Body(a1, o2, rp1, 2), Body(a1, o1, rp2, 1), Body(a2, o1, rp1, 2),
   [Body(a1, o2, rp1, 2) EXCEPT !.valid = FALSE]}

\* Two orders of one app that one amount fits.
TwinBodies == {Body(a1, o1, rp1, 1), Body(a1, o2, rp1, 2)}

\* The same pay-in claimed by two apps, and a second pay-in; the windows of
\* the first two leave out payments created too late and too early.
PayIns == {PayIn(a1, k1, rp1, 0), PayIn(a2, k1, rp1, 2), PayIn(a1, k2, rp1, 1)}

\* One pay-in of one app.
OnePayIn == {PayIn(a1, k1, rp1, 1)}

CallSymmetry ==
  Permutations(CreateCalls) \union Permutations(ClaimCalls) \union Permutations(MarkCalls)
=============================================================================
