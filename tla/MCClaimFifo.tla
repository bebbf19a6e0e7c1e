---------------------------- MODULE MCClaimFifo ----------------------------
(* Small instances of ClaimOrder for TLC.                                  *)
EXTENDS ClaimOrder, MCPaymentStore
=============================================================================
