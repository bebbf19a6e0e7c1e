----------------------------- MODULE ClaimOrder -----------------------------
(* PaymentStore with two histories, to say in which order claims settle    *)
(* payments: what was in the payments table when a claim began, and what   *)
(* the others had locked when it chose.                                    *)
EXTENDS PaymentStore

VARIABLES
  saw,      \* saw[c]: payments in the table when claim c began
  skipped   \* skipped[c]: payments that were locked at the match of claim c

Begins(c) == claim[c].pc = "idle" /\ claim'[c].pc # "idle"
Matches(c) == claim[c].pc = "match" /\ claim'[c].pc \in {"update", "notfound"}

FifoInit ==
  /\ Init
  /\ saw = [c \in ClaimCalls |-> {}]
  /\ skipped = [c \in ClaimCalls |-> {}]

FifoNext ==
  /\ Next
  /\ saw' = [c \in ClaimCalls |-> IF Begins(c) THEN Rows ELSE saw[c]]
  /\ skipped' = [c \in ClaimCalls |->
       IF Matches(c) THEN {p \in PayIds : Locked(p)} ELSE skipped[c]]

FifoSpec == FifoInit /\ [][FifoNext]_<<vars, saw, skipped>>

Chosen == {"update", "insert", "commit", "event", "notify", "ok"}

(* ClaimByAmount: from its match on, a claim has passed over no older      *)
(* payment that it could have settled and that was there when it began,    *)
(* but those that other claims held locked at its match.                   *)
FifoUnlessHeld ==
  \A c \in ClaimCalls, q \in PayIds :
    /\ claim[c].pc \in Chosen
    /\ q \in saw[c] \ skipped[c]
    /\ Eligible(c, q, claim[c].at)
    => pay[q].created >= pay[claim[c].hit].created

(* ClaimByAmount, ExpirePending: a claim that is answered "not found" has  *)
(* passed over no payment of its app and amount in its window that was     *)
(* there when it began, but those that other claims held locked at its     *)
(* match: each is paid by someone else or past its time, be it still       *)
(* pending or swept.                                                       *)
NotFoundIsHonest ==
  \A c \in ClaimCalls, q \in PayIds :
    /\ claim[c].pc = "notfound"
    /\ q \in saw[c] \ skipped[c]
    /\ AppOf(q) = claim[c].in.app /\ AmountOf(q) = claim[c].in.amount
    /\ pay[q].created \in (claim[c].in.paidAt - Lookback) .. (claim[c].in.paidAt + Skew)
    => pay[q].status = "paid" \/ pay[q].expires <= now

(* ClaimByAmount: a claim that settled a payment left no older payment     *)
(* pending that it could have settled and that was there when it began.    *)
ClaimFifo ==
  \A c \in ClaimCalls, q \in PayIds :
    /\ claim[c].pc = "ok"
    /\ q \in saw[c]
    /\ Eligible(c, q, claim[c].at)
    /\ ~Locked(q)
    => pay[q].created >= pay[claim[c].hit].created
=============================================================================
