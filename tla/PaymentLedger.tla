--------------------------- MODULE PaymentLedger ---------------------------
(***************************************************************************)
(* What the payment tables of QRIS Gate promise, with no transactions, no  *)
(* locks and no handlers: a payment is opened once, is settled by one      *)
(* provider pay-in or marked paid by the admin or expires, and never moves *)
(* again.  PaymentStore implements this module.                            *)
(***************************************************************************)

CONSTANTS
  PayIds,   \* payment ids
  Keys      \* (provider, external_id) pairs: one provider pay-in each

VARIABLES
  status,   \* status[p]: "absent" while p is not in the table
  settled   \* pairs <<key, payment>>: the rows of payment_claims

lvars == <<status, settled>>

LedgerStatus == {"absent", "pending", "paid", "expired"}

LedgerTypeOK ==
  /\ status \in [PayIds -> LedgerStatus]
  /\ settled \subseteq Keys \X PayIds

Init ==
  /\ status = [p \in PayIds |-> "absent"]
  /\ settled = {}

Move(p, from, to) ==
  /\ status[p] = from
  /\ status' = [status EXCEPT ![p] = to]

Open(p) ==
  /\ Move(p, "absent", "pending")
  /\ UNCHANGED settled

Settle(k, p) ==
  /\ \A s \in settled : s[1] # k
  /\ Move(p, "pending", "paid")
  /\ settled' = settled \union {<<k, p>>}

Mark(p) ==
  /\ Move(p, "pending", "paid")
  /\ UNCHANGED settled

Expire(S) ==
  /\ \A p \in S : status[p] = "pending"
  /\ status' = [p \in PayIds |-> IF p \in S THEN "expired" ELSE status[p]]
  /\ UNCHANGED settled

Next ==
  \/ \E p \in PayIds : Open(p)
  \/ \E k \in Keys, p \in PayIds : Settle(k, p)
  \/ \E p \in PayIds : Mark(p)
  \/ \E S \in SUBSET PayIds : Expire(S)

Spec == Init /\ [][Next]_lvars

-----------------------------------------------------------------------------
(* A pay-in settles one payment, a payment is settled by one pay-in, and a *)
(* settled payment is paid: payment_claims is a partial injection into the *)
(* paid payments.                                                          *)
LedgerSound ==
  /\ \A s, t \in settled : s[1] = t[1] \/ s[2] = t[2] => s = t
  /\ \A s \in settled : status[s[2]] = "paid"

(* "paid" and "expired" are final, and a payment is opened as "pending".   *)
LedgerFinal ==
  [][\A p \in PayIds :
        /\ status[p] \in {"paid", "expired"} => status'[p] = status[p]
        /\ status[p] = "pending" => status'[p] # "absent"]_lvars
=============================================================================
