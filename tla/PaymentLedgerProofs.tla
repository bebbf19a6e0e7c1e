------------------------ MODULE PaymentLedgerProofs ------------------------
(* What the ledger promises, for any payments and pay-ins.                 *)
EXTENDS PaymentLedger, TLAPS

LedgerInv == LedgerTypeOK /\ LedgerSound

LEMMA LedgerInitInv == Init => LedgerInv
  BY DEF Init, LedgerInv, LedgerTypeOK, LedgerSound, LedgerStatus

LEMMA LedgerStepInv == LedgerInv /\ [Next]_lvars => LedgerInv'
<1> SUFFICES ASSUME LedgerInv, [Next]_lvars PROVE LedgerInv'
  OBVIOUS
<1> USE DEF LedgerInv, LedgerTypeOK, LedgerSound, LedgerStatus
<1>1. ASSUME NEW p \in PayIds, Open(p) PROVE LedgerInv'
  BY <1>1 DEF Open, Move
<1>2. ASSUME NEW k \in Keys, NEW p \in PayIds, Settle(k, p) PROVE LedgerInv'
  <2>1. LedgerTypeOK'
    BY <1>2 DEF Settle, Move
  <2>2. \A s \in settled : s[2] # p
    BY <1>2 DEF Settle, Move
  <2>3. LedgerSound'
    BY <1>2, <2>2 DEF Settle, Move
  <2> QED BY <2>1, <2>3
<1>3. ASSUME NEW p \in PayIds, Mark(p) PROVE LedgerInv'
  BY <1>3 DEF Mark, Move
<1>4. ASSUME NEW S \in SUBSET PayIds, Expire(S) PROVE LedgerInv'
  BY <1>4 DEF Expire
<1>5. CASE UNCHANGED lvars
  BY <1>5 DEF lvars
<1> QED
  BY <1>1, <1>2, <1>3, <1>4, <1>5 DEF Next

(* Whatever is opened, settled, marked or expired, the settlements stay a  *)
(* partial injection of pay-ins into paid payments: no pay-in settles two  *)
(* payments and no payment is settled twice (payment_claims).              *)
THEOREM LedgerStaysSound == Spec => [](LedgerTypeOK /\ LedgerSound)
<1>1. Spec => []LedgerInv
  BY LedgerInitInv, LedgerStepInv, PTL DEF Spec
<1> QED
  BY <1>1, PTL DEF LedgerInv

LEMMA LedgerStepFinal ==
  LedgerTypeOK /\ [Next]_lvars =>
    [\A p \in PayIds :
        /\ status[p] \in {"paid", "expired"} => status'[p] = status[p]
        /\ status[p] = "pending" => status'[p] # "absent"]_lvars
<1> SUFFICES ASSUME LedgerTypeOK, Next, NEW q \in PayIds
             PROVE  /\ status[q] \in {"paid", "expired"} => status'[q] = status[q]
                    /\ status[q] = "pending" => status'[q] # "absent"
  OBVIOUS
<1> USE DEF LedgerTypeOK, LedgerStatus
<1>1. CASE \E p \in PayIds : Open(p)
  BY <1>1 DEF Open, Move
<1>2. CASE \E k \in Keys, p \in PayIds : Settle(k, p)
  BY <1>2 DEF Settle, Move
<1>3. CASE \E p \in PayIds : Mark(p)
  BY <1>3 DEF Mark, Move
<1>4. CASE \E S \in SUBSET PayIds : Expire(S)
  BY <1>4 DEF Expire
<1> QED
  BY <1>1, <1>2, <1>3, <1>4 DEF Next

(* A payment that is paid or has expired keeps that status for ever, and a *)
(* payment once opened never leaves the table.                             *)
THEOREM LedgerKeepsFinal == Spec => LedgerFinal
<1>1. Spec => []LedgerTypeOK
  BY LedgerStaysSound, PTL
<1> QED
  BY <1>1, LedgerStepFinal, PTL DEF Spec, LedgerFinal
=============================================================================
