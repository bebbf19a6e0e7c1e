---------------------------- MODULE MerchantQris ----------------------------
(***************************************************************************)
(* The merchant's QRIS text of each app, as the admin API sets it, and the *)
(* dynamic text that POST /v1/payments makes of it.  The call reads the    *)
(* app's row once, when it checks the API key, and works on that copy      *)
(* while the admin may replace the text.                                   *)
(*                                                                         *)
(* The table of payments is the business of PaymentStore; a call of this   *)
(* module is one that finds no payment of its order.                       *)
(***************************************************************************)
EXTENDS Qris, FiniteSets

CONSTANTS
  Apps,
  Texts,     \* what the admin may send as merchant_qris
  Calls,     \* POST /v1/payments
  Amounts,   \* positive amounts
  Fees,      \* [type, value]: what a call may send as fee; no fee is 0 of "none"
  None

Fee == [type: {"none", "fixed", "percentage", "other"}, value: Nat]

ASSUME MerchantAssumption ==
  /\ Texts \subseteq Text
  /\ Amounts \subseteq Nat \ {0}
  /\ Fees \subseteq Fee
  /\ None \notin Text

\* An amount is an int64 and a fee a float64: neither fills an element.
ASSUME WidthAssumption ==
  /\ \A amount \in Amounts : Len(Decimal[amount]) <= 19
  /\ \A fee \in Fees : Len(General(fee.value)) <= 24

VARIABLES
  merchant,  \* merchant[a]: apps.merchant_qris, None while there is no app
  call,      \* call[c]: next step or outcome, body, copy of the text, result
  held       \* history: held[c] the texts its app has had since c began

vars == <<merchant, call, held>>

Init ==
  /\ merchant = [a \in Apps |-> None]
  /\ call = [c \in Calls |->
       [pc |-> "idle", app |-> None, text |-> None, amount |-> 0, fee |-> None, qr |-> None]]
  /\ held = [c \in Calls |-> {}]

-----------------------------------------------------------------------------
(* The admin API                                                           *)

\* Variant: the text is stored as it comes.
Unchecked(t) == t # <<>>
\* merchant_qris is not empty and Validate returns and finds no error.
Accepted(t) == t # <<>> /\ Valid(t)

\* POST /v1/apps.
CreateApp(a) ==
  /\ merchant[a] = None
  /\ \E t \in Texts : Accepted(t) /\ merchant' = [merchant EXCEPT ![a] = t]
  /\ UNCHANGED <<call, held>>

\* PATCH /v1/apps/:id; calls that run keep their copy.
UpdateApp(a) ==
  /\ merchant[a] # None
  /\ \E t \in Texts :
       /\ Accepted(t)
       /\ merchant' = [merchant EXCEPT ![a] = t]
       /\ held' = [c \in Calls |->
            IF call[c].pc = "build" /\ call[c].app = a THEN held[c] \union {t} ELSE held[c]]
  /\ UNCHANGED call

-----------------------------------------------------------------------------
(* POST /v1/payments                                                       *)

\* GetByAPIKeyHash returns the whole row.
CreateBegin(c) ==
  /\ call[c].pc = "idle"
  /\ \E a \in Apps, amount \in Amounts, fee \in Fees :
       /\ merchant[a] # None
       /\ call' = [call EXCEPT ![c] = [pc |-> "build", app |-> a, text |-> merchant[a],
                                       amount |-> amount, fee |-> fee, qr |-> None]]
       /\ held' = [held EXCEPT ![c] = {merchant[a]}]
  /\ UNCHANGED merchant

NoFee == [type |-> "none", value |-> 0]

\* A fee of zero is no fee, whatever its type.
Charged(fee) == IF fee.value = 0 THEN NoFee ELSE fee

\* Validate, then the fee's type, then Convert, which reads the text again as
\* it is stored.  A panic is answered with 500.
Outcome(text, fee) ==
  IF ValidatePanics(text) THEN "panicked"
  ELSE IF ~Valid(text) THEN "misconfigured"
  ELSE IF fee.type = "other" THEN "badfee"
  ELSE IF Panics[text] THEN "panicked" ELSE "built"

CreateBuild(c) ==
  LET fee == Charged(call[c].fee)
      outcome == Outcome(call[c].text, fee)
  IN
  /\ call[c].pc = "build"
  /\ call' = [call EXCEPT
       ![c].pc = outcome,
       ![c].qr = IF outcome = "built" THEN Convert(call[c].text, call[c].amount, fee) ELSE None]
  /\ UNCHANGED <<merchant, held>>

Next ==
  \/ \E a \in Apps : CreateApp(a) \/ UpdateApp(a)
  \/ \E c \in Calls : CreateBegin(c) \/ CreateBuild(c)

Spec == Init /\ [][Next]_vars

-----------------------------------------------------------------------------
Once(es, n) == Cardinality({i \in DOMAIN es : es[i].tag = Tag(n)}) <= 1

\* The fields of the tip that the fee asks for, and no other.
TipIs(d, fee) ==
  /\ d.tip = fee.type
  /\ d.fixed = IF fee.type = "fixed" THEN Decimal[fee.value] ELSE <<>>
  /\ d.percentage = IF fee.type = "percentage" THEN Decimal[fee.value] ELSE <<>>

(* Convert: "turns a static QRIS payload into dynamic by injecting amount  *)
(* and optional fee": the text of a payment is valid again and asks for    *)
(* the amount and the fee of its call, each once, in plain digits,         *)
(* whatever amount or fee the merchant's text had.                         *)
QrPays ==
  \A c \in Calls : call[c].pc = "built" =>
    LET d == Parse(call[c].qr) IN
    /\ Valid(call[c].qr)
    /\ d.method = "dynamic"
    /\ d.amount = Decimal[call[c].amount]
    /\ TipIs(d, Charged(call[c].fee))
    /\ \A n \in {1, 54, 55, 56, 57, 63} : Once(ParseTLV[call[c].qr], n)

\* What can be read of elements: each that has children, and then they.
Readable[es \in Seq(Element)] ==
  IF es = <<>> THEN <<>>
  ELSE LET children == Children(es[1])
       IN (IF children = <<>> THEN <<es[1]>>
           ELSE <<[es[1] EXCEPT !.value = <<>>]>> \o Readable[children])
          \o Readable[Tail(es)]

\* The elements that say how to pay.
Terms == {Tag(n) : n \in {1, 54, 55, 56, 57, 63}}

\* What of a text says whom to pay.
Payee(text) == Readable[Without(ParseTLV[text], Terms)]

(* Convert, UpdateApp: the payee of a payment's text is one that the app   *)
(* had while the call ran, every readable element of it as it was, in      *)
(* order.                                                                  *)
QrKeepsPayee ==
  \A c \in Calls : call[c].pc = "built" =>
    \E t \in held[c] : Payee(call[c].qr) = Payee(t)

(* ParseTLV, Validate: a text that the reader cannot get through is met    *)
(* when the admin sends it and never by the payments of an app.            *)
NeverPanics ==
  \A c \in Calls : call[c].pc # "panicked"

(* CreateApp, UpdateApp, Create: both sides apply the same Validate, so a  *)
(* payment is never refused for its merchant's text.                       *)
NeverMisconfigured ==
  \A c \in Calls : call[c].pc # "misconfigured"

(* Convert, CalculateCRC16 ("CRC16-CCITT, poly 0x1021, init 0xFFFF"): the  *)
(* last four bytes of a payment's text are hexadecimal digits, and read as *)
(* a number they are the remainder that the name stands for, of all the    *)
(* bytes before them.                                                      *)
CrcIsRemainder ==
  \A c \in Calls : call[c].pc = "built" =>
    LET qr == call[c].qr
        n == Len(qr)
    IN /\ n >= 4 /\ \A k \in n - 3 .. n : qr[k] \in HexByte
       /\ FromHex(SubSeq(qr, n - 3, n)) = Remainder(SubSeq(qr, 1, n - 4))
=============================================================================
