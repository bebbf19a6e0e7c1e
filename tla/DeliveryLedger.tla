--------------------------- MODULE DeliveryLedger ---------------------------
(***************************************************************************)
(* What the table webhook_deliveries promises of one event, with no lists, *)
(* bursts, backoffs or failing statements: a delivery is opened once; who  *)
(* takes it up finds it not yet delivered; only who has taken it up sends  *)
(* to its receiver and writes its outcome, once, and only an outcome that  *)
(* requests really had.  WebhookDelivery implements this module.           *)
(*                                                                         *)
(* A sender that took a delivery up before another one delivered it may    *)
(* still write that it failed: the table does not promise more.            *)
(***************************************************************************)
EXTENDS Integers

CONSTANTS Urls, Workers, Secret, MaxTotal, None

VARIABLES
  status,    \* status[u]: "absent" while u has no delivery
  counter,   \* counter[u]: the requests that the delivery has on record
  secret,    \* secret[u]: the delivery's own secret
  taken,     \* taken[w]: the deliveries that w has taken up
  sent,      \* sent[u]: the requests that were sent to u
  accepted,  \* receivers that have accepted a request
  refused    \* receivers that have refused one

lvars == <<status, counter, secret, taken, sent, accepted, refused>>
answers == <<sent, accepted, refused>>

Init ==
  /\ status = [u \in Urls |-> "absent"]
  /\ counter = [u \in Urls |-> 0]
  /\ secret = [u \in Urls |-> None]
  /\ taken = [w \in Workers |-> {}]
  /\ sent = [u \in Urls |-> 0]
  /\ accepted = {} /\ refused = {}

Open(u) ==
  /\ status[u] = "absent"
  /\ status' = [status EXCEPT ![u] = "pending"]
  /\ counter' = [counter EXCEPT ![u] = 0]
  /\ \E s \in Secret : secret' = [secret EXCEPT ![u] = s]
  /\ UNCHANGED <<taken, answers>>

\* A dead delivery may be taken up again, a delivered one never.
TakeUp(w, S) ==
  /\ \A u \in S : status[u] \in {"pending", "dead"}
  /\ taken' = [taken EXCEPT ![w] = @ \union S]
  /\ UNCHANGED <<status, counter, secret, answers>>

Request(w, u) ==
  /\ u \in taken[w]
  /\ sent' = [sent EXCEPT ![u] = @ + 1]
  /\ \/ accepted' = accepted \union {u} /\ UNCHANGED refused
     \/ refused' = refused \union {u} /\ UNCHANGED accepted
     \/ UNCHANGED <<accepted, refused>>
  /\ UNCHANGED <<status, counter, secret, taken>>

LetGo(w, S) == taken' = [taken EXCEPT ![w] = @ \ S]

Deliver(w, u) ==
  /\ u \in taken[w] /\ u \in accepted
  /\ status' = [status EXCEPT ![u] = "delivered"]
  /\ LetGo(w, {u})
  /\ UNCHANGED <<counter, secret, answers>>

\* n requests were not accepted, as far as w knows.
Fail(w, u, n) ==
  /\ u \in taken[w] /\ n \in 1 .. sent[u]
  /\ \/ (n >= MaxTotal \/ u \in refused) /\ status' = [status EXCEPT ![u] = "dead"]
     \/ n < MaxTotal /\ status' = [status EXCEPT ![u] = "pending"]
  /\ counter' = [counter EXCEPT ![u] = n]
  /\ LetGo(w, {u})
  /\ UNCHANGED <<secret, answers>>

\* The outcome is never written.
Abandon(w, S) ==
  /\ LetGo(w, S)
  /\ UNCHANGED <<status, counter, secret, answers>>

Next ==
  \/ \E u \in Urls : Open(u)
  \/ \E w \in Workers, S \in SUBSET Urls : TakeUp(w, S) \/ Abandon(w, S)
  \/ \E w \in Workers, u \in Urls :
       Request(w, u) \/ Deliver(w, u) \/ \E n \in 1 .. sent[u] : Fail(w, u, n)

Spec == Init /\ [][Next]_lvars
=============================================================================
