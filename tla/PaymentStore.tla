---------------------------- MODULE PaymentStore ----------------------------
(***************************************************************************)
(* The payment service of QRIS Gate over its PostgreSQL tables: every HTTP *)
(* call runs as a sequence of SQL statements, interleaved with the other   *)
(* calls, with the expiry sweeper and with the clock.                      *)
(*                                                                         *)
(* A statement outside a transaction is one step.  The transaction of      *)
(* ClaimByAmount is one step per statement: the row it selects FOR UPDATE  *)
(* stays locked, and its writes stay invisible, until it commits or fails  *)
(* (READ COMMITTED).  A call may run on any replica of the API.            *)
(*                                                                         *)
(* Calls refused before their first statement (missing field, unknown API  *)
(* key, wrong admin token) change nothing and are not calls of this model. *)
(***************************************************************************)
EXTENDS Integers, FiniteSets

CONSTANTS
  CreateCalls,   \* POST /v1/payments; the call is also the uuid it would mint
  ClaimCalls,    \* POST /v1/payments/claim
  MarkCalls,     \* POST /v1/payments/:id/paid
  Apps, Orders, Amounts,
  Keys,          \* (provider, external_id) pairs
  CreateInputs,  \* bodies a create call may carry
  ClaimInputs,   \* bodies a claim call may carry
  Lookback,      \* 24h in the code
  Skew,          \* 2 minutes in the code
  SweepLimit,    \* 500 in the code
  MaxTime,       \* bound of the clock, for TLC
  MaxFaults,     \* bound of the failures in one run, for TLC
  None

PayIds == CreateCalls

\* valid: the app's QRIS passes Validate and the fee, if any, has a known type.
CreateBody == [app: Apps, order: Orders, amount: Amounts, ttl: Nat, valid: BOOLEAN]

\* A zero paid_at is replaced by the current time: any time may be sent.
ClaimBody == [app: Apps, key: Keys, amount: Amounts, paidAt: Nat]

ASSUME CallAssumption ==
  /\ CreateCalls \intersect ClaimCalls = {}
  /\ CreateCalls \intersect MarkCalls = {}
  /\ ClaimCalls \intersect MarkCalls = {}
  /\ None \notin PayIds

ASSUME InputAssumption ==
  /\ CreateInputs \subseteq CreateBody
  /\ ClaimInputs \subseteq ClaimBody

ASSUME NumberAssumption ==
  /\ Lookback \in Nat
  /\ Skew \in Nat
  /\ SweepLimit \in Nat \ {0}
  /\ MaxTime \in Nat
  /\ MaxFaults \in Nat

VARIABLES
  now,       \* the clock all replicas read
  pay,       \* payments: pay[p] is the row with id p
  claims,    \* payment_claims, committed rows
  events,    \* payment_events
  create,    \* create[c]: body, next statement, answer, time of the lookup
  claim,     \* claim[c]: body, next statement or outcome, row it works on,
             \*   time of the lookup and then the clock it read for the match
  mark,      \* mark[c]: id in the path, next statement or outcome
  credited,  \* history: <<call, payment>> whose UPDATE made the payment paid
  notified   \* history: <<call, payment>> handed to DispatchPaid

tables == <<pay, claims, events>>
history == <<credited, notified>>
vars == <<now, pay, claims, events, create, claim, mark, credited, notified>>

-----------------------------------------------------------------------------
Status == {"absent", "pending", "paid", "expired"}

Row == [status: Status, created: Nat, expires: Nat]

Claim == [key: Keys, pay: PayIds, amount: Amounts]

Event == [pay: PayIds, type: {"payment.created", "payment.paid"},
          call: CreateCalls \union ClaimCalls \union MarkCalls]

CreateDone == {"created", "existing", "rejected", "failed", "error"}
CreatePc == {"idle", "insert", "event"} \union CreateDone

\* Variant: a claim that ends in an error keeps its transaction open.
NoRollback == {"update", "insert", "commit", "failed", "error"}
InTx == {"update", "insert", "commit"}   \* ClaimByAmount holds a row lock
ClaimDone == {"ok", "already", "notfound", "conflict", "failed", "error"}
ClaimPc == {"idle", "settled", "match", "event", "notify"} \union InTx \union ClaimDone

MarkDone == {"ok", "already", "notfound", "conflict", "error"}
MarkPc == {"idle", "update", "recheck", "event", "notify"} \union MarkDone

\* Columns a row copies from the body of the call that inserts it; no
\* statement of the program updates them.
AppOf(p) == create[p].in.app
OrderOf(p) == create[p].in.order
AmountOf(p) == create[p].in.amount

Rows == {p \in PayIds : pay[p].status # "absent"}

SameOrder(p, q) == AppOf(p) = AppOf(q) /\ OrderOf(p) = OrderOf(q)

\* Variant: no such key.
NoOrderKey(c) == FALSE
\* The UNIQUE (app_id, order_id) key of payments.
OrderTaken(c) == \E p \in Rows : SameOrder(p, c)

\* Variant: no such key.
NoClaimKey(k) == FALSE
\* The UNIQUE (provider, external_id) key of payment_claims.
KeyTaken(k) == \E r \in claims : r.key = k

\* Variant: a SELECT without FOR UPDATE.
NoLocks(p) == FALSE
\* Row locks of ClaimByAmount's SELECT ... FOR UPDATE.
Locked(p) == \E c \in ClaimCalls : claim[c].pc \in InTx /\ claim[c].hit = p

SetStatus(p, s) == pay' = [pay EXCEPT ![p].status = s]

AddEvent(p, type, c) ==
  events' = events \union {[pay |-> p, type |-> type, call |-> c]}

\* The calls a failure has cut short, and those whose event insert failed.
Failed ==
  LET logged == {e.call : e \in events}
      ended(call, pcs) == {c \in DOMAIN call : call[c].pc \in pcs}
  IN ended(create, {"error"}) \union ended(claim, {"error"}) \union ended(mark, {"error"})
       \union ((ended(create, {"created"}) \union ended(claim, {"notify", "ok"})
                  \union ended(mark, {"notify", "ok"})) \ logged)

MayFail == Cardinality(Failed) < MaxFaults

-----------------------------------------------------------------------------
Init ==
  /\ now = 0
  /\ pay = [p \in PayIds |-> [status |-> "absent", created |-> 0, expires |-> 0]]
  /\ claims = {}
  /\ events = {}
  /\ create \in [CreateCalls -> [in: CreateInputs, pc: {"idle"}, got: {None}, at: {0}]]
  /\ claim \in [ClaimCalls -> [in: ClaimInputs, pc: {"idle"}, hit: {None}, at: {0}]]
  /\ mark \in [MarkCalls -> [target: PayIds, pc: {"idle"}]]
  /\ credited = {}
  /\ notified = {}

Tick ==
  /\ now < MaxTime
  /\ now' = now + 1
  /\ UNCHANGED <<tables, create, claim, mark, history>>

-----------------------------------------------------------------------------
(* POST /v1/payments                                                       *)

CreateGoto(c, pc, got) ==
  create' = [create EXCEPT ![c].pc = pc, ![c].got = got]

\* GetByAppAndOrder: an existing payment is the answer, whatever the rest of
\* the body says; only then are the QRIS and the fee looked at.
CreateLookup(c) ==
  /\ create[c].pc = "idle"
  /\ IF OrderTaken(c)
     THEN \E p \in Rows : SameOrder(p, c) /\ CreateGoto(c, "existing", p)
     ELSE IF create[c].in.valid
          THEN create' = [create EXCEPT ![c].pc = "insert", ![c].at = now]
          ELSE CreateGoto(c, "rejected", None)
  /\ UNCHANGED <<now, tables, claim, mark, history>>

\* Variant: expires_at is left NULL.
NoExpiry(c) ==
  \E u \in create[c].at .. now :
    pay' = [pay EXCEPT ![c] = [status |-> "pending", created |-> u, expires |-> None]]

\* The new row.  The clock is read twice between the lookup and the INSERT:
\* for expires_at, then for created_at.
InsertRow(c) ==
  \E t \in create[c].at .. now : \E u \in t .. now :
    pay' = [pay EXCEPT ![c] =
      [status |-> "pending", created |-> u, expires |-> t + create[c].in.ttl]]

\* INSERT INTO payments, refused by the unique key when another call got there.
CreateInsert(c) ==
  /\ create[c].pc = "insert"
  /\ IF OrderTaken(c)
     THEN CreateGoto(c, "failed", None) /\ UNCHANGED pay
     ELSE CreateGoto(c, "event", c) /\ InsertRow(c)
  /\ UNCHANGED <<now, claims, events, claim, mark, history>>

\* INSERT INTO payment_events, whose error is ignored.  Its foreign key waits
\* for a claim that holds the payment's row.
CreateEvent(c) ==
  /\ create[c].pc = "event"
  /\ CreateGoto(c, "created", c)
  /\ \/ ~Locked(c) /\ AddEvent(c, "payment.created", c)
     \/ MayFail /\ UNCHANGED events
  /\ UNCHANGED <<now, pay, claims, claim, mark, history>>

\* Cancelled context, lost connection or crash: no later statement runs.
CreateFail(c) ==
  /\ MayFail
  /\ create[c].pc \in {"insert", "event"}
  /\ CreateGoto(c, "error", None)
  /\ UNCHANGED <<now, tables, claim, mark, history>>

-----------------------------------------------------------------------------
(* POST /v1/payments/claim                                                 *)

ClaimGoto(c, pc) == claim' = [claim EXCEPT ![c].pc = pc]

\* BEGIN; SELECT payment_id FROM payment_claims.
ClaimLookup(c) ==
  /\ claim[c].pc = "idle"
  /\ IF KeyTaken(claim[c].in.key)
     THEN \E r \in claims :
            /\ r.key = claim[c].in.key
            /\ claim' = [claim EXCEPT ![c].pc = "settled", ![c].hit = r.pay]
     ELSE claim' = [claim EXCEPT ![c].pc = "match", ![c].at = now]
  /\ UNCHANGED <<now, tables, create, mark, history>>

\* Variant: afterPaid runs for a pay-in that was settled before, too.
NotifyAgain(c) ==
  /\ claim[c].pc = "settled"
  /\ ClaimGoto(c, IF AppOf(claim[c].hit) = claim[c].in.app THEN "event" ELSE "conflict")
  /\ UNCHANGED <<now, tables, create, mark, history>>

\* The pay-in was settled before: answer with its payment, if it is this app's.
ClaimSettled(c) ==
  /\ claim[c].pc = "settled"
  /\ ClaimGoto(c, IF AppOf(claim[c].hit) = claim[c].in.app THEN "already" ELSE "conflict")
  /\ UNCHANGED <<now, tables, create, mark, history>>

\* Variant: expires_at is not looked at.
LateToo(c, p, t) ==
  /\ pay[p].status = "pending"
  /\ AppOf(p) = claim[c].in.app
  /\ AmountOf(p) = claim[c].in.amount
  /\ pay[p].created >= claim[c].in.paidAt - Lookback
  /\ pay[p].created <= claim[c].in.paidAt + Skew

\* The WHERE clause of the match, with t for the claim's clock.
Eligible(c, p, t) ==
  /\ pay[p].status = "pending"
  /\ AppOf(p) = claim[c].in.app
  /\ AmountOf(p) = claim[c].in.amount
  /\ pay[p].expires > t
  /\ pay[p].created >= claim[c].in.paidAt - Lookback
  /\ pay[p].created <= claim[c].in.paidAt + Skew

\* Variant: no ORDER BY.
AnyOrder(p, S) == p \in S
\* ORDER BY created_at LIMIT 1.
Oldest(p, S) == p \in S /\ \A q \in S : pay[p].created <= pay[q].created

\* SELECT ... FOR UPDATE SKIP LOCKED, with a clock read after the lookup.
ClaimMatch(c) ==
  /\ claim[c].pc = "match"
  /\ \E t \in claim[c].at .. now :
       LET free == {p \in PayIds : Eligible(c, p, t) /\ ~Locked(p)}
       IN IF free = {}
          THEN ClaimGoto(c, "notfound")
          ELSE \E p \in free :
                 /\ Oldest(p, free)
                 /\ claim' = [claim EXCEPT ![c].pc = "update", ![c].hit = p, ![c].at = t]
  /\ UNCHANGED <<now, tables, create, mark, history>>

\* UPDATE payments SET status = 'paid' WHERE id AND status = 'pending',
\* invisible to the others until the commit.
ClaimUpdate(c) ==
  /\ claim[c].pc = "update"
  /\ ClaimGoto(c, IF pay[claim[c].hit].status = "pending" THEN "insert" ELSE "conflict")
  /\ UNCHANGED <<now, tables, create, mark, history>>

\* INSERT INTO payment_claims: waits while another transaction has inserted
\* the key without committing, then is refused if the key is there.
ClaimInsert(c) ==
  /\ claim[c].pc = "insert"
  /\ \A d \in ClaimCalls \ {c} :
        claim[d].pc = "commit" => claim[d].in.key # claim[c].in.key
  /\ ClaimGoto(c, IF KeyTaken(claim[c].in.key) THEN "failed" ELSE "commit")
  /\ UNCHANGED <<now, tables, create, mark, history>>

\* Variant: the answer is given without afterPaid.
SilentCommit(c) ==
  LET p == claim[c].hit IN
  /\ claim[c].pc = "commit"
  /\ ClaimGoto(c, "ok")
  /\ SetStatus(p, "paid")
  /\ claims' = claims \union
       {[key |-> claim[c].in.key, pay |-> p, amount |-> claim[c].in.amount]}
  /\ credited' = credited \union {<<c, p>>}
  /\ UNCHANGED <<now, events, create, mark, notified>>

\* COMMIT: both writes appear at once and the row lock is gone.
ClaimCommit(c) ==
  LET p == claim[c].hit IN
  /\ claim[c].pc = "commit"
  /\ ClaimGoto(c, "event")
  /\ SetStatus(p, "paid")
  /\ claims' = claims \union
       {[key |-> claim[c].in.key, pay |-> p, amount |-> claim[c].in.amount]}
  /\ credited' = credited \union {<<c, p>>}
  /\ UNCHANGED <<now, events, create, mark, notified>>

\* afterPaid: the event, its error ignored.
ClaimEvent(c) ==
  /\ claim[c].pc = "event"
  /\ ClaimGoto(c, "notify")
  /\ \/ AddEvent(claim[c].hit, "payment.paid", c)
     \/ MayFail /\ UNCHANGED events
  /\ UNCHANGED <<now, pay, claims, create, mark, history>>

\* afterPaid: DispatchPaid, then the answer.
ClaimNotify(c) ==
  /\ claim[c].pc = "notify"
  /\ ClaimGoto(c, "ok")
  /\ notified' = notified \union {<<c, claim[c].hit>>}
  /\ UNCHANGED <<now, tables, create, mark, credited>>

\* Before the commit a failure rolls back: the lock goes, nothing was written.
ClaimFail(c) ==
  /\ MayFail
  /\ claim[c].pc \in {"settled", "match", "event", "notify"} \union InTx
  /\ ClaimGoto(c, "error")
  /\ UNCHANGED <<now, tables, create, mark, history>>

-----------------------------------------------------------------------------
(* POST /v1/payments/:id/paid                                              *)

MarkGoto(c, pc) == mark' = [mark EXCEPT ![c].pc = pc]

\* GetByID: a payment that is already paid is answered at once.
MarkLookup(c) ==
  LET p == mark[c].target IN
  /\ mark[c].pc = "idle"
  /\ MarkGoto(c, CASE pay[p].status = "absent" -> "notfound"
                   [] pay[p].status = "paid" -> "already"
                   [] OTHER -> "update")
  /\ UNCHANGED <<now, tables, create, claim, history>>

\* Variant: UPDATE ... WHERE id = $3 only.
AnyRow(p) == TRUE
\* WHERE id = $3 AND status = 'pending' of MarkPaid's UPDATE.
Markable(p) == pay[p].status = "pending"

\* UPDATE payments: waits for a claim that holds the row, then looks again.
\* With a row changed the call reads back the paid row and goes on.
MarkUpdate(c) ==
  LET p == mark[c].target IN
  /\ mark[c].pc = "update"
  /\ ~Locked(p)
  /\ IF Markable(p)
     THEN /\ MarkGoto(c, "event")
          /\ SetStatus(p, "paid")
          /\ credited' = credited \union {<<c, p>>}
     ELSE MarkGoto(c, "recheck") /\ UNCHANGED <<pay, credited>>
  /\ UNCHANGED <<now, claims, events, create, claim, notified>>

\* Variant: no look at the row after an UPDATE that changed none.
NotifyAnyway(c) ==
  /\ mark[c].pc = "recheck"
  /\ MarkGoto(c, "event")
  /\ UNCHANGED <<now, tables, create, claim, history>>

\* No row changed: paid by someone else meanwhile, which counts as success
\* and runs afterPaid too, or expired.
MarkRecheck(c) ==
  /\ mark[c].pc = "recheck"
  /\ MarkGoto(c, IF pay[mark[c].target].status = "paid" THEN "event" ELSE "conflict")
  /\ UNCHANGED <<now, tables, create, claim, history>>

MarkEvent(c) ==
  /\ mark[c].pc = "event"
  /\ MarkGoto(c, "notify")
  /\ \/ AddEvent(mark[c].target, "payment.paid", c)
     \/ MayFail /\ UNCHANGED events
  /\ UNCHANGED <<now, pay, claims, create, claim, history>>

MarkNotify(c) ==
  /\ mark[c].pc = "notify"
  /\ MarkGoto(c, "ok")
  /\ notified' = notified \union {<<c, mark[c].target>>}
  /\ UNCHANGED <<now, tables, create, claim, credited>>

MarkFail(c) ==
  /\ MayFail
  /\ mark[c].pc \in {"update", "recheck", "event", "notify"}
  /\ MarkGoto(c, "error")
  /\ UNCHANGED <<now, tables, create, claim, history>>

-----------------------------------------------------------------------------
(* RunExpireLoop                                                           *)

\* Variant: the sweeper takes rows of any status.
PastDue(t) == {p \in Rows : pay[p].expires <= t}
\* Variant: the sweeper takes rows a tick before their time, too.
SoonDue(t) == {p \in Rows : pay[p].status = "pending" /\ pay[p].expires <= t + 1}
Due(t) == {p \in Rows : pay[p].status = "pending" /\ pay[p].expires <= t}

\* SELECT ... ORDER BY expires_at LIMIT n FOR UPDATE SKIP LOCKED.
Batch(S, t) ==
  LET free == {p \in Due(t) : ~Locked(p)} IN
  /\ S \subseteq free
  /\ S # {}
  /\ S = free \/ Cardinality(S) = SweepLimit
  /\ Cardinality(S) <= SweepLimit
  /\ \A p \in S, q \in free \ S : pay[p].expires <= pay[q].expires

\* One pass of ExpirePending that finds something to do, at the clock t its
\* caller read before.
Sweep ==
  /\ \E t \in 0 .. now, S \in SUBSET Rows :
       /\ Batch(S, t)
       /\ pay' = [p \in PayIds |->
            IF p \in S THEN [pay[p] EXCEPT !.status = "expired"] ELSE pay[p]]
  /\ UNCHANGED <<now, claims, events, create, claim, mark, history>>

-----------------------------------------------------------------------------
CreateRest(c) == CreateInsert(c) \/ CreateEvent(c)

ClaimRest(c) ==
  \/ ClaimSettled(c) \/ ClaimMatch(c) \/ ClaimUpdate(c) \/ ClaimInsert(c)
  \/ ClaimCommit(c) \/ ClaimEvent(c) \/ ClaimNotify(c)

MarkRest(c) == MarkUpdate(c) \/ MarkRecheck(c) \/ MarkEvent(c) \/ MarkNotify(c)

\* Every call is answered: only the clock and the sweeper are left.
Quiet ==
  /\ \A c \in CreateCalls : create[c].pc \in CreateDone
  /\ \A c \in ClaimCalls : claim[c].pc \in ClaimDone
  /\ \A c \in MarkCalls : mark[c].pc \in MarkDone
  /\ UNCHANGED vars

Next ==
  \/ Tick
  \/ Sweep
  \/ \E c \in CreateCalls : CreateLookup(c) \/ CreateRest(c) \/ CreateFail(c)
  \/ \E c \in ClaimCalls : ClaimLookup(c) \/ ClaimRest(c) \/ ClaimFail(c)
  \/ \E c \in MarkCalls : MarkLookup(c) \/ MarkRest(c) \/ MarkFail(c)
  \/ Quiet

Spec == Init /\ [][Next]_vars

\* A goroutine that has begun a call goes on to its next statement, and the
\* sweeper's ticker fires again and again.  Nothing makes a client call,
\* nothing makes a call fail.
Fairness ==
  /\ \A c \in CreateCalls : WF_vars(CreateRest(c))
  /\ \A c \in ClaimCalls : WF_vars(ClaimRest(c))
  /\ \A c \in MarkCalls : WF_vars(MarkRest(c))
  /\ WF_vars(Sweep)

FairSpec == Spec /\ Fairness

-----------------------------------------------------------------------------
CreateCall == [in: CreateInputs, pc: CreatePc, got: PayIds \union {None}, at: Nat]
ClaimCall == [in: ClaimInputs, pc: ClaimPc, hit: PayIds \union {None}, at: Nat]
MarkCall == [target: PayIds, pc: MarkPc]

(* Every table row and every call record keeps its shape; a claim that     *)
(* works on a row has one.                                                 *)
TypeOK ==
  /\ now \in Nat
  /\ pay \in [PayIds -> Row]
  /\ claims \subseteq Claim
  /\ events \subseteq Event
  /\ create \in [CreateCalls -> CreateCall]
  /\ claim \in [ClaimCalls -> ClaimCall]
  /\ mark \in [MarkCalls -> MarkCall]
  /\ credited \subseteq (ClaimCalls \union MarkCalls) \X PayIds
  /\ notified \subseteq (ClaimCalls \union MarkCalls) \X PayIds
  /\ \A c \in ClaimCalls :
       claim[c].pc \in InTx \union {"settled", "event", "notify", "ok", "already"}
         => claim[c].hit \in PayIds

(* POST /v1/payments: an app's order has one payment, and the calls for    *)
(* that order that are answered with a payment are answered with the same. *)
OneOrderOnePayment ==
  /\ \A p, q \in Rows : SameOrder(p, q) => p = q
  /\ \A c, d \in CreateCalls :
       create[c].pc \in {"created", "existing"} /\ create[d].pc \in {"created", "existing"}
         /\ SameOrder(c, d) => create[c].got = create[d].got

(* ClaimByAmount: a provider pay-in settles one payment, a payment is      *)
(* settled by one pay-in of its own amount, and what a row of              *)
(* payment_claims points at is paid.                                       *)
SettledOnce ==
  \A r \in claims :
    /\ pay[r.pay].status = "paid"
    /\ r.amount = AmountOf(r.pay)
    /\ \A s \in claims : r.key = s.key \/ r.pay = s.pay => r = s

(* ClaimByAmount, MarkPaid: money is credited to a payment once, however   *)
(* claims, admin marks and the sweeper meet, and to every paid payment.    *)
CreditedOnce ==
  /\ \A x, y \in credited : x[2] = y[2] => x = y
  /\ \A p \in PayIds : pay[p].status = "paid" <=> \E x \in credited : x[2] = p

(* ClaimByAmount: what a claim settled is a payment of its app and amount, *)
(* created in the window around paid_at and alive at the clock the claim   *)
(* had read, whatever happened between the read and the commit.            *)
ClaimInWindow ==
  \A c \in ClaimCalls, p \in PayIds : <<c, p>> \in credited =>
    /\ AppOf(p) = claim[c].in.app /\ AmountOf(p) = claim[c].in.amount
    /\ pay[p].expires > claim[c].at
    /\ pay[p].created \in (claim[c].in.paidAt - Lookback) .. (claim[c].in.paidAt + Skew)

(* ClaimByAmount: the row lock makes the UPDATE after the match find the   *)
(* row still pending, so a claim is answered "conflict" only when its      *)
(* pay-in settled a payment of another app, never for a lost race.         *)
ConflictIsForeign ==
  \A c \in ClaimCalls : claim[c].pc = "conflict" =>
    \E r \in claims : r.key = claim[c].in.key /\ AppOf(r.pay) # claim[c].in.app

(* afterPaid: an app is told "paid" only of a payment that is paid.        *)
NotifyOnlyPaid ==
  /\ \A n \in notified : pay[n[2]].status = "paid"
  /\ \A e \in events : e.type = "payment.paid" => pay[e.pay].status = "paid"

(* afterPaid: a claim dispatches only the payment it settled itself, so    *)
(* repeated and concurrent claims dispatch no payment twice.               *)
ClaimNotifiesOwn ==
  \A n \in notified : n[1] \in ClaimCalls => n \in credited

(* MarkPaid, ClaimByAmount, ExpirePending: a payment that is paid or       *)
(* expired keeps that status whatever calls come later, and no statement   *)
(* deletes a payment, a claim or an event.                                 *)
StatusFinal ==
  [][/\ \A p \in PayIds :
          pay[p].status \in {"paid", "expired"} => pay'[p].status = pay[p].status
     /\ \A p \in Rows : pay'[p].created = pay[p].created /\ pay'[p].expires = pay[p].expires
     /\ claims \subseteq claims' /\ events \subseteq events']_vars

\* The tables as the ledger sees them: statements, locks and calls are gone.
Ledger == INSTANCE PaymentLedger WITH
  status <- [p \in PayIds |-> pay[p].status],
  settled <- {<<r.key, r.pay>> : r \in claims}

(* The tables under all interleavings behave as the ledger's.              *)
LedgerSpec == Ledger!Spec

-----------------------------------------------------------------------------
(* A call that has begun is answered: no wait for a row lock or for an     *)
(* uncommitted key lasts for ever.                                         *)
Answered ==
  /\ \A c \in CreateCalls : create[c].pc # "idle" ~> create[c].pc \in CreateDone
  /\ \A c \in ClaimCalls : claim[c].pc # "idle" ~> claim[c].pc \in ClaimDone
  /\ \A c \in MarkCalls : mark[c].pc # "idle" ~> mark[c].pc \in MarkDone

(* RunExpireLoop: a pending payment whose time is up does not stay pending,*)
(* though a pass skips locked rows and takes at most SweepLimit of them.   *)
DueExpires ==
  \A p \in PayIds : p \in Due(now) ~> pay[p].status \in {"paid", "expired"}

\* The calls a failure has cut short.
CutShort ==
  {c \in ClaimCalls : claim[c].pc = "error"} \union {c \in MarkCalls : mark[c].pc = "error"}

(* afterPaid: every payment that becomes paid is handed to DispatchPaid,   *)
(* unless the one call that credited it was cut short before.              *)
PaidIsDispatched ==
  \A p \in PayIds : pay[p].status = "paid" ~>
    \/ \E n \in notified : n[2] = p
    \/ \E x \in credited : x[2] = p /\ x[1] \in CutShort

-----------------------------------------------------------------------------
(* README: a claim "marks it paid, and dispatches webhooks": the payment of *)
(* a claim that is answered with success, be it the repetition of a claim  *)
(* that was cut short, is handed to DispatchPaid.                          *)
AnsweredIsDispatched ==
  \A c \in ClaimCalls :
    claim[c].pc \in {"ok", "already"} ~> \E n \in notified : n[2] = claim[c].hit
=============================================================================
