------------------------- MODULE PaymentStoreProofs -------------------------
(***************************************************************************)
(* The safety of the payment tables for any number of calls, orders, apps  *)
(* and pay-ins and for any limits.  TypeOK is inductive; Inv adds what the *)
(* row locks and the unique keys mean between the statements of a call.    *)
(***************************************************************************)
EXTENDS PaymentStore, TLAPS


-----------------------------------------------------------------------------
LEMMA InitType == Init => TypeOK
  BY CallAssumption, InputAssumption
  DEF Init, TypeOK, Row, Status, CreateCall, CreatePc, CreateDone, ClaimCall, ClaimPc,
      ClaimDone, InTx, MarkCall, MarkPc, MarkDone

LEMMA CreateGotoType ==
  ASSUME create \in [CreateCalls -> CreateCall], NEW c \in CreateCalls,
         NEW pc \in CreatePc, NEW got \in PayIds \union {None}, CreateGoto(c, pc, got)
  PROVE  create' \in [CreateCalls -> CreateCall]
  BY DEF CreateGoto, CreateCall

LEMMA CreateType ==
  ASSUME TypeOK, NEW c \in CreateCalls, CreateLookup(c) \/ CreateRest(c) \/ CreateFail(c)
  PROVE  TypeOK'
<1> USE CallAssumption, InputAssumption
    DEF TypeOK, CreateCall, CreatePc, CreateDone, CreateGoto, tables, history
<1>1. CASE CreateLookup(c)
  BY <1>1 DEF CreateLookup, Rows, PayIds
<1>2. CASE CreateInsert(c)
  <2>1. create[c].in.ttl \in Nat /\ create[c].at \in Nat
    BY DEF CreateBody
  <2>2. ASSUME InsertRow(c) PROVE pay' \in [PayIds -> Row]
    <3>1. PICK t \in create[c].at .. now : \E u \in t .. now :
            pay' = [pay EXCEPT ![c] =
              [status |-> "pending", created |-> u, expires |-> t + create[c].in.ttl]]
      BY <2>2 DEF InsertRow
    <3>2. PICK u \in t .. now :
            pay' = [pay EXCEPT ![c] =
              [status |-> "pending", created |-> u, expires |-> t + create[c].in.ttl]]
      BY <3>1
    <3>3. t \in Nat /\ u \in Nat /\ t + create[c].in.ttl \in Nat
      BY <2>1
    <3>4. [status |-> "pending", created |-> u, expires |-> t + create[c].in.ttl] \in Row
      BY <3>3 DEF Row, Status
    <3> QED BY <3>2, <3>4 DEF PayIds
  <2> QED BY <1>2, <2>2 DEF CreateInsert, PayIds
<1>3. CASE CreateEvent(c)
  <2>1. events' \subseteq Event
    BY <1>3 DEF CreateEvent, AddEvent, Event, PayIds
  <2>2. create' \in [CreateCalls -> CreateCall]
    <3>1. "created" \in CreatePc /\ c \in PayIds \union {None}
      BY DEF PayIds
    <3> QED BY <1>3, <3>1, CreateGotoType DEF CreateEvent
  <2> QED BY <1>3, <2>1, <2>2 DEF CreateEvent
<1>4. CASE CreateFail(c)
  <2>1. create' \in [CreateCalls -> CreateCall]
    <3>1. "error" \in CreatePc
      OBVIOUS
    <3> QED BY <1>4, <3>1, CreateGotoType DEF CreateFail
  <2> QED BY <1>4, <2>1 DEF CreateFail
<1> QED
  BY <1>1, <1>2, <1>3, <1>4 DEF CreateRest

LEMMA ClaimMatchEffect ==
  ASSUME NEW c \in ClaimCalls, ClaimMatch(c)
  PROVE  \/ ClaimGoto(c, "notfound")
         \/ \E t \in claim[c].at .. now, p \in PayIds :
              /\ Eligible(c, p, t) /\ ~Locked(p)
              /\ claim' = [claim EXCEPT ![c].pc = "update", ![c].hit = p, ![c].at = t]
<1> DEFINE Free(t) == {p \in PayIds : Eligible(c, p, t) /\ ~Locked(p)}
<1>1. PICK t \in claim[c].at .. now :
        IF Free(t) = {}
        THEN ClaimGoto(c, "notfound")
        ELSE \E p \in Free(t) :
               /\ Oldest(p, Free(t))
               /\ claim' = [claim EXCEPT ![c].pc = "update", ![c].hit = p, ![c].at = t]
  BY DEF ClaimMatch
<1>2. CASE Free(t) = {}
  BY <1>1, <1>2
<1>3. CASE Free(t) # {}
  <2>1. \A p \in Free(t) : p \in PayIds /\ Eligible(c, p, t) /\ ~Locked(p)
    OBVIOUS
  <2> HIDE DEF Free
  <2> QED BY <1>1, <1>3, <2>1
<1> QED
  BY <1>2, <1>3

LEMMA ClaimType ==
  ASSUME TypeOK, NEW c \in ClaimCalls, ClaimLookup(c) \/ ClaimRest(c) \/ ClaimFail(c)
  PROVE  TypeOK'
<1> USE CallAssumption, InputAssumption
    DEF TypeOK, ClaimCall, ClaimPc, ClaimDone, InTx, ClaimGoto, tables, history
<1>1. CASE ClaimLookup(c)
  BY <1>1 DEF ClaimLookup, Claim
<1>2. CASE ClaimSettled(c)
  BY <1>2 DEF ClaimSettled
<1>3. CASE ClaimMatch(c)
  <2> UNCHANGED <<now, pay, claims, events, create, mark, credited, notified>>
    BY <1>3 DEF ClaimMatch
  <2>1. CASE ClaimGoto(c, "notfound")
    BY <2>1
  <2>2. CASE \E t \in claim[c].at .. now, p \in PayIds :
               claim' = [claim EXCEPT ![c].pc = "update", ![c].hit = p, ![c].at = t]
    <3>1. PICK t \in claim[c].at .. now, p \in PayIds :
               claim' = [claim EXCEPT ![c].pc = "update", ![c].hit = p, ![c].at = t]
      BY <2>2
    <3>2. t \in Nat
      OBVIOUS
    <3>3. claim' \in [ClaimCalls -> ClaimCall]
      <4>1. [claim[c] EXCEPT !.pc = "update", !.hit = p, !.at = t] \in ClaimCall
        BY <3>2
      <4> QED BY <3>1, <4>1
    <3>4. claim'[c].hit = p /\ \A d \in ClaimCalls \ {c} : claim'[d] = claim[d]
      BY <3>1
    <3> QED BY <3>3, <3>4
  <2> QED BY <1>3, <2>1, <2>2, ClaimMatchEffect
<1>4. CASE ClaimUpdate(c)
  BY <1>4 DEF ClaimUpdate
<1>5. CASE ClaimInsert(c)
  BY <1>5 DEF ClaimInsert
<1>6. CASE ClaimCommit(c)
  <2>1. claim[c].in \in ClaimBody /\ claim[c].hit \in PayIds
    BY <1>6 DEF ClaimCommit
  <2>2. pay' \in [PayIds -> Row]
    BY <1>6, <2>1 DEF ClaimCommit, SetStatus, Row, Status
  <2>3. claims' \subseteq Claim
    BY <1>6, <2>1 DEF ClaimCommit, Claim, ClaimBody
  <2>4. credited' \subseteq (ClaimCalls \union MarkCalls) \X PayIds
    BY <1>6, <2>1 DEF ClaimCommit
  <2> QED BY <1>6, <2>2, <2>3, <2>4 DEF ClaimCommit
<1>7. CASE ClaimEvent(c)
  BY <1>7 DEF ClaimEvent, AddEvent, Event
<1>8. CASE ClaimNotify(c)
  BY <1>8 DEF ClaimNotify
<1>9. CASE ClaimFail(c)
  BY <1>9 DEF ClaimFail
<1> QED
  BY <1>1, <1>2, <1>3, <1>4, <1>5, <1>6, <1>7, <1>8, <1>9 DEF ClaimRest

LEMMA MarkType ==
  ASSUME TypeOK, NEW c \in MarkCalls, MarkLookup(c) \/ MarkRest(c) \/ MarkFail(c)
  PROVE  TypeOK'
<1> USE CallAssumption DEF TypeOK, MarkCall, MarkPc, MarkDone, MarkGoto, tables, history
<1>1. CASE MarkLookup(c)
  BY <1>1 DEF MarkLookup
<1>2. CASE MarkUpdate(c)
  <2>1. pay' \in [PayIds -> Row]
    BY <1>2 DEF MarkUpdate, SetStatus, Row, Status
  <2>2. mark[c].target \in PayIds
    OBVIOUS
  <2>3. credited' \subseteq (ClaimCalls \union MarkCalls) \X PayIds
    BY <1>2, <2>2 DEF MarkUpdate
  <2> QED BY <1>2, <2>1, <2>3 DEF MarkUpdate
<1>3. CASE MarkRecheck(c)
  BY <1>3 DEF MarkRecheck
<1>4. CASE MarkEvent(c)
  BY <1>4 DEF MarkEvent, AddEvent, Event
<1>5. CASE MarkNotify(c)
  BY <1>5 DEF MarkNotify
<1>6. CASE MarkFail(c)
  BY <1>6 DEF MarkFail
<1> QED
  BY <1>1, <1>2, <1>3, <1>4, <1>5, <1>6 DEF MarkRest

LEMMA StepType == TypeOK /\ [Next]_vars => TypeOK'
<1> SUFFICES ASSUME TypeOK, [Next]_vars PROVE TypeOK'
  OBVIOUS
<1>1. CASE Tick
  BY <1>1 DEF Tick, TypeOK, tables, history
<1>2. CASE Sweep
  <2>1. pay' \in [PayIds -> Row]
    BY <1>2 DEF Sweep, TypeOK, Row, Status
  <2> QED BY <1>2, <2>1 DEF Sweep, TypeOK, history
<1>3. CASE UNCHANGED vars
  BY <1>3 DEF TypeOK, vars
<1> QED
  BY <1>1, <1>2, <1>3, CreateType, ClaimType, MarkType DEF Next, Quiet

(* Every row, call and history entry of the payment service keeps its      *)
(* shape, and a claim that works on a row has one.                         *)
THEOREM StoreTypeCorrect == Spec => []TypeOK
  BY InitType, StepType, PTL DEF Spec
-----------------------------------------------------------------------------
(* What holds between the statements of the calls.                         *)

\* A call's uuid is not in the table before its INSERT.
FreshIds == \A c \in CreateCalls : create[c].pc \in {"idle", "insert"} => c \notin Rows

\* A create call's answer is a payment of its order.
AnswerIsRow(c) ==
  /\ create[c].pc \in {"event", "created", "existing"} =>
       \E p \in Rows : p = create[c].got /\ SameOrder(p, c)
  /\ create[c].pc = "event" => create[c].got = c

AnswersAreRows == \A c \in CreateCalls : AnswerIsRow(c)

OrdersUnique == \A p, q \in Rows : SameOrder(p, q) => p = q

\* A row lock of a claim keeps its row as the match found it.
LockedRows ==
  \A c \in ClaimCalls : claim[c].pc \in InTx =>
    /\ pay[claim[c].hit].status = "pending"
    /\ AppOf(claim[c].hit) = claim[c].in.app
    /\ AmountOf(claim[c].hit) = claim[c].in.amount
    /\ pay[claim[c].hit].expires > claim[c].at
    /\ pay[claim[c].hit].created >= claim[c].in.paidAt - Lookback
    /\ pay[claim[c].hit].created <= claim[c].in.paidAt + Skew

LocksExclusive ==
  \A c, d \in ClaimCalls :
    claim[c].pc \in InTx /\ claim[d].pc \in InTx /\ claim[c].hit = claim[d].hit => c = d

\* The key of an uncommitted payment_claims row is not there and not in
\* another transaction.
KeyReserved ==
  \A c \in ClaimCalls : claim[c].pc = "commit" =>
    /\ ~KeyTaken(claim[c].in.key)
    /\ \A d \in ClaimCalls : claim[d].pc = "commit" /\ claim[d].in.key = claim[c].in.key => c = d

SettledFound ==
  \A c \in ClaimCalls : claim[c].pc = "settled" =>
    \E r \in claims : r.key = claim[c].in.key /\ r.pay = claim[c].hit

\* A claim credits in its commit, the row it holds, and goes on to afterPaid.
ClaimCredits ==
  \A c \in ClaimCalls :
    /\ claim[c].pc \in {"event", "notify"} => <<c, claim[c].hit>> \in credited
    /\ \A p \in PayIds : <<c, p>> \in credited =>
         claim[c].pc \in {"event", "notify", "ok", "error"}

\* afterPaid runs in a mark call only for a paid payment.
MarkSeesPaid ==
  \A c \in MarkCalls : mark[c].pc \in {"event", "notify"} => pay[mark[c].target].status = "paid"

CreateInv == FreshIds /\ AnswersAreRows /\ OrdersUnique
LockInv == LockedRows /\ LocksExclusive /\ KeyReserved
CreditInv == SettledFound /\ ClaimCredits /\ MarkSeesPaid
GoalInv == SettledOnce /\ CreditedOnce /\ ClaimInWindow /\ ConflictIsForeign
             /\ NotifyOnlyPaid /\ ClaimNotifiesOwn

Inv == TypeOK /\ CreateInv /\ LockInv /\ CreditInv /\ GoalInv

CreateStep(c) == CreateLookup(c) \/ CreateRest(c) \/ CreateFail(c)
ClaimStep(c) == ClaimLookup(c) \/ ClaimRest(c) \/ ClaimFail(c)
MarkStep(c) == MarkLookup(c) \/ MarkRest(c) \/ MarkFail(c)

LEMMA StepKinds ==
  ASSUME [Next]_vars
  PROVE  \/ UNCHANGED <<tables, create, claim, mark, history>>
         \/ Sweep
         \/ \E c \in CreateCalls : CreateStep(c)
         \/ \E c \in ClaimCalls : ClaimStep(c)
         \/ \E c \in MarkCalls : MarkStep(c)
  BY DEF Next, Tick, Quiet, vars, tables, history, CreateStep, ClaimStep, MarkStep

LEMMA InitInv == Init => Inv
<1> SUFFICES ASSUME Init PROVE Inv
  OBVIOUS
<1> TypeOK
  BY InitType
<1>1. Rows = {}
  BY DEF Init, Rows
<1>2. CreateInv
  BY <1>1 DEF Init, CreateInv, FreshIds, AnswersAreRows, AnswerIsRow, OrdersUnique
<1>3. LockInv
  BY DEF Init, LockInv, LockedRows, LocksExclusive, KeyReserved, InTx
<1>4. CreditInv
  BY DEF Init, CreditInv, SettledFound, ClaimCredits, MarkSeesPaid
<1>5. GoalInv
  BY DEF Init, GoalInv, SettledOnce, CreditedOnce, ClaimInWindow, ConflictIsForeign,
         NotifyOnlyPaid, ClaimNotifiesOwn
<1> QED
  BY <1>2, <1>3, <1>4, <1>5 DEF Inv

-----------------------------------------------------------------------------
(* A create call inserts at most its own row.                              *)
LEMMA CreateFrame ==
  ASSUME TypeOK, NEW c \in CreateCalls, CreateStep(c)
  PROVE  /\ UNCHANGED <<claims, claim, mark, credited, notified>>
         /\ \A d \in CreateCalls : create'[d].in = create[d].in
         /\ \A d \in CreateCalls \ {c} : create'[d] = create[d]
         /\ \A p \in PayIds \ {c} : pay'[p] = pay[p]
         /\ events \subseteq events'
         /\ \A e \in events' : e \in events \/ e.type = "payment.created"
<1> USE DEF TypeOK, CreateCall, CreateGoto, tables, history, PayIds
<1>1. CASE CreateLookup(c)
  BY <1>1 DEF CreateLookup
<1>2. CASE CreateInsert(c)
  BY <1>2 DEF CreateInsert, InsertRow
<1>3. CASE CreateEvent(c)
  BY <1>3 DEF CreateEvent, AddEvent
<1>4. CASE CreateFail(c)
  BY <1>4 DEF CreateFail
<1> QED
  BY <1>1, <1>2, <1>3, <1>4 DEF CreateStep, CreateRest

LEMMA CreateTable ==
  ASSUME Inv, NEW c \in CreateCalls, CreateStep(c)
  PROVE  \/ pay' = pay
         \/ /\ create[c].pc = "insert" /\ create'[c].pc = "event" /\ create'[c].got = c
            /\ pay[c].status = "absent" /\ pay'[c].status = "pending"
            /\ ~OrderTaken(c)
<1> USE DEF Inv, TypeOK, CreateCall, CreateGoto, tables, PayIds
<1>1. CASE CreateLookup(c)
  BY <1>1 DEF CreateLookup
<1>2. CASE CreateInsert(c)
  <2>1. pay[c].status = "absent"
    BY <1>2 DEF CreateInsert, CreateInv, FreshIds, Rows
  <2>2. CASE OrderTaken(c)
    BY <1>2, <2>2 DEF CreateInsert
  <2>3. CASE ~OrderTaken(c)
    <3>1. InsertRow(c) => pay'[c].status = "pending"
      BY DEF InsertRow
    <3> QED BY <1>2, <2>1, <2>3, <3>1 DEF CreateInsert
  <2> QED BY <2>2, <2>3
<1>3. CASE CreateEvent(c)
  BY <1>3 DEF CreateEvent
<1>4. CASE CreateFail(c)
  BY <1>4 DEF CreateFail
<1> QED
  BY <1>1, <1>2, <1>3, <1>4 DEF CreateStep, CreateRest

LEMMA CreateKeeps ==
  ASSUME Inv, NEW c \in CreateCalls, CreateStep(c)
  PROVE  CreateInv' /\ LockInv' /\ CreditInv' /\ GoalInv'
<1>1. /\ UNCHANGED <<claims, claim, mark, credited, notified>>
      /\ \A d \in CreateCalls : create'[d].in = create[d].in
      /\ \A d \in CreateCalls \ {c} : create'[d] = create[d]
      /\ \A p \in PayIds \ {c} : pay'[p] = pay[p]
      /\ \A e \in events' : e \in events \/ e.type = "payment.created"
  BY CreateFrame DEF Inv
<1>2. \/ pay' = pay
      \/ /\ create[c].pc = "insert" /\ create'[c].pc = "event" /\ create'[c].got = c
         /\ pay[c].status = "absent" /\ pay'[c].status = "pending"
         /\ ~OrderTaken(c)
  BY CreateTable
<1>3. \A p \in Rows : pay'[p] = pay[p]
  BY <1>1, <1>2 DEF Rows, Inv
<1>4. Rows \subseteq Rows' /\ Rows' \subseteq Rows \union {c}
  BY <1>1, <1>2, <1>3 DEF Rows
<1>5. c \in Rows' => c \in Rows \/ (create'[c].pc = "event" /\ create'[c].got = c /\ ~OrderTaken(c))
  BY <1>2 DEF Rows
<1>6. \A p, q \in PayIds : SameOrder(p, q)' <=> SameOrder(p, q)
  BY <1>1 DEF SameOrder, AppOf, OrderOf, PayIds
<1>7. FreshIds'
  <2>1. create'[c].pc \in {"idle", "insert"} => create[c].pc \in {"idle", "insert"}
    BY DEF CreateStep, CreateRest, CreateLookup, CreateInsert, CreateEvent, CreateFail,
           CreateGoto, Inv, TypeOK, CreateCall
  <2> QED BY <1>1, <1>4, <1>5, <2>1 DEF FreshIds, Inv, CreateInv
<1>8. ASSUME NEW d \in CreateCalls PROVE AnswerIsRow(d)'
  <2>1. AnswerIsRow(d)
    BY DEF Inv, CreateInv, AnswersAreRows
  <2>2. ASSUME NEW p \in Rows, SameOrder(p, d) PROVE p \in Rows' /\ SameOrder(p, d)'
    BY <1>4, <1>6, <2>2 DEF Rows, PayIds
  <2>3. CASE d # c
    BY <1>1, <2>1, <2>2, <2>3 DEF AnswerIsRow
  <2>4. CASE d = c
    <3> USE <2>4 DEF CreateGoto, Inv, TypeOK, CreateCall, PayIds
    <3>1. SameOrder(c, c)
      BY DEF SameOrder
    <3>2. CASE CreateLookup(c)
      <4>1. \/ create'[c].pc \in {"insert", "rejected"}
            \/ create'[c].pc = "existing" /\ \E p \in Rows : SameOrder(p, c) /\ create'[c].got = p
        BY <3>2 DEF CreateLookup
      <4> QED BY <4>1, <2>2 DEF AnswerIsRow
    <3>3. CASE CreateInsert(c)
      <4>1. \/ create'[c].pc = "failed"
            \/ create'[c].pc = "event" /\ create'[c].got = c /\ InsertRow(c)
        BY <3>3 DEF CreateInsert
      <4>2. InsertRow(c) => c \in Rows'
        BY DEF InsertRow, Rows
      <4> QED BY <1>6, <3>1, <4>1, <4>2 DEF AnswerIsRow
    <3>4. CASE CreateEvent(c)
      <4>1. c \in Rows /\ create'[c].pc = "created" /\ create'[c].got = c
        BY <3>4, <2>1 DEF CreateEvent, AnswerIsRow
      <4> QED BY <3>1, <4>1, <2>2 DEF AnswerIsRow
    <3>5. CASE CreateFail(c)
      BY <3>5 DEF CreateFail, AnswerIsRow
    <3> QED BY <3>2, <3>3, <3>4, <3>5 DEF CreateStep, CreateRest
  <2> QED BY <2>3, <2>4
<1>9. OrdersUnique'
  <2> SUFFICES ASSUME NEW p \in Rows', NEW q \in Rows', SameOrder(p, q)' PROVE p = q
    BY DEF OrdersUnique
  <2>1. p \in PayIds /\ q \in PayIds /\ SameOrder(p, q) /\ SameOrder(q, p)
    BY <1>6 DEF Rows, SameOrder
  <2> QED BY <1>4, <1>5, <2>1 DEF Inv, CreateInv, OrdersUnique, OrderTaken
<1>10. \A p \in PayIds : /\ AppOf(p)' = AppOf(p) /\ AmountOf(p)' = AmountOf(p)
                         /\ pay'[p].status = "paid" <=> pay[p].status = "paid"
                         /\ pay[p].status # "absent" => pay'[p] = pay[p]
  BY <1>1, <1>2, <1>3 DEF AppOf, AmountOf, PayIds, Rows
<1>11. LockInv'
  BY <1>1, <1>10 DEF LockInv, LockedRows, LocksExclusive, KeyReserved, KeyTaken, Inv, TypeOK, InTx
<1>12. CreditInv'
  BY <1>1, <1>10 DEF CreditInv, SettledFound, ClaimCredits, MarkSeesPaid, Inv, TypeOK, MarkCall
<1>13. SettledOnce' /\ CreditedOnce'
  BY <1>1, <1>10 DEF GoalInv, SettledOnce, CreditedOnce, Inv, TypeOK, Claim
<1>14. ClaimInWindow' /\ ConflictIsForeign'
  <2>1. \A d \in ClaimCalls, p \in PayIds : <<d, p>> \in credited => pay[p].status = "paid"
    BY DEF Inv, GoalInv, CreditedOnce
  <2>2. ClaimInWindow'
    BY <1>1, <1>10, <2>1 DEF GoalInv, ClaimInWindow, Inv
  <2>3. ConflictIsForeign'
    BY <1>1, <1>10 DEF GoalInv, ConflictIsForeign, Inv, TypeOK, Claim
  <2> QED BY <2>2, <2>3
<1>15. NotifyOnlyPaid' /\ ClaimNotifiesOwn'
  BY <1>1, <1>10 DEF GoalInv, NotifyOnlyPaid, ClaimNotifiesOwn, Inv, TypeOK, Event
<1> QED
  BY <1>7, <1>8, <1>9, <1>11, <1>12, <1>13, <1>14, <1>15 DEF CreateInv, AnswersAreRows, GoalInv

-----------------------------------------------------------------------------
(* The steps that only move payments from "pending" on keep what is said   *)
(* of the rows and of the create calls.                                    *)
LEMMA RowsFixed ==
  ASSUME TypeOK, CreateInv, UNCHANGED create,
         \A p \in PayIds : pay'[p].status = "absent" <=> pay[p].status = "absent"
  PROVE  CreateInv'
<1>1. Rows' = Rows
  BY DEF Rows
<1>2. \A p, q : SameOrder(p, q)' <=> SameOrder(p, q)
  BY DEF SameOrder, AppOf, OrderOf
<1> QED
  BY <1>1, <1>2 DEF CreateInv, FreshIds, AnswersAreRows, AnswerIsRow, OrdersUnique

LEMMA SweepKeeps ==
  ASSUME Inv, Sweep
  PROVE  CreateInv' /\ LockInv' /\ CreditInv' /\ GoalInv'
<1>1. PICK S \in SUBSET Rows :
        /\ \A p \in S : pay[p].status = "pending" /\ ~Locked(p)
        /\ pay' = [p \in PayIds |->
             IF p \in S THEN [pay[p] EXCEPT !.status = "expired"] ELSE pay[p]]
  BY DEF Sweep, Batch, Due
<1>2. UNCHANGED <<claims, events, create, claim, mark, credited, notified>>
  BY DEF Sweep, history
<1>3. \A p \in PayIds :
        /\ pay'[p].created = pay[p].created /\ pay'[p].expires = pay[p].expires
        /\ pay'[p].status = pay[p].status
             \/ (pay[p].status = "pending" /\ pay'[p].status = "expired" /\ ~Locked(p))
  BY <1>1 DEF Inv, TypeOK, Row
<1>4. CreateInv'
  BY <1>2, <1>3, RowsFixed DEF Inv
<1>5. \A p : AppOf(p)' = AppOf(p) /\ AmountOf(p)' = AmountOf(p)
  BY <1>2 DEF AppOf, AmountOf
<1>6. LockInv'
  BY <1>2, <1>3, <1>5
  DEF LockInv, LockedRows, LocksExclusive, KeyReserved, KeyTaken, Locked, InTx, Inv, TypeOK
<1>7. CreditInv'
  BY <1>2, <1>3 DEF CreditInv, SettledFound, ClaimCredits, MarkSeesPaid, Inv, TypeOK, MarkCall
<1>8. GoalInv'
  BY <1>2, <1>3, <1>5
  DEF GoalInv, SettledOnce, CreditedOnce, ClaimInWindow, ConflictIsForeign, NotifyOnlyPaid,
      ClaimNotifiesOwn, Inv, TypeOK, Claim, Event
<1> QED
  BY <1>4, <1>6, <1>7, <1>8

-----------------------------------------------------------------------------
LEMMA MarkFrame ==
  ASSUME TypeOK, NEW c \in MarkCalls, MarkStep(c)
  PROVE  /\ UNCHANGED <<create, claim, claims>>
         /\ \A d \in MarkCalls : mark'[d].target = mark[d].target
         /\ \A d \in MarkCalls \ {c} : mark'[d] = mark[d]
         /\ \/ UNCHANGED <<pay, credited>>
            \/ /\ mark'[c].pc = "event"
               /\ pay[mark[c].target].status = "pending" /\ ~Locked(mark[c].target)
               /\ pay' = [pay EXCEPT ![mark[c].target].status = "paid"]
               /\ credited' = credited \union {<<c, mark[c].target>>}
<1> USE DEF TypeOK, MarkCall, MarkGoto, tables, history
<1>1. CASE MarkLookup(c)
  BY <1>1 DEF MarkLookup
<1>2. CASE MarkUpdate(c)
  BY <1>2 DEF MarkUpdate, SetStatus, Markable
<1>3. CASE MarkRecheck(c)
  BY <1>3 DEF MarkRecheck
<1>4. CASE MarkEvent(c)
  BY <1>4 DEF MarkEvent
<1>5. CASE MarkNotify(c)
  BY <1>5 DEF MarkNotify
<1>6. CASE MarkFail(c)
  BY <1>6 DEF MarkFail
<1> QED
  BY <1>1, <1>2, <1>3, <1>4, <1>5, <1>6 DEF MarkStep, MarkRest

LEMMA MarkTells ==
  ASSUME Inv, NEW c \in MarkCalls, MarkStep(c)
  PROVE  /\ mark'[c].pc \in {"event", "notify"} => pay'[mark[c].target].status = "paid"
         /\ \A e \in events' \ events :
              e.type = "payment.paid" /\ e.pay = mark[c].target /\ pay'[e.pay].status = "paid"
         /\ \A n \in notified' \ notified :
              n = <<c, mark[c].target>> /\ pay'[mark[c].target].status = "paid"
<1> USE DEF Inv, TypeOK, MarkCall, MarkGoto, tables, history, CreditInv, MarkSeesPaid
<1>1. CASE MarkLookup(c)
  BY <1>1 DEF MarkLookup
<1>2. CASE MarkUpdate(c)
  BY <1>2 DEF MarkUpdate, SetStatus, Markable, Row
<1>3. CASE MarkRecheck(c)
  BY <1>3 DEF MarkRecheck
<1>4. CASE MarkEvent(c)
  BY <1>4 DEF MarkEvent, AddEvent
<1>5. CASE MarkNotify(c)
  BY <1>5 DEF MarkNotify
<1>6. CASE MarkFail(c)
  BY <1>6 DEF MarkFail
<1> QED
  BY <1>1, <1>2, <1>3, <1>4, <1>5, <1>6 DEF MarkStep, MarkRest

LEMMA MarkKeeps ==
  ASSUME Inv, NEW c \in MarkCalls, MarkStep(c)
  PROVE  CreateInv' /\ LockInv' /\ CreditInv' /\ GoalInv'
<1> DEFINE q == mark[c].target
<1>1. q \in PayIds /\ TypeOK
  BY DEF Inv, TypeOK, MarkCall
<1>2. /\ UNCHANGED <<create, claim, claims>>
      /\ \A d \in MarkCalls : mark'[d].target = mark[d].target
      /\ \A d \in MarkCalls \ {c} : mark'[d] = mark[d]
  BY <1>1, MarkFrame
<1>3. \/ UNCHANGED <<pay, credited>>
      \/ /\ pay[q].status = "pending" /\ ~Locked(q)
         /\ pay' = [pay EXCEPT ![q].status = "paid"]
         /\ credited' = credited \union {<<c, q>>}
  BY <1>1, MarkFrame
<1>4. /\ mark'[c].pc \in {"event", "notify"} => pay'[q].status = "paid"
      /\ \A e \in events' \ events : e.pay = q /\ pay'[q].status = "paid"
      /\ \A n \in notified' \ notified : n = <<c, q>> /\ pay'[q].status = "paid"
  BY MarkTells
<1> HIDE DEF q
<1>5. \A p \in PayIds :
        /\ pay'[p].created = pay[p].created /\ pay'[p].expires = pay[p].expires
        /\ pay'[p].status = pay[p].status
             \/ (p = q /\ pay[p].status = "pending" /\ pay'[p].status = "paid" /\ ~Locked(p))
  BY <1>1, <1>3 DEF TypeOK, Row
<1>6. CreateInv'
  BY <1>1, <1>2, <1>5, RowsFixed DEF Inv
<1>7. \A p : AppOf(p)' = AppOf(p) /\ AmountOf(p)' = AmountOf(p)
  BY <1>2 DEF AppOf, AmountOf
<1>8. LockInv'
  BY <1>2, <1>5, <1>7
  DEF LockInv, LockedRows, LocksExclusive, KeyReserved, KeyTaken, Locked, InTx, Inv, TypeOK
<1>9. c \notin ClaimCalls
  BY CallAssumption
<1>10. \A d \in ClaimCalls, p \in PayIds : <<d, p>> \in credited' <=> <<d, p>> \in credited
  BY <1>3, <1>9
<1>11. SettledFound' /\ ClaimCredits'
  BY <1>2, <1>10 DEF CreditInv, SettledFound, ClaimCredits, Inv, TypeOK, InTx
<1>12. MarkSeesPaid'
  BY <1>1, <1>2, <1>4, <1>5 DEF CreditInv, MarkSeesPaid, Inv, TypeOK, MarkCall, q
<1>13. SettledOnce' /\ ConflictIsForeign'
  BY <1>2, <1>5, <1>7 DEF GoalInv, SettledOnce, ConflictIsForeign, Inv, TypeOK, Claim
<1>14. CreditedOnce'
  <2>1. CASE UNCHANGED <<pay, credited>>
    BY <2>1 DEF GoalInv, CreditedOnce, Inv
  <2>2. CASE pay[q].status = "pending" /\ pay'[q].status = "paid"
             /\ credited' = credited \union {<<c, q>>}
    <3>1. \A x \in credited : x[2] # q
      BY <1>1, <2>2 DEF GoalInv, CreditedOnce, Inv
    <3>2. \A x, y \in credited' : x[2] = y[2] => x = y
      BY <2>2, <3>1 DEF GoalInv, CreditedOnce, Inv
    <3>3. \E x \in credited' : x[2] = q
      <4>1. <<c, q>> \in credited' /\ <<c, q>>[2] = q
        BY <2>2
      <4> QED BY <4>1
    <3>4. ASSUME NEW p \in PayIds, p # q
          PROVE  pay'[p].status = "paid" <=> \E x \in credited' : x[2] = p
      BY <1>5, <2>2, <3>4 DEF GoalInv, CreditedOnce, Inv
    <3> QED BY <1>1, <2>2, <3>2, <3>3, <3>4 DEF CreditedOnce
  <2> QED BY <1>1, <1>3, <2>1, <2>2 DEF TypeOK, Row
<1>15. ClaimInWindow'
  BY <1>2, <1>5, <1>7, <1>10 DEF GoalInv, ClaimInWindow, Inv
<1>16. NotifyOnlyPaid'
  <2>1. \A n \in notified : n[2] \in PayIds
    BY <1>1 DEF TypeOK
  <2>2. \A e \in events : e.pay \in PayIds
    BY <1>1 DEF TypeOK, Event
  <2> QED BY <1>4, <1>5, <2>1, <2>2 DEF GoalInv, NotifyOnlyPaid, Inv
<1>17. ClaimNotifiesOwn'
  BY <1>3, <1>4, <1>9 DEF GoalInv, ClaimNotifiesOwn, Inv
<1> QED
  BY <1>6, <1>8, <1>11, <1>12, <1>13, <1>14, <1>15, <1>16, <1>17 DEF CreditInv, GoalInv

-----------------------------------------------------------------------------
LEMMA ClaimFrame ==
  ASSUME TypeOK, NEW c \in ClaimCalls, ClaimStep(c)
  PROVE  /\ UNCHANGED <<create, mark>>
         /\ \A d \in ClaimCalls : claim'[d].in = claim[d].in
         /\ \A d \in ClaimCalls \ {c} : claim'[d] = claim[d]
         /\ UNCHANGED <<pay, claims, credited>> \/ ClaimCommit(c)
<1> USE DEF TypeOK, ClaimCall, ClaimGoto, tables, history
<1>1. CASE ClaimLookup(c)
  BY <1>1 DEF ClaimLookup
<1>2. CASE ClaimSettled(c)
  BY <1>2 DEF ClaimSettled
<1>3. CASE ClaimMatch(c)
  <2>1. UNCHANGED <<create, mark, pay, claims, credited>>
    BY <1>3 DEF ClaimMatch
  <2>2. ASSUME NEW d \in ClaimCalls PROVE claim'[d].in = claim[d].in
    <3>1. CASE ClaimGoto(c, "notfound")
      BY <3>1
    <3>2. ASSUME NEW t \in claim[c].at .. now, NEW p \in PayIds,
                 claim' = [claim EXCEPT ![c].pc = "update", ![c].hit = p, ![c].at = t]
          PROVE  claim'[d].in = claim[d].in
      BY <3>2
    <3> QED BY <1>3, <3>1, <3>2, ClaimMatchEffect
  <2>3. \A d \in ClaimCalls \ {c} : claim'[d] = claim[d]
    BY <1>3, ClaimMatchEffect
  <2> QED BY <2>1, <2>2, <2>3
<1>4. CASE ClaimUpdate(c)
  BY <1>4 DEF ClaimUpdate
<1>5. CASE ClaimInsert(c)
  BY <1>5 DEF ClaimInsert
<1>6. CASE ClaimCommit(c)
  BY <1>6 DEF ClaimCommit
<1>7. CASE ClaimEvent(c)
  BY <1>7 DEF ClaimEvent
<1>8. CASE ClaimNotify(c)
  BY <1>8 DEF ClaimNotify
<1>9. CASE ClaimFail(c)
  BY <1>9 DEF ClaimFail
<1> QED
  BY <1>1, <1>2, <1>3, <1>4, <1>5, <1>6, <1>7, <1>8, <1>9 DEF ClaimStep, ClaimRest

\* A claim call by where it stands before and after its step.
ClaimMove(c) ==
  \/ claim[c].pc = "idle" /\ claim'[c].pc = "match"
  \/ /\ claim[c].pc = "idle" /\ claim'[c].pc = "settled"
     /\ \E r \in claims : r.key = claim[c].in.key /\ r.pay = claim'[c].hit
  \/ /\ claim[c].pc = "settled" /\ claim'[c].pc \in {"already", "conflict"}
     /\ claim'[c].pc = "conflict" => AppOf(claim[c].hit) # claim[c].in.app
  \/ claim[c].pc = "match" /\ claim'[c].pc = "notfound"
  \/ /\ claim[c].pc = "match" /\ claim'[c].pc = "update"
     /\ claim'[c].hit \in PayIds /\ ~Locked(claim'[c].hit)
     /\ Eligible(c, claim'[c].hit, claim'[c].at)
  \/ /\ claim[c].pc = "insert" /\ claim'[c].pc = "commit"
     /\ ~KeyTaken(claim[c].in.key)
     /\ \A d \in ClaimCalls \ {c} : claim[d].pc = "commit" => claim[d].in.key # claim[c].in.key
  \/ /\ claim'[c].hit = claim[c].hit /\ claim'[c].at = claim[c].at
     /\ \/ claim[c].pc = "update" /\ claim'[c].pc = "insert"
        \/ claim[c].pc = "insert" /\ claim'[c].pc = "failed"
        \/ claim[c].pc = "event" /\ claim'[c].pc = "notify"
        \/ claim[c].pc = "notify" /\ claim'[c].pc = "ok"
        \/ claim'[c].pc = "error"

\* The row and the clock a claim has picked stay with it.
ClaimKeepsPick(c) ==
  claim[c].pc \notin {"idle", "match"} => claim'[c].hit = claim[c].hit /\ claim'[c].at = claim[c].at

\* What a claim call does to events and to notified.
ClaimTells(c) ==
  /\ \A e \in events' \ events : claim[c].pc = "event" /\ e.pay = claim[c].hit
  /\ \A n \in notified' \ notified : claim[c].pc = "notify" /\ n = <<c, claim[c].hit>>

LEMMA ClaimMoves ==
  ASSUME Inv, NEW c \in ClaimCalls, ClaimStep(c)
  PROVE  /\ ClaimMove(c) \/ ClaimCommit(c)
         /\ ClaimKeepsPick(c)
         /\ ClaimTells(c)
<1> USE DEF Inv, TypeOK, ClaimCall, ClaimGoto, tables, history, ClaimKeepsPick, ClaimTells
<1>1. CASE ClaimLookup(c)
  <2>1. CASE KeyTaken(claim[c].in.key)
    BY <1>1, <2>1 DEF ClaimLookup, ClaimMove, Claim
  <2>2. CASE ~KeyTaken(claim[c].in.key)
    BY <1>1, <2>2 DEF ClaimLookup, ClaimMove
  <2> QED BY <2>1, <2>2
<1>2. CASE ClaimSettled(c)
  BY <1>2 DEF ClaimSettled, ClaimMove
<1>3. CASE ClaimMatch(c)
  <2>1. UNCHANGED <<events, notified>> /\ claim[c].pc = "match"
    BY <1>3 DEF ClaimMatch
  <2>2. CASE ClaimGoto(c, "notfound")
    BY <2>1, <2>2 DEF ClaimMove
  <2>3. CASE \E t \in claim[c].at .. now, p \in PayIds :
               /\ Eligible(c, p, t) /\ ~Locked(p)
               /\ claim' = [claim EXCEPT ![c].pc = "update", ![c].hit = p, ![c].at = t]
    <3>1. PICK t \in claim[c].at .. now, p \in PayIds :
               /\ Eligible(c, p, t) /\ ~Locked(p)
               /\ claim' = [claim EXCEPT ![c].pc = "update", ![c].hit = p, ![c].at = t]
      BY <2>3
    <3>2. claim'[c].pc = "update" /\ claim'[c].hit = p /\ claim'[c].at = t
      BY <3>1
    <3> QED BY <2>1, <3>1, <3>2 DEF ClaimMove
  <2> QED BY <1>3, <2>2, <2>3, ClaimMatchEffect
<1>4. CASE ClaimUpdate(c)
  BY <1>4 DEF ClaimUpdate, ClaimMove, LockInv, LockedRows, InTx
<1>5. CASE ClaimInsert(c)
  <2>1. CASE KeyTaken(claim[c].in.key)
    BY <1>5, <2>1 DEF ClaimInsert, ClaimMove
  <2>2. CASE ~KeyTaken(claim[c].in.key)
    BY <1>5, <2>2 DEF ClaimInsert, ClaimMove
  <2> QED BY <2>1, <2>2
<1>6. CASE ClaimCommit(c)
  BY <1>6 DEF ClaimCommit
<1>7. CASE ClaimEvent(c)
  BY <1>7 DEF ClaimEvent, ClaimMove, AddEvent
<1>8. CASE ClaimNotify(c)
  BY <1>8 DEF ClaimNotify, ClaimMove
<1>9. CASE ClaimFail(c)
  BY <1>9 DEF ClaimFail, ClaimMove
<1> QED
  BY <1>1, <1>2, <1>3, <1>4, <1>5, <1>6, <1>7, <1>8, <1>9 DEF ClaimStep, ClaimRest

LEMMA ClaimMoveKeeps ==
  ASSUME Inv, NEW c \in ClaimCalls, ClaimStep(c), ClaimMove(c), UNCHANGED <<pay, claims, credited>>
  PROVE  CreateInv' /\ LockInv' /\ CreditInv' /\ GoalInv'
<1>1. /\ UNCHANGED <<create, mark>>
      /\ \A d \in ClaimCalls : claim'[d].in = claim[d].in
      /\ \A d \in ClaimCalls \ {c} : claim'[d] = claim[d]
  BY ClaimFrame DEF Inv
<1>2. ClaimKeepsPick(c) /\ ClaimTells(c)
  BY ClaimMoves
<1>3. TypeOK /\ claim[c].in \in ClaimInputs
  BY DEF Inv, TypeOK, ClaimCall
<1>4. CreateInv'
  BY <1>1, RowsFixed DEF Inv
<1>5. \A p : AppOf(p)' = AppOf(p) /\ AmountOf(p)' = AmountOf(p)
  BY <1>1 DEF AppOf, AmountOf
<1>6. claim'[c].pc \in InTx =>
        \/ claim[c].pc \in InTx /\ claim'[c].hit = claim[c].hit /\ claim'[c].at = claim[c].at
        \/ ~Locked(claim'[c].hit) /\ Eligible(c, claim'[c].hit, claim'[c].at)
  BY <1>2 DEF ClaimMove, ClaimKeepsPick, InTx
<1>7. LockedRows'
  BY <1>1, <1>5, <1>6 DEF LockedRows, Eligible, Inv, LockInv
<1>8. LocksExclusive'
  BY <1>1, <1>6 DEF LocksExclusive, Locked, Inv, LockInv
<1>9. claim'[c].pc = "commit" =>
        \/ claim[c].pc = "commit"
        \/ /\ ~KeyTaken(claim[c].in.key)
           /\ \A d \in ClaimCalls \ {c} : claim[d].pc = "commit" => claim[d].in.key # claim[c].in.key
  BY DEF ClaimMove
<1>10. KeyReserved'
  BY <1>1, <1>9 DEF KeyReserved, KeyTaken, Inv, LockInv
<1>11. SettledFound'
  BY <1>1, <1>2 DEF SettledFound, ClaimMove, Inv, CreditInv
<1>12. ClaimCredits'
  BY <1>1, <1>2 DEF ClaimCredits, ClaimMove, ClaimKeepsPick, Inv, CreditInv
<1>13. MarkSeesPaid'
  BY <1>1 DEF MarkSeesPaid, Inv, CreditInv
<1>14. SettledOnce' /\ CreditedOnce'
  BY <1>5 DEF SettledOnce, CreditedOnce, Inv, GoalInv
<1>15. ClaimInWindow'
  <2> SUFFICES ASSUME NEW d \in ClaimCalls, NEW p \in PayIds, <<d, p>> \in credited
               PROVE  claim'[d].at = claim[d].at
    BY <1>1, <1>5 DEF ClaimInWindow, Inv, GoalInv
  <2>1. claim[d].pc \in {"event", "notify", "ok", "error"}
    BY DEF Inv, CreditInv, ClaimCredits
  <2> QED BY <1>1, <1>2, <2>1 DEF ClaimKeepsPick
<1>16. ConflictIsForeign'
  <2>1. ASSUME claim'[c].pc = "conflict", claim[c].pc # "conflict"
        PROVE  \E r \in claims : r.key = claim[c].in.key /\ AppOf(r.pay) # claim[c].in.app
    BY <2>1 DEF ClaimMove, Inv, CreditInv, SettledFound
  <2> QED BY <1>1, <1>5, <2>1 DEF ConflictIsForeign, Inv, GoalInv
<1>17. claim[c].pc \in {"event", "notify"} =>
         <<c, claim[c].hit>> \in credited /\ pay[claim[c].hit].status = "paid"
  BY <1>3 DEF Inv, CreditInv, ClaimCredits, GoalInv, CreditedOnce, TypeOK
<1>18. NotifyOnlyPaid'
  BY <1>2, <1>17 DEF NotifyOnlyPaid, ClaimTells, Inv, GoalInv
<1>19. ClaimNotifiesOwn'
  BY <1>2, <1>17 DEF ClaimNotifiesOwn, ClaimTells, Inv, GoalInv
<1> QED
  BY <1>4, <1>7, <1>8, <1>10, <1>11, <1>12, <1>13, <1>14, <1>15, <1>16, <1>18, <1>19
  DEF LockInv, CreditInv, GoalInv

LEMMA CommitKeeps ==
  ASSUME Inv, NEW c \in ClaimCalls, ClaimCommit(c)
  PROVE  CreateInv' /\ LockInv' /\ CreditInv' /\ GoalInv'
<1> DEFINE q == claim[c].hit
           new == [key |-> claim[c].in.key, pay |-> q, amount |-> claim[c].in.amount]
<1>1. /\ UNCHANGED <<create, mark, events, notified>>
      /\ \A d \in ClaimCalls : claim'[d].in = claim[d].in /\ claim'[d].at = claim[d].at
                               /\ claim'[d].hit = claim[d].hit
      /\ \A d \in ClaimCalls \ {c} : claim'[d] = claim[d]
      /\ claim[c].pc = "commit" /\ claim'[c].pc = "event"
      /\ claims' = claims \union {new} /\ credited' = credited \union {<<c, q>>}
      /\ pay' = [pay EXCEPT ![q].status = "paid"]
  BY DEF ClaimCommit, ClaimGoto, SetStatus, Inv, TypeOK, ClaimCall
<1>2. q \in PayIds /\ TypeOK
  BY <1>1 DEF Inv, TypeOK, InTx
<1>3. /\ pay[q].status = "pending"
      /\ AppOf(q) = claim[c].in.app /\ AmountOf(q) = claim[c].in.amount
      /\ pay[q].expires > claim[c].at
      /\ pay[q].created >= claim[c].in.paidAt - Lookback
      /\ pay[q].created <= claim[c].in.paidAt + Skew
  BY <1>1 DEF Inv, LockInv, LockedRows, InTx
<1>4. /\ new.key = claim[c].in.key /\ new.pay = q /\ new.amount = claim[c].in.amount
      /\ ~KeyTaken(claim[c].in.key)
  BY <1>1 DEF Inv, LockInv, KeyReserved
<1> HIDE DEF q, new
<1>5. /\ \A p \in PayIds :
           /\ pay'[p].created = pay[p].created /\ pay'[p].expires = pay[p].expires
           /\ p # q => pay'[p] = pay[p]
      /\ pay'[q].status = "paid"
  BY <1>1, <1>2 DEF TypeOK, Row
<1>6. CreateInv'
  BY <1>1, <1>2, <1>3, <1>5, RowsFixed DEF Inv
<1>7. \A p : AppOf(p)' = AppOf(p) /\ AmountOf(p)' = AmountOf(p)
  BY <1>1 DEF AppOf, AmountOf
<1>8. \A d \in ClaimCalls : claim'[d].pc \in InTx =>
        claim[d].pc \in InTx /\ d # c /\ claim[d].hit # q /\ claim[d].hit \in PayIds
  <2>1. claim[c].pc \in InTx /\ claim'[c].pc \notin InTx
    BY <1>1 DEF InTx
  <2> QED BY <1>1, <2>1 DEF Inv, LockInv, LocksExclusive, TypeOK, q
<1>9. LockedRows' /\ LocksExclusive'
  BY <1>1, <1>5, <1>7, <1>8 DEF LockedRows, LocksExclusive, Inv, LockInv
<1>10. KeyReserved'
  <2>1. \A d \in ClaimCalls : claim'[d].pc = "commit" => d # c /\ claim[d].pc = "commit"
    BY <1>1
  <2>2. \A d \in ClaimCalls : claim'[d].pc = "commit" => new.key # claim[d].in.key
    BY <1>1, <1>4, <2>1 DEF Inv, LockInv, KeyReserved
  <2> QED BY <1>1, <2>1, <2>2 DEF KeyReserved, KeyTaken, Inv, LockInv
<1>11. SettledFound'
  BY <1>1 DEF SettledFound, Inv, CreditInv
<1>12. ClaimCredits'
  BY <1>1 DEF ClaimCredits, Inv, CreditInv, q
<1>13. MarkSeesPaid'
  BY <1>1, <1>2, <1>5 DEF MarkSeesPaid, Inv, CreditInv, TypeOK, MarkCall
<1>14. SettledOnce'
  <2>1. \A r \in claims : /\ r.pay \in PayIds /\ r.pay # q /\ r.key # new.key
                          /\ pay'[r.pay].status = "paid"
    BY <1>2, <1>3, <1>4, <1>5 DEF Inv, GoalInv, SettledOnce, TypeOK, Claim, KeyTaken
  <2> QED BY <1>1, <1>3, <1>4, <1>5, <1>7, <2>1 DEF SettledOnce, Inv, GoalInv
<1>15. CreditedOnce'
  <2>1. \A x \in credited : x[2] # q
    BY <1>2, <1>3 DEF Inv, GoalInv, CreditedOnce
  <2>2. \A x, y \in credited' : x[2] = y[2] => x = y
    BY <1>1, <2>1 DEF Inv, GoalInv, CreditedOnce
  <2>3. \E x \in credited' : x[2] = q
    <3>1. <<c, q>> \in credited' /\ <<c, q>>[2] = q
      BY <1>1
    <3> QED BY <3>1
  <2>4. ASSUME NEW p \in PayIds, p # q
        PROVE  pay'[p].status = "paid" <=> \E x \in credited' : x[2] = p
    BY <1>1, <1>5, <2>4 DEF Inv, GoalInv, CreditedOnce
  <2> QED BY <1>5, <2>2, <2>3, <2>4 DEF CreditedOnce
<1>16. ClaimInWindow'
  <2> SUFFICES ASSUME NEW d \in ClaimCalls, NEW p \in PayIds, <<d, p>> \in credited'
               PROVE  /\ AppOf(p)' = claim'[d].in.app /\ AmountOf(p)' = claim'[d].in.amount
                      /\ pay'[p].expires > claim'[d].at
                      /\ pay'[p].created \in
                           (claim'[d].in.paidAt - Lookback) .. (claim'[d].in.paidAt + Skew)
    BY DEF ClaimInWindow
  <2>1. CASE <<d, p>> \in credited
    BY <1>1, <1>5, <1>7, <2>1 DEF Inv, GoalInv, ClaimInWindow
  <2>2. CASE d = c /\ p = q
    <3>1. pay[q].created \in Nat /\ claim[c].in.paidAt \in Nat
      BY <1>2, InputAssumption DEF TypeOK, Row, ClaimCall, ClaimBody
    <3> QED BY <1>1, <1>3, <1>5, <1>7, <2>2, <3>1, NumberAssumption
  <2> QED BY <1>1, <2>1, <2>2
<1>17. ConflictIsForeign'
  <2>1. \A d \in ClaimCalls : claim'[d].pc = "conflict" => claim[d].pc = "conflict"
    BY <1>1
  <2> QED BY <1>1, <1>7, <2>1 DEF ConflictIsForeign, Inv, GoalInv
<1>18. NotifyOnlyPaid' /\ ClaimNotifiesOwn'
  BY <1>1, <1>2, <1>5 DEF NotifyOnlyPaid, ClaimNotifiesOwn, Inv, GoalInv, TypeOK, Event
<1> QED
  BY <1>6, <1>9, <1>10, <1>11, <1>12, <1>13, <1>14, <1>15, <1>16, <1>17, <1>18
  DEF LockInv, CreditInv, GoalInv

LEMMA ClaimKeeps ==
  ASSUME Inv, NEW c \in ClaimCalls, ClaimStep(c)
  PROVE  CreateInv' /\ LockInv' /\ CreditInv' /\ GoalInv'
<1>1. CASE ClaimCommit(c)
  BY <1>1, CommitKeeps
<1>2. CASE ~ClaimCommit(c)
  BY <1>2, ClaimFrame, ClaimMoves, ClaimMoveKeeps DEF Inv
<1> QED
  BY <1>1, <1>2
-----------------------------------------------------------------------------
LEMMA StepInv == Inv /\ [Next]_vars => Inv'
<1> SUFFICES ASSUME Inv, [Next]_vars PROVE Inv'
  OBVIOUS
<1>1. TypeOK'
  BY StepType DEF Inv
<1>2. CASE UNCHANGED <<tables, create, claim, mark, history>>
  <2>1. Rows' = Rows
    BY <1>2 DEF tables, Rows
  <2>2. \A p, q : /\ AppOf(p)' = AppOf(p) /\ AmountOf(p)' = AmountOf(p)
                  /\ SameOrder(p, q)' <=> SameOrder(p, q)
    BY <1>2 DEF AppOf, AmountOf, OrderOf, SameOrder
  <2>3. CreateInv' /\ LockInv' /\ CreditInv'
    BY <1>2, <2>1, <2>2
    DEF tables, history, Inv, CreateInv, FreshIds, AnswersAreRows, AnswerIsRow, OrdersUnique,
        LockInv, LockedRows, LocksExclusive, KeyReserved, KeyTaken,
        CreditInv, SettledFound, ClaimCredits, MarkSeesPaid
  <2>4. GoalInv'
    BY <1>2, <2>1, <2>2
    DEF tables, history, Inv, GoalInv, SettledOnce, CreditedOnce, ClaimInWindow,
        ConflictIsForeign, NotifyOnlyPaid, ClaimNotifiesOwn
  <2> QED BY <1>1, <2>3, <2>4 DEF Inv
<1>3. CASE Sweep
  BY <1>1, <1>3, SweepKeeps DEF Inv
<1>4. ASSUME NEW c \in CreateCalls, CreateStep(c) PROVE Inv'
  BY <1>1, <1>4, CreateKeeps DEF Inv
<1>5. ASSUME NEW c \in ClaimCalls, ClaimStep(c) PROVE Inv'
  BY <1>1, <1>5, ClaimKeeps DEF Inv
<1>6. ASSUME NEW c \in MarkCalls, MarkStep(c) PROVE Inv'
  BY <1>1, <1>6, MarkKeeps DEF Inv
<1> QED
  BY <1>2, <1>3, <1>4, <1>5, <1>6, StepKinds

LEMMA AlwaysInv == Spec => []Inv
  BY InitInv, StepInv, PTL DEF Spec

\* Two create calls of one order that are answered point at one row of it.
LEMMA InvUnique == Inv => OneOrderOnePayment
<1> SUFFICES ASSUME Inv PROVE OneOrderOnePayment
  OBVIOUS
<1>1. ASSUME NEW c \in CreateCalls, NEW d \in CreateCalls, SameOrder(c, d),
             create[c].pc \in {"created", "existing"}, create[d].pc \in {"created", "existing"}
      PROVE  create[c].got = create[d].got
  <2>1. PICK p \in Rows : p = create[c].got /\ SameOrder(p, c)
    BY <1>1 DEF Inv, CreateInv, AnswersAreRows, AnswerIsRow
  <2>2. PICK q \in Rows : q = create[d].got /\ SameOrder(q, d)
    BY <1>1 DEF Inv, CreateInv, AnswersAreRows, AnswerIsRow
  <2>3. SameOrder(p, q)
    BY <1>1, <2>1, <2>2 DEF SameOrder
  <2> QED BY <2>1, <2>2, <2>3 DEF Inv, CreateInv, OrdersUnique
<1>2. \A p, q \in Rows : SameOrder(p, q) => p = q
  BY DEF Inv, CreateInv, OrdersUnique
<1> QED
  BY <1>1, <1>2 DEF OneOrderOnePayment

(* An app's order has one payment however many creates for it run at once, *)
(* and all of them that are answered with a payment are answered with it.  *)
THEOREM OrderHasOnePayment == Spec => []OneOrderOnePayment
  BY AlwaysInv, InvUnique, PTL

(* A provider pay-in settles one payment, of its own amount, and a payment *)
(* is settled by one pay-in: the lock, the status guard and the unique key *)
(* of ClaimByAmount suffice under any interleaving.                        *)
THEOREM PayInSettlesOnce == Spec => []SettledOnce
<1>1. Inv => SettledOnce
  BY DEF Inv, GoalInv
<1> QED
  BY AlwaysInv, <1>1, PTL

(* Claims, admin marks and the sweeper never credit a payment twice, and   *)
(* no payment is paid without one of them having credited it.              *)
THEOREM PaidIsCreditedOnce == Spec => []CreditedOnce
<1>1. Inv => CreditedOnce
  BY DEF Inv, GoalInv
<1> QED
  BY AlwaysInv, <1>1, PTL

(* What a claim settled is a payment of its app and amount, of its window, *)
(* alive at the clock the claim had read, whatever ran before its commit.  *)
THEOREM ClaimIsFaithful == Spec => []ClaimInWindow
<1>1. Inv => ClaimInWindow
  BY DEF Inv, GoalInv
<1> QED
  BY AlwaysInv, <1>1, PTL

(* No claim is refused for a lost race: a conflict means that the pay-in   *)
(* has settled a payment of another app.                                   *)
THEOREM ConflictIsHonest == Spec => []ConflictIsForeign
<1>1. Inv => ConflictIsForeign
  BY DEF Inv, GoalInv
<1> QED
  BY AlwaysInv, <1>1, PTL

(* afterPaid tells an app of paid payments only.                           *)
THEOREM NoticeIsDue == Spec => []NotifyOnlyPaid
<1>1. Inv => NotifyOnlyPaid
  BY DEF Inv, GoalInv
<1> QED
  BY AlwaysInv, <1>1, PTL

(* However claims repeat and overlap, each dispatches only the payment it  *)
(* has settled itself.                                                     *)
THEOREM ClaimTellsOnce == Spec => []ClaimNotifiesOwn
<1>1. Inv => ClaimNotifiesOwn
  BY DEF Inv, GoalInv
<1> QED
  BY AlwaysInv, <1>1, PTL

-----------------------------------------------------------------------------
\* The events of a step are added to those before.
LEMMA EventsGrow == TypeOK /\ [Next]_vars => events \subseteq events'
<1> SUFFICES ASSUME TypeOK, [Next]_vars PROVE events \subseteq events'
  OBVIOUS
<1>1. CASE UNCHANGED <<tables, create, claim, mark, history>>
  BY <1>1 DEF tables
<1>2. CASE Sweep
  BY <1>2 DEF Sweep
<1>3. ASSUME NEW c \in CreateCalls, CreateStep(c) PROVE events \subseteq events'
  BY <1>3, CreateFrame
<1>4. ASSUME NEW c \in ClaimCalls, ClaimStep(c) PROVE events \subseteq events'
  BY <1>4
  DEF ClaimStep, ClaimLookup, ClaimRest, ClaimSettled, ClaimMatch, ClaimUpdate, ClaimInsert,
      ClaimCommit, ClaimEvent, ClaimNotify, ClaimFail, AddEvent, tables
<1>5. ASSUME NEW c \in MarkCalls, MarkStep(c) PROVE events \subseteq events'
  BY <1>5
  DEF MarkStep, MarkLookup, MarkRest, MarkUpdate, MarkRecheck, MarkEvent, MarkNotify,
      MarkFail, AddEvent, tables
<1> QED
  BY <1>1, <1>2, <1>3, <1>4, <1>5, StepKinds

\* A row is opened as pending, then moves once, its other columns fixed.
RowMove(p) ==
  \/ pay'[p] = pay[p]
  \/ pay[p].status = "absent" /\ pay'[p].status = "pending"
  \/ /\ pay[p].status = "pending" /\ pay'[p].status \in {"paid", "expired"}
     /\ pay'[p].created = pay[p].created /\ pay'[p].expires = pay[p].expires

LEMMA RowsMove ==
  ASSUME Inv, [Next]_vars
  PROVE  (\A p \in PayIds : RowMove(p)) /\ claims \subseteq claims'
<1>1. TypeOK
  BY DEF Inv
<1>2. CASE UNCHANGED <<tables, create, claim, mark, history>>
  BY <1>2 DEF tables, RowMove
<1>3. CASE Sweep
  <2>1. PICK S \in SUBSET Rows :
          /\ \A p \in S : pay[p].status = "pending"
          /\ pay' = [p \in PayIds |->
               IF p \in S THEN [pay[p] EXCEPT !.status = "expired"] ELSE pay[p]]
    BY <1>3 DEF Sweep, Batch, Due
  <2>2. \A p \in PayIds : RowMove(p)
    BY <1>1, <2>1 DEF RowMove, TypeOK, Row
  <2> QED BY <1>3, <2>2 DEF Sweep
<1>4. ASSUME NEW c \in CreateCalls, CreateStep(c)
      PROVE  (\A p \in PayIds : RowMove(p)) /\ claims \subseteq claims'
  BY <1>1, <1>4, CreateFrame, CreateTable DEF RowMove
<1>5. ASSUME NEW c \in ClaimCalls, ClaimStep(c)
      PROVE  (\A p \in PayIds : RowMove(p)) /\ claims \subseteq claims'
  <2>1. CASE UNCHANGED <<pay, claims, credited>>
    BY <2>1 DEF RowMove
  <2>2. CASE ClaimCommit(c)
    <3>1. /\ claim[c].hit \in PayIds /\ pay[claim[c].hit].status = "pending"
          /\ pay' = [pay EXCEPT ![claim[c].hit].status = "paid"]
          /\ claims \subseteq claims'
      BY <1>1, <2>2 DEF ClaimCommit, SetStatus, Inv, TypeOK, LockInv, LockedRows, InTx
    <3> QED BY <1>1, <3>1 DEF RowMove, TypeOK, Row
  <2> QED BY <1>1, <1>5, <2>1, <2>2, ClaimFrame
<1>6. ASSUME NEW c \in MarkCalls, MarkStep(c)
      PROVE  (\A p \in PayIds : RowMove(p)) /\ claims \subseteq claims'
  <2>1. claims' = claims
    BY <1>1, <1>6, MarkFrame
  <2>2. CASE UNCHANGED <<pay, credited>>
    BY <2>1, <2>2 DEF RowMove
  <2>3. CASE /\ pay[mark[c].target].status = "pending"
             /\ pay' = [pay EXCEPT ![mark[c].target].status = "paid"]
    <3>1. mark[c].target \in PayIds
      BY <1>1 DEF TypeOK, MarkCall
    <3> QED BY <1>1, <2>1, <2>3, <3>1 DEF RowMove, TypeOK, Row
  <2> QED BY <1>1, <1>6, <2>2, <2>3, MarkFrame
<1> QED
  BY <1>2, <1>3, <1>4, <1>5, <1>6, StepKinds

(* A payment that is paid or expired stays so under every later step, and  *)
(* no step drops a claim or an event or moves the dates of a payment.      *)
THEOREM StatusIsFinal == Spec => StatusFinal
<1>1. ASSUME Inv, [Next]_vars
      PROVE  /\ \A p \in PayIds :
                  pay[p].status \in {"paid", "expired"} => pay'[p].status = pay[p].status
             /\ \A p \in Rows : pay'[p].created = pay[p].created /\ pay'[p].expires = pay[p].expires
             /\ claims \subseteq claims' /\ events \subseteq events'
  <2>1. events \subseteq events'
    BY <1>1, EventsGrow DEF Inv
  <2>2. (\A p \in PayIds : RowMove(p)) /\ claims \subseteq claims'
    BY <1>1, RowsMove
  <2> QED BY <2>1, <2>2 DEF RowMove, Rows
<1> QED
  BY AlwaysInv, <1>1, PTL DEF Spec, StatusFinal

-----------------------------------------------------------------------------
(* The refinement: one statement of each kind moves the ledger.            *)

LEMMA LedgerInit == Init => Ledger!Init
<1> SUFFICES ASSUME Init PROVE Ledger!Init
  OBVIOUS
<1>1. [p \in PayIds |-> pay[p].status] = [p \in PayIds |-> "absent"]
  BY DEF Init
<1>2. {<<r.key, r.pay>> : r \in claims} = {}
  BY DEF Init
<1> QED
  BY <1>1, <1>2 DEF Ledger!Init

\* A step that changes one row of the payments is the ledger's Move.
LEMMA OneRowMoves ==
  ASSUME NEW p \in PayIds, pay[p].status = "absent" \/ pay[p].status = "pending",
         NEW to, pay'[p].status = to, \A q \in PayIds \ {p} : pay'[q].status = pay[q].status
  PROVE  Ledger!Move(p, pay[p].status, to)
<1>1. [q \in PayIds |-> pay'[q].status]
        = [[q \in PayIds |-> pay[q].status] EXCEPT ![p] = to]
  OBVIOUS
<1> QED
  BY <1>1 DEF Ledger!Move

LEMMA LedgerStep == Inv /\ [Next]_vars => [Ledger!Next]_(Ledger!lvars)
<1> SUFFICES ASSUME Inv, [Next]_vars PROVE Ledger!Next \/ UNCHANGED Ledger!lvars
  OBVIOUS
<1>1. TypeOK
  BY DEF Inv
<1>2. ASSUME UNCHANGED <<pay, claims>> PROVE UNCHANGED Ledger!lvars
  BY <1>2 DEF Ledger!lvars
<1>3. CASE UNCHANGED <<tables, create, claim, mark, history>>
  BY <1>2, <1>3 DEF tables
<1>4. CASE Sweep
  <2>1. PICK S \in SUBSET Rows :
          /\ \A p \in S : pay[p].status = "pending"
          /\ pay' = [p \in PayIds |->
               IF p \in S THEN [pay[p] EXCEPT !.status = "expired"] ELSE pay[p]]
    BY <1>4 DEF Sweep, Batch, Due
  <2>2. S \in SUBSET PayIds /\ claims' = claims
    BY <1>4 DEF Sweep, Rows
  <2>3. [p \in PayIds |-> pay'[p].status]
          = [p \in PayIds |-> IF p \in S THEN "expired" ELSE [q \in PayIds |-> pay[q].status][p]]
    BY <1>1, <2>1 DEF TypeOK, Row
  <2>4. Ledger!Expire(S)
    BY <2>1, <2>2, <2>3 DEF Ledger!Expire
  <2> QED BY <2>2, <2>4 DEF Ledger!Next
<1>5. ASSUME NEW c \in CreateCalls, CreateStep(c) PROVE Ledger!Next \/ UNCHANGED Ledger!lvars
  <2>1. claims' = claims /\ \A p \in PayIds \ {c} : pay'[p] = pay[p]
    BY <1>1, <1>5, CreateFrame
  <2>2. CASE pay' = pay
    BY <1>2, <2>1, <2>2
  <2>3. CASE pay[c].status = "absent" /\ pay'[c].status = "pending"
    <3>1. c \in PayIds
      BY DEF PayIds
    <3>2. Ledger!Move(c, "absent", "pending")
      BY <2>1, <2>3, <3>1, OneRowMoves
    <3>3. Ledger!Open(c)
      BY <2>1, <3>2 DEF Ledger!Open
    <3> QED BY <3>1, <3>3 DEF Ledger!Next
  <2> QED BY <1>5, <2>2, <2>3, CreateTable
<1>6. ASSUME NEW c \in ClaimCalls, ClaimStep(c) PROVE Ledger!Next \/ UNCHANGED Ledger!lvars
  <2>1. CASE UNCHANGED <<pay, claims, credited>>
    BY <1>2, <2>1
  <2>2. CASE ClaimCommit(c)
    <3>1. claim[c].hit \in PayIds /\ claim[c].in.key \in Keys
      BY <1>1, <2>2, InputAssumption DEF ClaimCommit, TypeOK, InTx, ClaimCall, ClaimBody
    <3>2. PICK p \in PayIds, k \in Keys : p = claim[c].hit /\ k = claim[c].in.key
      BY <3>1
    <3>3. PICK new : /\ new = [key |-> k, pay |-> p, amount |-> claim[c].in.amount]
                     /\ claim[c].pc = "commit" /\ claims' = claims \union {new}
                     /\ pay' = [pay EXCEPT ![p].status = "paid"]
      BY <2>2, <3>2 DEF ClaimCommit, SetStatus
    <3>4. /\ pay[p].status = "pending" /\ \A r \in claims : r.key # k
          /\ new.key = k /\ new.pay = p
      BY <3>2, <3>3 DEF Inv, LockInv, LockedRows, KeyReserved, KeyTaken, InTx
    <3>5. pay'[p].status = "paid" /\ \A q \in PayIds \ {p} : pay'[q].status = pay[q].status
      BY <1>1, <3>3 DEF TypeOK, Row
    <3>6. Ledger!Move(p, "pending", "paid")
      BY <3>4, <3>5, OneRowMoves
    <3>7. {<<r.key, r.pay>> : r \in claims'} = {<<r.key, r.pay>> : r \in claims} \union {<<k, p>>}
      BY <3>3, <3>4
    <3>8. \A s \in {<<r.key, r.pay>> : r \in claims} : s[1] # k
      BY <3>4
    <3>9. Ledger!Settle(k, p)
      BY <3>6, <3>7, <3>8 DEF Ledger!Settle
    <3> QED BY <3>9 DEF Ledger!Next
  <2> QED BY <1>1, <1>6, <2>1, <2>2, ClaimFrame
<1>7. ASSUME NEW c \in MarkCalls, MarkStep(c) PROVE Ledger!Next \/ UNCHANGED Ledger!lvars
  <2>0. mark[c].target \in PayIds /\ claims' = claims
    BY <1>1, <1>7, MarkFrame DEF TypeOK, MarkCall
  <2>1. PICK p \in PayIds : p = mark[c].target /\ claims' = claims
    BY <2>0
  <2>2. CASE pay' = pay
    BY <1>2, <2>1, <2>2
  <2>3. CASE pay[p].status = "pending" /\ pay' = [pay EXCEPT ![p].status = "paid"]
    <3>1. pay'[p].status = "paid" /\ \A q \in PayIds \ {p} : pay'[q].status = pay[q].status
      BY <1>1, <2>3 DEF TypeOK, Row
    <3>2. Ledger!Move(p, "pending", "paid")
      BY <2>3, <3>1, OneRowMoves
    <3>3. Ledger!Mark(p)
      BY <2>1, <3>2 DEF Ledger!Mark
    <3> QED BY <2>1, <3>3 DEF Ledger!Next
  <2> QED BY <1>1, <1>7, <2>1, <2>2, <2>3, MarkFrame
<1> QED
  BY <1>3, <1>4, <1>5, <1>6, <1>7, StepKinds

(* The SQL statements of all calls, interleaved with the sweeper, do to    *)
(* payments and payment_claims what the ledger allows, one step each.      *)
THEOREM StoreImplementsLedger == Spec => LedgerSpec
  BY AlwaysInv, LedgerInit, LedgerStep, PTL DEF Spec, LedgerSpec, Ledger!Spec
=============================================================================
