-------------------------- MODULE ClaimOrderProofs --------------------------
(***************************************************************************)
(* In which order claims settle payments, and what a claim that finds none *)
(* has left, for any number of claims, admin marks and sweeper passes: the *)
(* match takes the oldest row it can lock, and what it has passed over can *)
(* only leave the pending payments.                                        *)
(***************************************************************************)
EXTENDS ClaimOrder, PaymentStoreProofs

fifoVars == <<vars, saw, skipped>>

SawRows == \A c \in ClaimCalls : saw[c] \subseteq Rows

\* A claim that has chosen has a row to work on.
ChosenRows == \A c \in ClaimCalls : claim[c].pc \in Chosen => claim[c].hit \in Rows

\* The sweeper takes a payment only when its time is up.
SweptInTime == \A p \in PayIds : pay[p].status = "expired" => pay[p].expires <= now

OrderInv == SawRows /\ ChosenRows /\ SweptInTime /\ FifoUnlessHeld /\ NotFoundIsHonest

Chooses(c) == claim[c].pc = "match" /\ claim'[c].pc = "update"

LEMMA InitOrder == FifoInit => OrderInv
  BY DEF FifoInit, Init, OrderInv, SawRows, ChosenRows, SweptInTime, FifoUnlessHeld,
         NotFoundIsHonest, Chosen

-----------------------------------------------------------------------------
(* What a step of any kind leaves alone.                                   *)

LEMMA BodiesFixed ==
  ASSUME Inv, [Next]_vars
  PROVE  /\ \A c \in CreateCalls : create'[c].in = create[c].in
         /\ \A c \in ClaimCalls : claim'[c].in = claim[c].in
         /\ \A c \in ClaimCalls : claim'[c] = claim[c] \/ ClaimStep(c)
<1>1. TypeOK
  BY DEF Inv
<1>2. CASE UNCHANGED <<create, claim>>
  BY <1>2
<1>3. CASE Sweep
  BY <1>3 DEF Sweep
<1>4. ASSUME NEW c \in CreateCalls, CreateStep(c)
      PROVE  claim' = claim /\ \A d \in CreateCalls : create'[d].in = create[d].in
  BY <1>1, <1>4, CreateFrame
<1>5. ASSUME NEW c \in ClaimCalls, ClaimStep(c)
      PROVE  /\ create' = create
             /\ \A d \in ClaimCalls : claim'[d].in = claim[d].in
             /\ \A d \in ClaimCalls \ {c} : claim'[d] = claim[d]
  BY <1>1, <1>5, ClaimFrame
<1>6. ASSUME NEW c \in MarkCalls, MarkStep(c) PROVE UNCHANGED <<create, claim>>
  BY <1>1, <1>6, MarkFrame
<1> QED
  BY <1>2, <1>3, <1>4, <1>5, <1>6, StepKinds

\* Rows stay, with their dates, and none becomes pending again.
LEMMA RowsStay ==
  ASSUME Inv, [Next]_vars
  PROVE  /\ Rows \subseteq Rows'
         /\ \A p \in Rows : pay'[p].created = pay[p].created /\ pay'[p].expires = pay[p].expires
         /\ \A p \in Rows : pay'[p].status = "pending" => pay[p].status = "pending"
  BY RowsMove DEF RowMove, Rows

\* So what a claim could settle after a step, it could before.
LEMMA EligibleBefore ==
  ASSUME Inv, [Next]_vars, NEW c \in ClaimCalls, NEW q \in Rows, Eligible(c, q, claim[c].at)'
  PROVE  Eligible(c, q, claim'[c].at)
<1>1. /\ claim'[c].in = claim[c].in /\ create'[q].in = create[q].in
      /\ pay'[q].created = pay[q].created /\ pay'[q].expires = pay[q].expires
      /\ pay'[q].status = "pending" => pay[q].status = "pending"
  BY BodiesFixed, RowsStay DEF Rows, PayIds
<1> QED
  BY <1>1 DEF Eligible, AppOf, AmountOf

\* The match takes the oldest of the rows that it finds and can lock.
LEMMA MatchTakesOldest ==
  ASSUME TypeOK, NEW c \in ClaimCalls, ClaimStep(c), Chooses(c)
  PROVE  /\ pay' = pay
         /\ claim'[c].hit \in Rows
         /\ \A q \in PayIds :
              Eligible(c, q, claim'[c].at) /\ ~Locked(q) => pay[claim'[c].hit].created <= pay[q].created
<1>1. ClaimMatch(c)
  BY DEF Chooses, TypeOK, ClaimCall, ClaimStep, ClaimRest, ClaimLookup, ClaimSettled, ClaimUpdate,
         ClaimInsert, ClaimCommit, ClaimEvent, ClaimNotify, ClaimFail, ClaimGoto
<1> DEFINE Free(t) == {p \in PayIds : Eligible(c, p, t) /\ ~Locked(p)}
<1>2. PICK t \in claim[c].at .. now :
        IF Free(t) = {}
        THEN ClaimGoto(c, "notfound")
        ELSE \E p \in Free(t) :
               /\ Oldest(p, Free(t))
               /\ claim' = [claim EXCEPT ![c].pc = "update", ![c].hit = p, ![c].at = t]
  BY <1>1 DEF ClaimMatch
<1>3. Free(t) # {}
  BY <1>2 DEF Chooses, TypeOK, ClaimCall, ClaimGoto
<1>4. PICK p \in Free(t) :
        /\ Oldest(p, Free(t))
        /\ claim' = [claim EXCEPT ![c].pc = "update", ![c].hit = p, ![c].at = t]
  <2> HIDE DEF Free
  <2> QED BY <1>2, <1>3
<1>5. claim'[c].hit = p /\ claim'[c].at = t
  BY <1>4 DEF TypeOK, ClaimCall
<1>6. p \in Rows
  BY DEF Eligible, Rows
<1>7. \A q \in PayIds : Eligible(c, q, t) /\ ~Locked(q) => pay[p].created <= pay[q].created
  BY <1>4 DEF Oldest
<1>8. pay' = pay
  BY <1>1 DEF ClaimMatch, tables
<1> QED
  BY <1>5, <1>6, <1>7, <1>8

\* A match that finds none leaves only rows that do not fit or are locked.
LEMMA MatchFindsNone ==
  ASSUME TypeOK, NEW c \in ClaimCalls, ClaimStep(c), claim[c].pc = "match", claim'[c].pc = "notfound"
  PROVE  /\ UNCHANGED <<pay, now>>
         /\ \E t \in Nat : t <= now /\ \A q \in PayIds : ~Eligible(c, q, t) \/ Locked(q)
<1>1. ClaimMatch(c)
  BY DEF TypeOK, ClaimCall, ClaimStep, ClaimRest, ClaimLookup, ClaimSettled, ClaimUpdate,
         ClaimInsert, ClaimCommit, ClaimEvent, ClaimNotify, ClaimFail, ClaimGoto
<1> DEFINE Free(t) == {p \in PayIds : Eligible(c, p, t) /\ ~Locked(p)}
<1>2. PICK t \in claim[c].at .. now :
        IF Free(t) = {}
        THEN ClaimGoto(c, "notfound")
        ELSE \E p \in Free(t) :
               /\ Oldest(p, Free(t))
               /\ claim' = [claim EXCEPT ![c].pc = "update", ![c].hit = p, ![c].at = t]
  BY <1>1 DEF ClaimMatch
<1>3. Free(t) = {}
  <2> SUFFICES ASSUME Free(t) # {} PROVE FALSE
    OBVIOUS
  <2> HIDE DEF Free
  <2>1. PICK p \in Free(t) : claim' = [claim EXCEPT ![c].pc = "update", ![c].hit = p, ![c].at = t]
    BY <1>2
  <2>2. claim'[c].pc = "update"
    BY <2>1 DEF TypeOK, ClaimCall
  <2> QED BY <2>2
<1>4. t \in Nat /\ t <= now
  BY DEF TypeOK, ClaimCall
<1>5. \A q \in PayIds : ~Eligible(c, q, t) \/ Locked(q)
  BY <1>3
<1>6. UNCHANGED <<pay, now>>
  BY <1>1 DEF ClaimMatch, tables
<1> QED
  BY <1>4, <1>5, <1>6

-----------------------------------------------------------------------------
LEMMA SawStep ==
  ASSUME Inv, OrderInv, FifoNext
  PROVE  SawRows'
<1>1. Rows \subseteq Rows'
  BY RowsStay DEF FifoNext
<1> QED
  BY <1>1 DEF FifoNext, OrderInv, SawRows

\* A claim that has chosen, and does not choose now, keeps what it chose.
LEMMA ChoiceStays ==
  ASSUME Inv, [Next]_vars, NEW c \in ClaimCalls, claim'[c].pc \in Chosen, ~Chooses(c)
  PROVE  claim[c].pc \in Chosen /\ claim'[c].hit = claim[c].hit /\ claim'[c].at = claim[c].at
<1>1. CASE claim'[c] = claim[c]
  BY <1>1
<1>2. CASE ClaimStep(c)
  <2>1. ClaimMove(c) \/ ClaimCommit(c)
    BY <1>2, ClaimMoves
  <2>2. claim[c].pc \in Chosen
    BY <2>1 DEF ClaimMove, ClaimCommit, Chooses, Chosen
  <2>3. ClaimKeepsPick(c)
    BY <1>2, ClaimMoves
  <2> QED BY <2>2, <2>3 DEF ClaimKeepsPick, Chosen
<1> QED
  BY <1>1, <1>2, BodiesFixed

LEMMA ChosenStep ==
  ASSUME Inv, OrderInv, [Next]_vars
  PROVE  ChosenRows'
<1> SUFFICES ASSUME NEW c \in ClaimCalls, claim'[c].pc \in Chosen PROVE claim'[c].hit \in Rows'
  BY DEF ChosenRows
<1>1. claim'[c].hit \in Rows
  <2>1. CASE Chooses(c)
    <3>1. ClaimStep(c)
      BY <2>1, BodiesFixed DEF Chooses
    <3> QED BY <2>1, <3>1, MatchTakesOldest DEF Inv
  <2>2. CASE ~Chooses(c)
    BY <2>2, ChoiceStays DEF OrderInv, ChosenRows
  <2> QED BY <2>1, <2>2
<1> QED
  BY <1>1, RowsStay

\* What a claim saw at its beginning stays as it was noted then.
LEMMA SawStays ==
  ASSUME Inv, OrderInv, FifoNext, NEW c \in ClaimCalls, claim'[c].pc \in Chosen \union {"notfound"}
  PROVE  saw'[c] = saw[c] /\ saw[c] \subseteq Rows
<1>1. ~Begins(c)
  <2>1. CASE claim'[c] = claim[c]
    BY <2>1 DEF Begins
  <2>2. CASE ClaimStep(c)
    <3>1. ClaimMove(c) \/ ClaimCommit(c)
      BY <2>2, ClaimMoves
    <3> QED BY <3>1 DEF ClaimMove, ClaimCommit, Begins, Chosen
  <2> QED BY <2>1, <2>2, BodiesFixed DEF FifoNext
<1> QED
  BY <1>1 DEF FifoNext, OrderInv, SawRows

LEMMA FifoStep ==
  ASSUME Inv, OrderInv, FifoNext
  PROVE  FifoUnlessHeld'
<1> SUFFICES ASSUME NEW c \in ClaimCalls, NEW q \in PayIds,
                    claim'[c].pc \in Chosen, q \in saw'[c] \ skipped'[c],
                    Eligible(c, q, claim[c].at)'
             PROVE  pay'[q].created >= pay'[claim'[c].hit].created
  BY DEF FifoUnlessHeld
<1> [Next]_vars
  BY DEF FifoNext
<1>1. saw'[c] = saw[c] /\ q \in Rows
  BY SawStays
<1>2. Eligible(c, q, claim'[c].at)
  BY <1>1, EligibleBefore
<1>3. pay'[q].created = pay[q].created /\ pay[q].created \in Nat
  BY <1>1, RowsStay DEF Inv, TypeOK, Row
<1>4. CASE Chooses(c)
  <2>1. ClaimStep(c)
    BY <1>4, BodiesFixed DEF Chooses
  <2>2. ~Locked(q)
    BY <1>4 DEF FifoNext, Chooses, Matches
  <2>3. pay' = pay /\ claim'[c].hit \in Rows
        /\ pay[claim'[c].hit].created <= pay[q].created
    BY <1>2, <1>4, <2>1, <2>2, MatchTakesOldest DEF Inv
  <2> QED BY <2>3 DEF Inv, TypeOK, Row, Rows
<1>5. CASE ~Chooses(c)
  <2>1. claim[c].pc \in Chosen /\ claim'[c].hit = claim[c].hit /\ claim'[c].at = claim[c].at
    BY <1>5, ChoiceStays
  <2>2. q \in saw[c] \ skipped[c]
    BY <1>1, <2>1 DEF FifoNext, Matches, Chosen
  <2>3. pay[q].created >= pay[claim[c].hit].created
    BY <1>2, <2>1, <2>2 DEF OrderInv, FifoUnlessHeld
  <2>4. claim[c].hit \in Rows
    BY <2>1 DEF OrderInv, ChosenRows
  <2> QED BY <1>3, <2>1, <2>3, <2>4, RowsStay
<1> QED
  BY <1>4, <1>5

\* The clock does not go back, and what a step sweeps is due.
LEMMA SweptStep ==
  ASSUME Inv, OrderInv, [Next]_vars
  PROVE  SweptInTime' /\ now <= now'
<1>1. TypeOK /\ now \in Nat
  BY DEF Inv, TypeOK
<1>2. now' \in Nat /\ now <= now'
  <2>1. CASE Tick
    BY <1>1, <2>1 DEF Tick
  <2>2. CASE Sweep
    BY <1>1, <2>2 DEF Sweep
  <2>3. ASSUME NEW c \in CreateCalls, CreateStep(c) PROVE now' = now
    BY <2>3 DEF CreateStep, CreateLookup, CreateRest, CreateInsert, CreateEvent, CreateFail
  <2>4. ASSUME NEW c \in ClaimCalls, ClaimStep(c) PROVE now' = now
    BY <2>4 DEF ClaimStep, ClaimLookup, ClaimRest, ClaimSettled, ClaimMatch, ClaimUpdate,
                ClaimInsert, ClaimCommit, ClaimEvent, ClaimNotify, ClaimFail
  <2>5. ASSUME NEW c \in MarkCalls, MarkStep(c) PROVE now' = now
    BY <2>5 DEF MarkStep, MarkLookup, MarkRest, MarkUpdate, MarkRecheck, MarkEvent, MarkNotify,
                MarkFail
  <2>6. CASE UNCHANGED vars
    BY <1>1, <2>6 DEF vars
  <2> QED BY <1>1, <2>1, <2>2, <2>3, <2>4, <2>5, <2>6
          DEF Next, Quiet, CreateStep, ClaimStep, MarkStep
<1>3. ASSUME NEW p \in PayIds, pay'[p].status = "expired", pay[p].status # "expired"
      PROVE  pay'[p].expires <= now'
  <2>1. RowMove(p)
    BY RowsMove
  <2>2. pay[p].status = "pending" /\ pay'[p].expires = pay[p].expires
    BY <1>3, <2>1 DEF RowMove
  <2>3. Sweep
    <3>1. ASSUME NEW c \in CreateCalls, CreateStep(c) PROVE FALSE
      BY <1>3, <2>2, <3>1, CreateTable, CreateFrame, <1>1
    <3>2. ASSUME NEW c \in ClaimCalls, ClaimStep(c) PROVE FALSE
      <4>1. ClaimCommit(c)
        BY <1>1, <1>3, <3>2, ClaimFrame
      <4> QED BY <1>1, <1>3, <4>1 DEF ClaimCommit, SetStatus, TypeOK, Row
    <3>3. ASSUME NEW c \in MarkCalls, MarkStep(c) PROVE FALSE
      <4>1. pay' = [pay EXCEPT ![mark[c].target].status = "paid"]
        BY <1>1, <1>3, <3>3, MarkFrame
      <4> QED BY <1>1, <1>3, <4>1 DEF TypeOK, Row
    <3> QED BY <1>3, <3>1, <3>2, <3>3, StepKinds DEF tables
  <2>4. pay[p].expires <= now
    <3>1. PICK t \in 0 .. now, S \in SUBSET Rows :
            /\ Batch(S, t)
            /\ pay' = [q \in PayIds |->
                 IF q \in S THEN [pay[q] EXCEPT !.status = "expired"] ELSE pay[q]]
      BY <2>3 DEF Sweep
    <3>2. p \in S
      BY <1>3, <3>1
    <3>3. pay[p].expires <= t
      BY <3>1, <3>2 DEF Batch, Due
    <3> QED BY <1>1, <3>3 DEF TypeOK, Row
  <2> QED BY <1>1, <1>2, <2>2, <2>4 DEF TypeOK, Row
<1>4. ASSUME NEW p \in PayIds, pay[p].status = "expired"
      PROVE  pay'[p].expires = pay[p].expires /\ pay[p].expires <= now /\ pay[p].expires \in Nat
  BY <1>1, <1>4, RowsMove DEF RowMove, OrderInv, SweptInTime, TypeOK, Row
<1>5. SweptInTime'
  BY <1>1, <1>2, <1>3, <1>4 DEF SweptInTime
<1> QED
  BY <1>2, <1>5

LEMMA NotFoundStep ==
  ASSUME Inv, OrderInv, FifoNext
  PROVE  NotFoundIsHonest'
<1> SUFFICES ASSUME NEW c \in ClaimCalls, NEW q \in PayIds,
                    claim'[c].pc = "notfound", q \in saw'[c] \ skipped'[c],
                    AppOf(q)' = claim'[c].in.app, AmountOf(q)' = claim'[c].in.amount,
                    pay'[q].created \in
                      (claim'[c].in.paidAt - Lookback) .. (claim'[c].in.paidAt + Skew)
             PROVE  pay'[q].status = "paid" \/ pay'[q].expires <= now'
  BY DEF NotFoundIsHonest
<1> [Next]_vars
  BY DEF FifoNext
<1>1. saw'[c] = saw[c] /\ q \in Rows
  BY SawStays
<1>2. /\ AppOf(q) = claim[c].in.app /\ AmountOf(q) = claim[c].in.amount
      /\ pay[q].created \in (claim[c].in.paidAt - Lookback) .. (claim[c].in.paidAt + Skew)
  BY <1>1, BodiesFixed, RowsStay DEF AppOf, AmountOf, PayIds
<1>3. pay'[q].expires = pay[q].expires /\ pay[q].expires \in Nat /\ now \in Nat /\ now' \in Nat
  BY <1>1, RowsStay, StepInv DEF Inv, TypeOK, Row
<1>4. CASE claim[c].pc = "match"
  <2>1. ClaimStep(c)
    BY <1>4, BodiesFixed
  <2>2. ~Locked(q)
    BY <1>4 DEF FifoNext, Matches
  <2>3. pay' = pay /\ now' = now
    BY <1>4, <2>1, MatchFindsNone DEF Inv
  <2>4. PICK t \in Nat : t <= now /\ \A p \in PayIds : ~Eligible(c, p, t) \/ Locked(p)
    BY <1>4, <2>1, MatchFindsNone DEF Inv
  <2>5. ~Eligible(c, q, t)
    BY <2>2, <2>4
  <2>6. pay[q].status \in {"pending", "paid", "expired"}
    BY <1>1 DEF Rows, Inv, TypeOK, Row, Status
  <2>7. ASSUME pay[q].status = "pending" PROVE pay[q].expires <= now
    <3>1. ~(pay[q].expires > t)
      <4>1. claim[c].in.paidAt \in Nat /\ pay[q].created \in Nat
        BY <1>1, InputAssumption DEF Rows, Inv, TypeOK, Row, ClaimCall, ClaimBody
      <4> QED BY <1>2, <2>5, <2>7, <4>1, NumberAssumption DEF Eligible
    <3> QED BY <1>3, <2>4, <3>1
  <2>8. ASSUME pay[q].status = "expired" PROVE pay[q].expires <= now
    BY <2>8 DEF OrderInv, SweptInTime
  <2> QED BY <2>3, <2>6, <2>7, <2>8
<1>5. CASE claim[c].pc # "match"
  <2>1. claim'[c] = claim[c]
    <3>1. ASSUME ClaimStep(c) PROVE FALSE
      <4>1. ClaimMove(c) \/ ClaimCommit(c)
        BY <3>1, ClaimMoves
      <4> QED BY <1>5, <4>1 DEF ClaimMove, ClaimCommit, ClaimGoto, Inv, TypeOK, ClaimCall
    <3> QED BY <3>1, BodiesFixed
  <2>2. q \in saw[c] \ skipped[c]
    BY <1>1, <1>5 DEF FifoNext, Matches
  <2>3. pay[q].status = "paid" \/ pay[q].expires <= now
    BY <1>2, <2>1, <2>2 DEF OrderInv, NotFoundIsHonest
  <2>4. CASE pay[q].status = "paid"
    BY <2>4, RowsMove DEF RowMove
  <2>5. CASE pay[q].expires <= now
    BY <1>3, <2>5, SweptStep
  <2> QED BY <2>3, <2>4, <2>5
<1> QED
  BY <1>4, <1>5

LEMMA AlwaysOrder == FifoSpec => [](Inv /\ OrderInv)
<1>1. FifoInit => Inv /\ OrderInv
  BY InitInv, InitOrder DEF FifoInit
<1>2. Inv /\ OrderInv /\ [FifoNext]_fifoVars => (Inv /\ OrderInv)'
  <2> SUFFICES ASSUME Inv, OrderInv, [FifoNext]_fifoVars PROVE Inv' /\ OrderInv'
    OBVIOUS
  <2>1. CASE FifoNext
    BY <2>1, StepInv, SawStep, ChosenStep, SweptStep, FifoStep, NotFoundStep DEF FifoNext, OrderInv
  <2>2. CASE UNCHANGED fifoVars
    <3>1. UNCHANGED vars /\ saw' = saw /\ skipped' = skipped
      BY <2>2 DEF fifoVars
    <3>2. UNCHANGED <<now, pay, create, claim>>
      BY <3>1 DEF vars
    <3>3. Rows' = Rows
      BY <3>2 DEF Rows
    <3> QED BY <3>1, <3>2, <3>3, StepInv
            DEF OrderInv, SawRows, ChosenRows, SweptInTime, FifoUnlessHeld, NotFoundIsHonest,
                Eligible, AppOf, AmountOf
  <2> QED BY <2>1, <2>2
<1> QED
  BY <1>1, <1>2, PTL DEF FifoSpec, fifoVars

(* However many claims overlap, and whatever the sweeper, the admin and    *)
(* failures do meanwhile: a claim settles the oldest payment it could,     *)
(* but for those that were locked by others when it chose.                 *)
THEOREM ClaimTakesOldestFree == FifoSpec => []FifoUnlessHeld
<1>1. OrderInv => FifoUnlessHeld
  BY DEF OrderInv
<1> QED
  BY AlwaysOrder, <1>1, PTL

(* A claim that is answered "not found" left no payment behind that it     *)
(* could have settled then and still could: not for an edge of its window, *)
(* and not because the sweeper came before a payment's time.               *)
THEOREM NotFoundIsTrue == FifoSpec => []NotFoundIsHonest
<1>1. OrderInv => NotFoundIsHonest
  BY DEF OrderInv
<1> QED
  BY AlwaysOrder, <1>1, PTL

-----------------------------------------------------------------------------
\* No two claims have a transaction open at once.
Serial ==
  LET Open(c) == claim[c].pc \in {"settled", "match"} \union InTx
  IN \A c, d \in ClaimCalls : Open(c) /\ Open(d) => c = d

NoneSkipped == \A c \in ClaimCalls : skipped[c] = {}

LEMMA SerialSkipsNone ==
  ASSUME Serial, NoneSkipped, [FifoNext]_fifoVars
  PROVE  NoneSkipped'
<1> SUFFICES ASSUME NEW c \in ClaimCalls PROVE skipped'[c] = {}
  BY DEF NoneSkipped
<1>1. CASE FifoNext /\ Matches(c)
  <2>1. ASSUME NEW p \in PayIds, Locked(p) PROVE FALSE
    <3>1. PICK d \in ClaimCalls : claim[d].pc \in InTx
      BY <2>1 DEF Locked
    <3>2. claim[c].pc = "match"
      BY <1>1 DEF Matches
    <3> QED BY <3>1, <3>2 DEF Serial, InTx
  <2> QED BY <1>1, <2>1 DEF FifoNext
<1>2. CASE FifoNext /\ ~Matches(c)
  BY <1>2 DEF FifoNext, NoneSkipped
<1>3. CASE UNCHANGED fifoVars
  BY <1>3 DEF fifoVars, NoneSkipped
<1> QED
  BY <1>1, <1>2, <1>3

(* As long as no two claims have their transactions open at once, each of  *)
(* any number of them settles the oldest payment that fits: it leaves none *)
(* pending that is older.  Creates, admin marks and the sweeper may come   *)
(* between its statements.  Where claims overlap it may fail: see the run  *)
(* fifo_overlap.                                                           *)
THEOREM SerialClaimsAreFifo == FifoSpec /\ []Serial => []ClaimFifo
<1>1. FifoInit => NoneSkipped
  BY DEF FifoInit, NoneSkipped
<1>2. Serial /\ NoneSkipped /\ [FifoNext]_fifoVars => NoneSkipped'
  BY SerialSkipsNone
<1>3. OrderInv /\ NoneSkipped => ClaimFifo
  BY DEF OrderInv, NoneSkipped, FifoUnlessHeld, ClaimFifo, Chosen
<1> QED
  BY AlwaysOrder, <1>1, <1>2, <1>3, PTL DEF FifoSpec, fifoVars
=============================================================================
