--------------------------- MODULE PaidFlowProofs ---------------------------
(***************************************************************************)
(* The composition keeps what its parts promise: seen from the tables it   *)
(* is PaymentStore, seen from the deliveries it is WebhookDelivery, so     *)
(* their theorems hold of it; and what joins the two, that a payment is    *)
(* told of only when it is paid, is proved from both.                      *)
(***************************************************************************)
EXTENDS PaidFlow, PaymentStoreProofs

DP == INSTANCE WebhookDeliveryProofs WITH Dispatches <- Payers, HookLists <- Seq(Endpoint)

-----------------------------------------------------------------------------
LEMMA StepIsStore == [FlowNext]_flowvars => [Next]_vars
<1> SUFFICES ASSUME FlowNext PROVE Next \/ UNCHANGED vars
  BY DEF flowvars
<1>1. CASE RegisterWebhook
  BY <1>1 DEF RegisterWebhook
<1>2. CASE CallOpens
  BY <1>2 DEF CallOpens, Next
<1>3. CASE Background
  BY <1>3 DEF Background, Next
<1>4. CASE FlowQuiet
  BY <1>4 DEF FlowQuiet, flowvars
<1>5. ASSUME NEW c \in Payers, CallStep(c) \/ Answer(c) \/ CallFails(c)
      PROVE  Next
  BY <1>5 DEF CallStep, Answer, CallFails, Next, ClaimRest, MarkRest
<1>6. ASSUME NEW c \in Payers,
             ListAndDispatch(c) \/ ListFails(c) \/ DispatchGoesOn(c) \/ DispatchHurt(c)
      PROVE  UNCHANGED vars
  BY <1>6 DEF ListAndDispatch, ListFails, DispatchGoesOn, DispatchHurt
<1>7. ASSUME NEW w \in Loops, LoopGoesOn(w) \/ LoopHurt(w) PROVE UNCHANGED vars
  BY <1>7 DEF LoopGoesOn, LoopHurt
<1>8. ASSUME NEW u \in Urls, DeliveryBecomesDue(u) PROVE UNCHANGED vars
  BY <1>8 DEF DeliveryBecomesDue
<1> QED
  BY <1>1, <1>2, <1>3, <1>4, <1>5, <1>6, <1>7, <1>8 DEF FlowNext

(* The statements of all calls, with dispatches, retries and registrations *)
(* between them, are still a behaviour of the payment tables.              *)
THEOREM FlowIsStore == FlowSpec => Spec
  BY StepIsStore, PTL DEF FlowSpec, FlowInit, Spec

-----------------------------------------------------------------------------
ListsKept == endpoints \in Seq(Endpoint)

LEMMA ListsKeptStep == ListsKept /\ [FlowNext]_flowvars => ListsKept'
<1> SUFFICES ASSUME ListsKept, FlowNext PROVE ListsKept'
  BY DEF flowvars, hooks, ListsKept
<1>1. CASE RegisterWebhook
  <2>1. PICK e \in Endpoint : endpoints' = Append(endpoints, e)
    BY <1>1, FlowAssumption DEF RegisterWebhook, Endpoint
  <2> QED BY <2>1 DEF ListsKept
<1>2. CASE UNCHANGED endpoints
  BY <1>2 DEF ListsKept
<1> QED
  BY <1>1, <1>2
  DEF FlowNext, CallOpens, Background, FlowQuiet, flowvars, hooks, CallStep, ListAndDispatch,
      ListFails, DispatchGoesOn, DispatchHurt, Answer, CallFails, LoopGoesOn, LoopHurt,
      DeliveryBecomesDue

LEMMA AlwaysLists == FlowSpec => []ListsKept
<1>1. FlowInit => ListsKept
  BY DEF FlowInit, ListsKept
<1> QED
  BY <1>1, ListsKeptStep, PTL DEF FlowSpec


\* Delivery, named in the composition, and DP, which brings the theorems, are
\* the same module with the same parameters: their actions are the same.
LEMMA SameDispatch ==
  \A w : /\ \A list : Delivery!DispatchTo(w, list) => DP!DispatchTo(w, list)
         /\ Delivery!EnsureInsert(w) => DP!EnsureInsert(w)
         /\ Delivery!EnsureRead(w) => DP!EnsureRead(w)
         /\ Delivery!EnsureFail(w) => DP!EnsureFail(w)
         /\ Delivery!DispatchEnd(w) => DP!DispatchEnd(w)
<1> USE DEF Delivery!seen, DP!seen, Delivery!Goto, DP!Goto, Delivery!Drop, DP!Drop,
            Delivery!NextOne, DP!NextOne, Delivery!Fault, DP!Fault
<1>1. \A w, list : Delivery!DispatchTo(w, list) => DP!DispatchTo(w, list)
  BY ZenonT(60) DEF Delivery!DispatchTo, DP!DispatchTo, Delivery!Destinations, DP!Destinations,
         Delivery!HookDests, DP!HookDests, Delivery!CallbackDests, DP!CallbackDests
<1>2. \A w : Delivery!EnsureInsert(w) => DP!EnsureInsert(w)
  BY DEF Delivery!EnsureInsert, DP!EnsureInsert, Delivery!InsertDelivery, DP!InsertDelivery
<1>3. \A w : Delivery!EnsureRead(w) => DP!EnsureRead(w)
  BY DEF Delivery!EnsureRead, DP!EnsureRead, Delivery!SecretFor, DP!SecretFor
<1>4. \A w : Delivery!EnsureFail(w) => DP!EnsureFail(w)
  BY DEF Delivery!EnsureFail, DP!EnsureFail, Delivery!SkipOne, DP!SkipOne
<1>5. \A w : Delivery!DispatchEnd(w) => DP!DispatchEnd(w)
  BY DEF Delivery!DispatchEnd, DP!DispatchEnd
<1> QED
  BY <1>1, <1>2, <1>3, <1>4, <1>5

LEMMA SameLoop ==
  /\ \A w : /\ Delivery!LoopList(w) => DP!LoopList(w)
            /\ Delivery!LoopNext(w) => DP!LoopNext(w)
            /\ Delivery!LoopEnd(w) => DP!LoopEnd(w)
  /\ \A u : Delivery!BecomeDue(u) => DP!BecomeDue(u)
<1> USE DEF Delivery!seen, DP!seen, Delivery!Goto, DP!Goto
<1>1. \A w : Delivery!LoopList(w) => DP!LoopList(w)
  <2>1. Delivery!Due = DP!Due
    BY DEF Delivery!Due, DP!Due
  <2>2. ASSUME NEW S PROVE Delivery!ReadRows(S) = DP!ReadRows(S)
    BY DEF Delivery!ReadRows, DP!ReadRows
  <2>3. ASSUME NEW S PROVE Delivery!Cardinality(S) = DP!Cardinality(S)
    BY DEF Delivery!Cardinality, DP!Cardinality
  <2> QED BY <2>1, <2>2, <2>3 DEF Delivery!LoopList, DP!LoopList
<1>2. \A w : Delivery!LoopNext(w) => DP!LoopNext(w)
  BY DEF Delivery!LoopNext, DP!LoopNext
<1>3. \A w : Delivery!LoopEnd(w) => DP!LoopEnd(w)
  BY DEF Delivery!LoopEnd, DP!LoopEnd
<1>4. \A u : Delivery!BecomeDue(u) => DP!BecomeDue(u)
  BY DEF Delivery!BecomeDue, DP!BecomeDue
<1> QED
  BY <1>1, <1>2, <1>3, <1>4

LEMMA SameAttempt ==
  \A w : /\ Delivery!Attempt(w) => DP!Attempt(w)
         /\ Delivery!MarkFail(w) => DP!MarkFail(w)
         /\ Delivery!Crash(w) => DP!Crash(w)
<1> USE DEF Delivery!seen, DP!seen, Delivery!Drop, DP!Drop, Delivery!NextOne, DP!NextOne,
            Delivery!Fault, DP!Fault
<1>1. ASSUME NEW w
      PROVE  /\ Delivery!PostOK(w) => DP!PostOK(w)
             /\ Delivery!PostLost(w) => DP!PostLost(w)
             /\ Delivery!PostFails(w) => DP!PostFails(w)
             /\ Delivery!PostRefused(w) => DP!PostRefused(w)
  <2>1. ASSUME NEW pc, NEW client, Delivery!Posted(w, pc, client) PROVE DP!Posted(w, pc, client)
    BY <2>1 DEF Delivery!Posted, DP!Posted
  <2>2. Delivery!AfterFailure(w) = DP!AfterFailure(w)
    BY DEF Delivery!AfterFailure, DP!AfterFailure, Delivery!Budget, DP!Budget
  <2> QED
    BY <2>1, <2>2
    DEF Delivery!PostOK, DP!PostOK, Delivery!PostLost, DP!PostLost,
        Delivery!PostFails, DP!PostFails, Delivery!PostRefused, DP!PostRefused
<1>2. \A w : Delivery!Ack(w) => DP!Ack(w)
  BY DEF Delivery!Ack, DP!Ack
<1>3. \A w : Delivery!Record(w) => DP!Record(w)
  BY DEF Delivery!Record, DP!Record, Delivery!NewStatus, DP!NewStatus, Delivery!Dead, DP!Dead
<1>4. \A w : Delivery!MarkFail(w) => DP!MarkFail(w)
  BY DEF Delivery!MarkFail, DP!MarkFail
<1>5. \A w : Delivery!Crash(w) => DP!Crash(w)
  BY DEF Delivery!Crash, DP!Crash
<1> QED
  BY <1>1, <1>2, <1>3, <1>4, <1>5 DEF Delivery!Attempt, DP!Attempt

LEMMA StepIsDelivery == ListsKept /\ [FlowNext]_flowvars => [DP!Next]_(DP!vars)
<1> SUFFICES ASSUME ListsKept, FlowNext PROVE DP!Next \/ UNCHANGED deliveries
  BY DEF flowvars, deliveries, DP!vars, DP!seen
<1>1. CASE RegisterWebhook \/ CallOpens \/ Background \/ FlowQuiet
  BY <1>1 DEF RegisterWebhook, CallOpens, Background, FlowQuiet, flowvars
<1>2. ASSUME NEW c \in Payers, CallStep(c) \/ Answer(c) PROVE UNCHANGED deliveries
  BY <1>2 DEF CallStep, Answer
<1>3. ASSUME NEW c \in Payers, ListAndDispatch(c) \/ ListFails(c) PROVE DP!Next
  <2>1. CASE ListAndDispatch(c)
    BY <2>1, SameDispatch DEF ListAndDispatch, ListsKept, DP!DispatchBegin, DP!Next
  <2>2. CASE ListFails(c)
    BY <2>2, SameDispatch
    DEF ListFails, DP!DispatchBegin, DP!Next, Delivery!Fault, DP!Fault
  <2> QED BY <1>3, <2>1, <2>2
<1>4. ASSUME NEW c \in Payers, DispatchGoesOn(c) \/ DispatchHurt(c) PROVE DP!Next
  <2>1. CASE DispatchGoesOn(c)
    BY <2>1, SameDispatch, SameAttempt
    DEF DispatchGoesOn, Delivery!DispatchStep, DP!DispatchStep, DP!Next
  <2>2. CASE DispatchHurt(c)
    BY <2>2, SameDispatch, SameAttempt DEF DispatchHurt, DP!Next, DP!Workers
  <2> QED BY <1>4, <2>1, <2>2
<1>5. ASSUME NEW c \in Payers, CallFails(c) PROVE DP!Next \/ UNCHANGED deliveries
  BY <1>5, SameAttempt DEF CallFails, DP!Next, DP!Workers
<1>6. ASSUME NEW w \in Loops, LoopGoesOn(w) \/ LoopHurt(w) PROVE DP!Next
  <2>1. CASE LoopGoesOn(w)
    BY <2>1, SameLoop, SameAttempt DEF LoopGoesOn, Delivery!LoopStep, DP!LoopStep, DP!Next
  <2>2. CASE LoopHurt(w)
    BY <2>2, SameAttempt DEF LoopHurt, DP!Next, DP!Workers
  <2> QED BY <1>6, <2>1, <2>2
<1>7. ASSUME NEW u \in Urls, DeliveryBecomesDue(u) PROVE DP!Next
  BY <1>7, SameLoop DEF DeliveryBecomesDue, DP!Next
<1> QED
  BY <1>1, <1>2, <1>3, <1>4, <1>5, <1>6, <1>7 DEF FlowNext

LEMMA DeliveryParameters == DP!DeliveryAssumption
<1>1. Seq(Endpoint) \subseteq Seq(DP!Endpoint)
  BY DEF Endpoint, DP!Endpoint
<1>2. MaxFaults \in Nat
  BY NumberAssumption
<1> QED
  BY <1>1, <1>2, FlowAssumption DEF DP!DeliveryAssumption

(* The calls that dispatch, and registrations that go on beside them, only *)
(* choose when dispatches begin and with which endpoints: the deliveries   *)
(* behave as those of WebhookDelivery.                                     *)
THEOREM FlowIsDelivery == FlowSpec => DP!Spec
<1>1. FlowInit => DP!Init
  BY DEF FlowInit, Delivery!Init, DP!Init, Delivery!Workers, DP!Workers
<1> QED
  BY <1>1, StepIsDelivery, AlwaysLists, PTL DEF FlowSpec, DP!Spec

(* In the composition, too, a dispatch that comes to its end has left a    *)
(* row for each destination whose own statements did not fail.             *)
THEOREM FlowTracksAll == FlowSpec => []DestinationsTracked
<1>1. DP!EveryDestinationTracked => DestinationsTracked
  BY DEF DP!EveryDestinationTracked, Delivery!EveryDestinationTracked, DestinationsTracked
<1>2. DP!Spec => []DP!EveryDestinationTracked
  BY DeliveryParameters, DP!DispatchTracksAll, PTL DEF DP!DispatchTracksAll
<1> QED
  BY <1>1, <1>2, FlowIsDelivery, PTL

(* In the composition, too, a delivery that is recorded and held by nobody *)
(* stays delivered, and its receiver gets no more requests: later claims   *)
(* and marks of the payment, and the retry loops, leave it alone.          *)
THEOREM FlowLeavesDelivered == FlowSpec => DP!DeliveredRests
<1>1. DP!Spec => DP!DeliveredRests
  BY DeliveryParameters, DP!DeliveredIsLeftAlone, PTL DEF DP!DeliveredIsLeftAlone
<1> QED
  BY <1>1, FlowIsDelivery, PTL

-----------------------------------------------------------------------------
(* What joins the parts: until the payment is paid nothing is delivered.   *)

SomePaid == \E p \in PayIds : pay[p].status = "paid"

\* No worker has begun and no delivery exists.
Silent ==
  /\ \A w \in Payers \union Loops : worker[w].pc = "idle"
  /\ \A u \in Urls : row[u].status = "absent" /\ posts[u] = 0

LEMMA PaidStays == Inv /\ [Next]_vars /\ SomePaid => SomePaid'
<1> SUFFICES ASSUME Inv, [Next]_vars, NEW p \in PayIds, pay[p].status = "paid"
             PROVE  pay'[p].status = "paid"
  BY DEF SomePaid
<1> QED
  BY RowsMove DEF RowMove

LEMMA NotifyIsPaid ==
  ASSUME Inv, NEW c \in Payers, AtNotify(c)
  PROVE  SomePaid
<1>1. CASE c \in ClaimCalls /\ claim[c].pc = "notify"
  <2>1. claim[c].hit \in PayIds /\ <<c, claim[c].hit>> \in credited
    BY <1>1 DEF Inv, TypeOK, CreditInv, ClaimCredits
  <2>2. PICK p \in PayIds : p = claim[c].hit /\ <<c, p>> \in credited
    BY <2>1
  <2>3. pay[p].status = "paid"
    BY <2>2 DEF Inv, GoalInv, CreditedOnce
  <2> QED BY <2>3 DEF SomePaid
<1>2. CASE c \in MarkCalls /\ mark[c].pc = "notify"
  BY <1>2 DEF Inv, TypeOK, MarkCall, CreditInv, MarkSeesPaid, SomePaid
<1> QED
  BY <1>1, <1>2 DEF AtNotify

\* The deliveries break the silence only where a call lists and dispatches.
LEMMA SilenceKept ==
  ASSUME Silent, FlowNext, \A c \in Payers : ~ListAndDispatch(c) /\ ~ListFails(c)
  PROVE  Silent'
<1>1. CASE UNCHANGED deliveries
  BY <1>1 DEF Silent, deliveries
<1>2. ASSUME NEW c \in Payers, CallFails(c) PROVE UNCHANGED deliveries
  BY <1>2 DEF CallFails, Silent
<1>3. ASSUME NEW c \in Payers, DispatchGoesOn(c) \/ DispatchHurt(c) PROVE FALSE
  <2>1. worker[c].pc = "idle"
    BY DEF Silent
  <2> QED
    BY <1>3, <2>1
    DEF DispatchGoesOn, DispatchHurt, Delivery!DispatchStep, Delivery!EnsureInsert,
        Delivery!EnsureRead, Delivery!EnsureFail, Delivery!DispatchEnd, Delivery!MarkFail,
        Delivery!Attempt, Delivery!PostOK, Delivery!PostLost, Delivery!PostFails,
        Delivery!PostRefused, Delivery!Posted, Delivery!Ack, Delivery!Record
<1>4. ASSUME NEW w \in Loops, LoopGoesOn(w) \/ LoopHurt(w) PROVE FALSE
  <2>1. worker[w].pc = "idle" /\ Delivery!Due = {}
    BY DEF Silent, Delivery!Due
  <2> HIDE DEF Delivery!Due
  <2> QED
    BY <1>4, <2>1
    DEF LoopGoesOn, LoopHurt, Delivery!LoopStep, Delivery!LoopList, Delivery!LoopNext,
        Delivery!LoopEnd, Delivery!MarkFail, Delivery!Crash, Delivery!Attempt,
        Delivery!PostOK, Delivery!PostLost, Delivery!PostFails, Delivery!PostRefused,
        Delivery!Posted, Delivery!Ack, Delivery!Record
<1>5. ASSUME NEW u \in Urls, DeliveryBecomesDue(u) PROVE FALSE
  BY <1>5 DEF DeliveryBecomesDue, Delivery!BecomeDue, Silent
<1>6. CASE RegisterWebhook \/ CallOpens \/ Background \/ FlowQuiet
  BY <1>1, <1>6 DEF RegisterWebhook, CallOpens, Background, FlowQuiet, flowvars
<1>7. ASSUME NEW c \in Payers, CallStep(c) \/ Answer(c) PROVE UNCHANGED deliveries
  BY <1>7 DEF CallStep, Answer
<1> QED
  BY <1>1, <1>2, <1>3, <1>4, <1>5, <1>6, <1>7 DEF FlowNext

LEMMA FlowInvStep ==
  Inv /\ (Silent \/ SomePaid) /\ [FlowNext]_flowvars => (Silent \/ SomePaid)'
<1> SUFFICES ASSUME Inv, Silent \/ SomePaid, [FlowNext]_flowvars PROVE (Silent \/ SomePaid)'
  OBVIOUS
<1>0. [Next]_vars
  BY StepIsStore
<1>1. CASE SomePaid
  BY <1>0, <1>1, PaidStays
<1>2. CASE Silent /\ UNCHANGED flowvars
  BY <1>2 DEF Silent, flowvars, deliveries
<1>3. CASE Silent /\ FlowNext /\ \A c \in Payers : ~ListAndDispatch(c) /\ ~ListFails(c)
  BY <1>3, SilenceKept
<1>4. ASSUME NEW c \in Payers, ListAndDispatch(c) \/ ListFails(c) PROVE SomePaid
  BY <1>4, NotifyIsPaid DEF ListAndDispatch, ListFails
<1> QED
  BY <1>1, <1>2, <1>3, <1>4

(* No receiver is ever sent the event of a payment that is not paid, for   *)
(* any calls, endpoints, retry loops and failures.                         *)
THEOREM FlowTellsPaid == FlowSpec => []ToldIsPaid
<1>1. FlowInit => Silent
  BY DEF FlowInit, Delivery!Init, Delivery!Workers, Silent
<1>2. Inv /\ (Silent \/ SomePaid) => ToldIsPaid
  <2> SUFFICES ASSUME Inv, Silent \/ SomePaid, NEW u \in Urls, posts[u] > 0
               PROVE  \E p \in PayIds : \A a \in Apps :
                        Get(a, p) = IF a = AppOf(p) THEN "paid" ELSE "notfound"
    BY DEF ToldIsPaid
  <2>1. SomePaid
    BY DEF Silent
  <2> QED BY <2>1 DEF SomePaid, Get
<1> QED
  BY <1>1, <1>2, FlowInvStep, FlowIsStore, AlwaysInv, PTL DEF FlowSpec
=============================================================================
