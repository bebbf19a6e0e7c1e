----------------------- MODULE WebhookDeliveryProofs -----------------------
(***************************************************************************)
(* The safety of the deliveries for any number of destinations, dispatches *)
(* and retry loops and for any limits.  The promises about the rows hang   *)
(* on what the workers carry between their statements: HonestInv says what *)
(* a worker's copy of a row is still worth.                                *)
(***************************************************************************)
EXTENDS WebhookDelivery, TLAPS

-----------------------------------------------------------------------------
(* Types                                                                   *)

\* The destinations of a call are made of the endpoints it was given.
LEMMA DestinationsType ==
  ASSUME NEW list \in Seq(Endpoint)
  PROVE  Destinations(list) \subseteq Destination
<1>1. HookDests(list) \subseteq Destination
  <2>1. list \in [1 .. Len(list) -> Endpoint]
    OBVIOUS
  <2>2. \A i \in DOMAIN list : list[i] \in Destination
    BY <2>1 DEF Endpoint, Destination, Secret
  <2> QED BY <2>2 DEF HookDests
<1>2. CallbackDests(list) \subseteq Destination
  <2>1. list # <<>> => list[1] \in Endpoint
    OBVIOUS
  <2> QED BY <2>1, DeliveryAssumption DEF CallbackDests, Destination, Endpoint, Secret
<1> QED
  BY <1>1, <1>2 DEF Destinations

LEMMA InitType == Init => TypeOK
  BY DeliveryAssumption
  DEF Init, TypeOK, DeliveryRow, RowStatus, Secret, Worker, Pcs, Workers

\* The step of one worker that keeps the types of all.
LEMMA WorkerType ==
  ASSUME TypeOK, NEW w \in Workers, NEW new \in Worker,
         new.pc \in {"read", "post", "ack", "record"} => new.rec \in Snapshot,
         worker' = [worker EXCEPT ![w] = new]
  PROVE  /\ worker' \in [Workers -> Worker]
         /\ \A v \in Workers :
              worker'[v].pc \in {"read", "post", "ack", "record"} => worker'[v].rec \in Snapshot
  BY DEF TypeOK

LEMMA DropType ==
  ASSUME TypeOK, NEW w \in Workers, NEW pc \in {"idle", "next", "done", "gone"},
         NEW todo \in SUBSET Snapshot, Drop(w, pc, todo)
  PROVE  /\ worker' \in [Workers -> Worker]
         /\ \A v \in Workers :
              worker'[v].pc \in {"read", "post", "ack", "record"} => worker'[v].rec \in Snapshot
<1> DEFINE new == [pc |-> pc, todo |-> todo, rec |-> None, tries |-> 0, client |-> FALSE,
                   plan |-> worker[w].plan]
<1>1. new \in Worker /\ ~(pc \in {"read", "post", "ack", "record"})
  BY DEF Worker, Pcs, TypeOK
<1>2. worker' = [worker EXCEPT ![w] = new]
  BY DEF Drop, TypeOK
<1> QED
  BY <1>1, <1>2, WorkerType

LEMMA DispatchType ==
  ASSUME TypeOK, NEW w \in Dispatches,
         \/ DispatchBegin(w) \/ EnsureInsert(w) \/ EnsureRead(w) \/ EnsureFail(w)
         \/ DispatchEnd(w)
  PROVE  TypeOK'
<1> w \in Workers /\ worker[w] \in Worker
  BY DEF Workers, TypeOK
<1> USE DeliveryAssumption DEF seen
<1>1. ASSUME NEW list \in Seq(Endpoint), DispatchTo(w, list), faults' \in 0 .. MaxFaults
      PROVE  TypeOK'
  <2> DEFINE todo == {[url |-> d.url, attempts |-> 0, secret |-> d.secret] : d \in Destinations(list)}
             new == [worker[w] EXCEPT !.pc = "next", !.plan = Destinations(list), !.todo = todo]
  <2>1. todo \subseteq Snapshot
    BY DestinationsType DEF Snapshot, Destination
  <2>2. new \in Worker /\ new.pc = "next"
    BY <2>1, DestinationsType DEF Worker, Pcs
  <2>3. worker' = [worker EXCEPT ![w] = new]
    BY <1>1 DEF DispatchTo, TypeOK
  <2> HIDE DEF new
  <2> QED BY <1>1, <2>2, <2>3, WorkerType DEF DispatchTo, TypeOK
<1>2. CASE DispatchBegin(w)
  <2>1. <<>> \in Seq(Endpoint)
    OBVIOUS
  <2>2. CASE DispatchTo(w, <<>>) /\ Fault
    <3>1. faults' \in 0 .. MaxFaults
      BY <2>2 DEF Fault, TypeOK
    <3> QED BY <1>1, <2>1, <2>2, <3>1
  <2>3. CASE (\E list \in HookLists : DispatchTo(w, list)) /\ UNCHANGED faults
    <3>1. PICK list \in Seq(Endpoint) : DispatchTo(w, list)
      BY <2>3
    <3> QED BY <1>1, <2>3, <3>1 DEF TypeOK
  <2> QED BY <1>2, <2>2, <2>3 DEF DispatchBegin
<1>3. CASE EnsureInsert(w)
  <2>1. PICK t \in worker[w].todo :
          /\ worker' = [worker EXCEPT ![w].pc = "read", ![w].todo = @ \ {t}, ![w].rec = t]
          /\ InsertDelivery(t)
    BY <1>3 DEF EnsureInsert
  <2>2. t \in Snapshot
    BY DEF Worker
  <2> DEFINE new == [worker[w] EXCEPT !.pc = "read", !.todo = @ \ {t}, !.rec = t]
  <2>3. new \in Worker /\ new.rec \in Snapshot
    BY <2>2 DEF Worker, Pcs, Snapshot
  <2>4. worker' = [worker EXCEPT ![w] = new]
    BY <2>1 DEF TypeOK
  <2>5. row' \in [Urls -> DeliveryRow]
    <3>1. t.url \in Urls /\ t.secret \in Secret
      BY <2>2 DEF Snapshot
    <3>2. [status |-> "pending", attempts |-> 0, due |-> TRUE, secret |-> t.secret] \in DeliveryRow
      BY <3>1 DEF DeliveryRow, RowStatus
    <3> QED BY <2>1, <3>1, <3>2 DEF InsertDelivery, TypeOK
  <2> HIDE DEF new
  <2> QED BY <1>3, <2>3, <2>4, <2>5, WorkerType DEF EnsureInsert, TypeOK
<1>4. CASE EnsureRead(w)
  <2>1. worker[w].rec \in Snapshot
    BY <1>4 DEF EnsureRead, TypeOK, Worker
  <2>2. CASE NextOne(w)
    BY <1>4, <2>2, DropType DEF NextOne, EnsureRead, TypeOK, Worker
  <2>3. CASE worker' = [worker EXCEPT ![w].pc = "post", ![w].rec =
               [url |-> worker[w].rec.url, attempts |-> row[worker[w].rec.url].attempts,
                secret |-> SecretFor(w)]]
    <3> DEFINE rec == [url |-> worker[w].rec.url, attempts |-> row[worker[w].rec.url].attempts,
                       secret |-> SecretFor(w)]
               new == [worker[w] EXCEPT !.pc = "post", !.rec = rec]
    <3>1. rec \in Snapshot
      BY <2>1 DEF Snapshot, SecretFor, TypeOK, DeliveryRow
    <3>2. new \in Worker /\ new.rec \in Snapshot
      BY <3>1 DEF Worker, Pcs, Snapshot
    <3>3. worker' = [worker EXCEPT ![w] = new]
      BY <2>3 DEF TypeOK
    <3> HIDE DEF new
    <3> QED BY <1>4, <3>2, <3>3, WorkerType DEF EnsureRead, TypeOK
  <2> QED BY <1>4, <2>2, <2>3 DEF EnsureRead
<1>5. CASE EnsureFail(w)
  <2>1. \A u : {t \in worker[w].todo : t.url # u} \in SUBSET Snapshot
    BY DEF Worker
  <2>2. PICK u \in Urls : SkipOne(w, u) /\ skipped' = skipped \union {<<w, u>>}
    BY <1>5 DEF EnsureFail, TypeOK, Worker, Snapshot
  <2>3. faults' \in 0 .. MaxFaults /\ skipped' \subseteq Dispatches \X Urls
    BY <1>5, <2>2 DEF EnsureFail, Fault, TypeOK
  <2>4. Drop(w, "next", {t \in worker[w].todo : t.url # u})
    BY <2>2 DEF SkipOne
  <2>5. /\ worker' \in [Workers -> Worker]
        /\ \A v \in Workers :
             worker'[v].pc \in {"read", "post", "ack", "record"} => worker'[v].rec \in Snapshot
    <3> DEFINE rest == {t \in worker[w].todo : t.url # u}
    <3>1. rest \in SUBSET Snapshot /\ Drop(w, "next", rest)
      BY <2>1, <2>4
    <3> HIDE DEF rest
    <3> QED BY <3>1, DropType
  <2> QED BY <1>5, <2>3, <2>5 DEF EnsureFail, TypeOK
<1>6. CASE DispatchEnd(w)
  <2> DEFINE new == [worker[w] EXCEPT !.pc = "done"]
  <2>1. new \in Worker /\ new.pc = "done" /\ worker' = [worker EXCEPT ![w] = new]
    BY <1>6 DEF DispatchEnd, Goto, Worker, Pcs, TypeOK
  <2> HIDE DEF new
  <2> QED BY <1>6, <2>1, WorkerType DEF DispatchEnd, TypeOK
<1> QED
  BY <1>2, <1>3, <1>4, <1>5, <1>6

LEMMA LoopType ==
  ASSUME TypeOK, NEW w \in Loops, LoopList(w) \/ LoopNext(w) \/ LoopEnd(w) \/ LoopEmpty(w)
  PROVE  TypeOK'
<1> w \in Workers /\ worker[w] \in Worker
  BY DEF Workers, TypeOK
<1> USE DeliveryAssumption DEF seen
<1>1. CASE LoopList(w)
  <2>1. PICK S \in SUBSET Due : worker' = [worker EXCEPT ![w].pc = "next",
          ![w].todo = {[url |-> u, attempts |-> row[u].attempts, secret |-> row[u].secret] : u \in S}]
    BY <1>1 DEF LoopList, ReadRows
  <2> DEFINE todo == {[url |-> u, attempts |-> row[u].attempts, secret |-> row[u].secret] : u \in S}
             new == [worker[w] EXCEPT !.pc = "next", !.todo = todo]
  <2>2. todo \subseteq Snapshot
    BY DEF Due, TypeOK, DeliveryRow, Snapshot
  <2>3. new \in Worker /\ new.pc = "next" /\ worker' = [worker EXCEPT ![w] = new]
    BY <2>1, <2>2 DEF Worker, Pcs, TypeOK
  <2> HIDE DEF new
  <2> QED BY <1>1, <2>3, WorkerType DEF LoopList, ReadRows, TypeOK
<1>2. CASE LoopNext(w)
  <2>1. PICK t \in worker[w].todo :
          worker' = [worker EXCEPT ![w].pc = "post", ![w].todo = @ \ {t}, ![w].rec = t]
    BY <1>2 DEF LoopNext
  <2> DEFINE new == [worker[w] EXCEPT !.pc = "post", !.todo = @ \ {t}, !.rec = t]
  <2>2. new \in Worker /\ new.rec \in Snapshot /\ worker' = [worker EXCEPT ![w] = new]
    BY <2>1 DEF Worker, Pcs, Snapshot, TypeOK
  <2> HIDE DEF new
  <2> QED BY <1>2, <2>2, WorkerType DEF LoopNext, TypeOK
<1>3. CASE LoopEnd(w)
  <2> DEFINE new == [worker[w] EXCEPT !.pc = "idle"]
  <2>1. new \in Worker /\ new.pc = "idle" /\ worker' = [worker EXCEPT ![w] = new]
    BY <1>3 DEF LoopEnd, Goto, Worker, Pcs, TypeOK
  <2> HIDE DEF new
  <2> QED BY <1>3, <2>1, WorkerType DEF LoopEnd, TypeOK
<1>4. CASE LoopEmpty(w)
  BY <1>4 DEF LoopEmpty, vars, TypeOK
<1> QED
  BY <1>1, <1>2, <1>3, <1>4

LEMMA PostedType ==
  ASSUME TypeOK, NEW w \in Workers, NEW pc \in {"post", "ack", "record"},
         NEW client \in BOOLEAN, Posted(w, pc, client)
  PROVE  /\ worker[w].rec \in Snapshot
         /\ worker' \in [Workers -> Worker]
         /\ \A v \in Workers :
              worker'[v].pc \in {"read", "post", "ack", "record"} => worker'[v].rec \in Snapshot
         /\ posts' \in [Urls -> Nat] /\ signed' \subseteq Urls \X Secret
<1> USE DeliveryAssumption
<1>1. worker[w] \in Worker /\ worker[w].rec \in Snapshot
  BY DEF Posted, TypeOK, Worker
<1>0. PICK n \in Nat : n = worker[w].tries + 1
  BY <1>1 DEF Worker
<1> DEFINE rec == [worker[w].rec EXCEPT !.attempts = @ + 1]
           new == [worker[w] EXCEPT !.pc = pc, !.client = client, !.tries = n, !.rec = rec]
<1>2. rec \in Snapshot
  BY <1>1 DEF Snapshot
<1>3. new \in Worker /\ new.rec \in Snapshot
  <2> HIDE DEF rec
  <2>1. CASE client = TRUE
    BY <1>1, <1>2, <2>1 DEF Worker, Pcs
  <2>2. CASE client = FALSE
    BY <1>1, <1>2, <2>2 DEF Worker, Pcs
  <2> QED BY <2>1, <2>2
<1>4. worker' = [worker EXCEPT ![w] = new]
  BY <1>0, <1>1 DEF Posted, TypeOK, Worker
<1>5. posts' \in [Urls -> Nat] /\ signed' \subseteq Urls \X Secret
  BY <1>1 DEF Posted, TypeOK, Snapshot
<1> HIDE DEF new
<1> QED BY <1>1, <1>3, <1>4, <1>5, WorkerType

LEMMA AttemptType ==
  ASSUME TypeOK, NEW w \in Workers, Attempt(w) \/ MarkFail(w) \/ Crash(w)
  PROVE  TypeOK'
<1> worker[w] \in Worker
  BY DEF TypeOK
<1> USE DeliveryAssumption DEF seen
<1>1. AfterFailure(w) \in {"post", "ack", "record"}
  BY SMTT(30) DEF AfterFailure
<1>2. CASE PostOK(w)
  BY <1>2, PostedType, ZenonT(60) DEF PostOK, Posted, TypeOK, Snapshot
<1>3. CASE PostLost(w)
  BY <1>1, <1>3, PostedType, ZenonT(60) DEF PostLost, Posted, TypeOK, Snapshot
<1>4. CASE PostFails(w)
  BY <1>1, <1>4, PostedType, ZenonT(60) DEF PostFails, Posted, TypeOK, Snapshot
<1>5. CASE PostRefused(w)
  BY <1>5, PostedType DEF PostRefused, Posted, TypeOK, Snapshot
<1>6. worker[w].todo \in SUBSET Snapshot /\ {} \in SUBSET Snapshot
  BY DEF Worker
<1>7. CASE Ack(w)
  <2>1. worker[w].rec.url \in Urls
    BY <1>7 DEF Ack, TypeOK, Snapshot
  <2>2. [row[worker[w].rec.url] EXCEPT !.status = "delivered", !.due = FALSE] \in DeliveryRow
    <3>1. row[worker[w].rec.url] \in DeliveryRow
      BY <2>1 DEF TypeOK
    <3> QED BY <3>1 DEF DeliveryRow, RowStatus
  <2>3. row' \in [Urls -> DeliveryRow]
    BY <1>7, <2>1, <2>2 DEF Ack, TypeOK
  <2> QED BY <1>6, <1>7, <2>3, DropType DEF Ack, NextOne, TypeOK
<1>8. CASE Record(w)
  <2>1. worker[w].rec \in Snapshot /\ NewStatus(w) \in RowStatus
    BY <1>8 DEF Record, TypeOK, Worker, NewStatus, RowStatus
  <2>2. [row[worker[w].rec.url] EXCEPT !.status = NewStatus(w), !.attempts = worker[w].rec.attempts,
                                         !.due = FALSE] \in DeliveryRow
    BY <2>1, ZenonT(60) DEF TypeOK, DeliveryRow, Snapshot
  <2>3. row' \in [Urls -> DeliveryRow]
    BY <1>8, <2>1, <2>2 DEF Record, TypeOK, Snapshot
  <2> QED BY <1>6, <1>8, <2>3, DropType DEF Record, NextOne, TypeOK
<1>9. CASE MarkFail(w)
  BY <1>6, <1>9, DropType DEF MarkFail, NextOne, Fault, TypeOK
<1>10. CASE Crash(w)
  BY <1>6, <1>10, DropType DEF Crash, Fault, TypeOK
<1> QED
  BY <1>2, <1>3, <1>4, <1>5, <1>7, <1>8, <1>9, <1>10 DEF Attempt

\* Every step is one of a worker, or the time of a row comes.
LEMMA StepKinds ==
  ASSUME [Next]_vars
  PROVE  \/ UNCHANGED vars
         \/ \E w \in Dispatches :
              \/ DispatchBegin(w) \/ EnsureInsert(w) \/ EnsureRead(w) \/ EnsureFail(w)
              \/ DispatchEnd(w)
         \/ \E w \in Loops : LoopList(w) \/ LoopNext(w) \/ LoopEnd(w) \/ LoopEmpty(w)
         \/ \E w \in Workers : Attempt(w) \/ MarkFail(w) \/ Crash(w)
         \/ \E u \in Urls : BecomeDue(u)
  BY DEF Next, DispatchStep, LoopStep, Workers

LEMMA StepType == TypeOK /\ [Next]_vars => TypeOK'
<1> SUFFICES ASSUME TypeOK, [Next]_vars PROVE TypeOK'
  OBVIOUS
<1>1. CASE UNCHANGED vars
  BY <1>1 DEF vars, TypeOK
<1>2. ASSUME NEW u \in Urls, BecomeDue(u) PROVE TypeOK'
  BY <1>2 DEF BecomeDue, seen, TypeOK, DeliveryRow
<1> QED
  BY <1>1, <1>2, StepKinds, DispatchType, LoopType, AttemptType

(* Rows, workers and counters keep their shape under any number of         *)
(* dispatches, loops and destinations.                                     *)
THEOREM DeliveryTypeCorrect == Spec => []TypeOK
  BY InitType, StepType, PTL DEF Spec

-----------------------------------------------------------------------------
(* The inductive invariant                                                 *)

\* What a worker has read of a row is late, but was true: the row is there,
\* the counter counts requests that were sent, a secret was not missed.
CopyOf(t) ==
  /\ row[t.url].status # "absent"
  /\ t.attempts <= posts[t.url]
  /\ t.secret = None => row[t.url].secret = None

Honest(w) ==
  /\ worker[w].pc \in {"post", "ack", "record"} => CopyOf(worker[w].rec)
  /\ worker[w].pc = "read" => row[worker[w].rec.url].status # "absent"
  /\ w \in Loops => \A t \in worker[w].todo : CopyOf(t)
  /\ worker[w].pc = "ack" => worker[w].rec.url \in accepted
  /\ worker[w].client => worker[w].pc = "record" /\ worker[w].rec.url \in refused

\* A destination of a call has a row, was skipped, or is still to be taken.
Planned(w) ==
  w \in Dispatches =>
    /\ worker[w].pc \notin {"idle", "gone"} => \A d \in worker[w].plan :
         \/ row[d.url].status # "absent" \/ <<w, d.url>> \in skipped
         \/ \E t \in worker[w].todo : t.url = d.url
    /\ worker[w].pc = "done" => worker[w].todo = {}

RowInv == DeliveredIsAccepted /\ DeadIsEarned /\ PendingHasBudget

SignInv ==
  \A u \in Urls, s \in Secret : <<u, s>> \in signed =>
    row[u].status # "absent" /\ (s = None => row[u].secret = None)

Inv == TypeOK /\ RowInv /\ SignInv /\ \A w \in Workers : Honest(w) /\ Planned(w)

LEMMA InitInv == Init => Inv
<1> SUFFICES ASSUME Init PROVE Inv
  OBVIOUS
<1>1. TypeOK
  BY InitType
<1>2. RowInv
  BY DeliveryAssumption DEF Init, RowInv, DeliveredIsAccepted, DeadIsEarned, PendingHasBudget
<1>3. SignInv
  BY DEF Init, SignInv
<1>4. \A w \in Workers : Honest(w) /\ Planned(w)
  BY DEF Init, Honest, Planned
<1> QED
  BY <1>1, <1>2, <1>3, <1>4 DEF Inv

\* Nothing that a worker may rely on is taken back.
Grow ==
  /\ \A u \in Urls :
       /\ row[u].status # "absent" => row'[u].status # "absent" /\ row'[u].secret = row[u].secret
       /\ posts[u] <= posts'[u]
  /\ accepted \subseteq accepted' /\ refused \subseteq refused' /\ skipped \subseteq skipped'

LEMMA OthersKeep ==
  ASSUME Inv, Grow, TypeOK', NEW v \in Workers, worker'[v] = worker[v]
  PROVE  Honest(v)' /\ Planned(v)'
<1>1. TypeOK /\ Honest(v) /\ Planned(v)
  BY DEF Inv
<1>2. worker[v] \in Worker
  BY <1>1 DEF TypeOK
<1>3. ASSUME NEW t \in Snapshot, CopyOf(t) PROVE CopyOf(t)'
  <2>1. t.url \in Urls /\ t.attempts \in Nat /\ posts[t.url] \in Nat /\ posts'[t.url] \in Nat
    BY <1>1 DEF Snapshot, TypeOK
  <2> QED BY <1>3, <2>1 DEF CopyOf, Grow
<1>4. worker[v].pc \in {"read", "post", "ack", "record"} => worker[v].rec \in Snapshot
  BY <1>1 DEF TypeOK
<1>5. \A t \in worker[v].todo : t \in Snapshot
  BY <1>2 DEF Worker
<1>6. Honest(v)'
  <2>1. worker[v].pc = "read" => row'[worker[v].rec.url].status # "absent"
    BY <1>1, <1>4 DEF Honest, Grow, Snapshot
  <2>2. worker[v].pc \in {"post", "ack", "record"} => CopyOf(worker[v].rec)'
    BY <1>1, <1>3, <1>4 DEF Honest
  <2>3. v \in Loops => \A t \in worker[v].todo : CopyOf(t)'
    BY <1>1, <1>3, <1>5 DEF Honest
  <2> QED BY <1>1, <2>1, <2>2, <2>3 DEF Honest, Grow
<1>7. Planned(v)'
  <2>1. \A d \in worker[v].plan : d.url \in Urls
    BY <1>2 DEF Worker, Destination
  <2> QED BY <1>1, <2>1 DEF Planned, Grow
<1> QED
  BY <1>6, <1>7

\* What a step of w has to establish.
Keeps(w) ==
  /\ Grow /\ RowInv' /\ SignInv' /\ Honest(w)' /\ Planned(w)'
  /\ \A v \in Workers \ {w} : worker'[v] = worker[v]

\* A step that changes nothing but its worker.
LEMMA QuietKeeps ==
  ASSUME Inv, UNCHANGED <<row, seen>>, skipped \subseteq skipped'
  PROVE  Grow /\ RowInv' /\ SignInv'
<1> TypeOK
  BY DEF Inv
<1>1. Grow
  BY DEF Grow, seen, TypeOK
<1>2. RowInv'
  BY DEF Inv, RowInv, DeliveredIsAccepted, DeadIsEarned, PendingHasBudget, seen
<1>3. SignInv'
  BY DEF Inv, SignInv, seen
<1> QED
  BY <1>1, <1>2, <1>3

\* A worker whose attempt is over holds nothing but its list.
LEMMA DropKeeps ==
  ASSUME TypeOK, NEW w \in Workers, NEW pc \in {"idle", "next", "gone"}, NEW todo,
         todo \subseteq worker[w].todo, Drop(w, pc, todo),
         w \in Loops => \A t \in todo : CopyOf(t)',
         w \in Dispatches /\ pc = "next" => \A d \in worker[w].plan :
           \/ row'[d.url].status # "absent" \/ <<w, d.url>> \in skipped'
           \/ \E t \in todo : t.url = d.url
  PROVE  /\ Honest(w)' /\ (w \in Dispatches /\ pc # "idle" => Planned(w)')
         /\ \A v \in Workers \ {w} : worker'[v] = worker[v]
<1>1. worker'[w] = [pc |-> pc, todo |-> todo, rec |-> None, tries |-> 0, client |-> FALSE,
                    plan |-> worker[w].plan]
  BY DEF Drop, TypeOK
<1>2. \A v \in Workers \ {w} : worker'[v] = worker[v]
  BY DEF Drop, TypeOK
<1>3. Honest(w)'
  BY <1>1 DEF Honest
<1>4. w \in Dispatches /\ pc # "idle" => Planned(w)'
  BY <1>1 DEF Planned
<1> QED
  BY <1>2, <1>3, <1>4

LEMMA BeginKeeps ==
  ASSUME Inv, TypeOK', NEW w \in Dispatches, DispatchBegin(w)
  PROVE  Keeps(w)
<1>0. TypeOK /\ w \in Workers /\ w \notin Loops
  BY DeliveryAssumption DEF Inv, Workers
<1>1. PICK list : DispatchTo(w, list)
  BY DEF DispatchBegin
<1>2. Grow /\ RowInv' /\ SignInv'
  BY <1>1, QuietKeeps DEF DispatchTo
<1>3. /\ worker'[w].pc = "next" /\ worker'[w].client = worker[w].client
      /\ worker'[w].plan = Destinations(list)
      /\ worker'[w].todo =
           {[url |-> d.url, attempts |-> 0, secret |-> d.secret] : d \in Destinations(list)}
      /\ \A v \in Workers \ {w} : worker'[v] = worker[v]
  BY <1>0, <1>1 DEF DispatchTo, TypeOK, Worker
<1>4. ~worker[w].client
  BY <1>0, <1>1 DEF Inv, Honest, DispatchTo
<1>5. Honest(w)'
  BY <1>0, <1>3, <1>4 DEF Honest
<1>6. ASSUME NEW d \in Destinations(list) PROVE \E t \in worker'[w].todo : t.url = d.url
  <2> DEFINE t == [url |-> d.url, attempts |-> 0, secret |-> d.secret]
  <2>1. t \in worker'[w].todo /\ t.url = d.url
    BY <1>3
  <2> QED BY <2>1
<1>7. Planned(w)'
  BY <1>3, <1>6 DEF Planned
<1> QED
  BY <1>2, <1>3, <1>5, <1>7 DEF Keeps

LEMMA InsertKeeps ==
  ASSUME Inv, TypeOK', NEW w \in Dispatches, EnsureInsert(w)
  PROVE  Keeps(w)
<1>0. TypeOK /\ w \in Workers /\ w \notin Loops /\ worker[w] \in Worker
  BY DeliveryAssumption DEF Inv, Workers, TypeOK
<1>1. PICK t \in worker[w].todo :
        /\ worker' = [worker EXCEPT ![w].pc = "read", ![w].todo = @ \ {t}, ![w].rec = t]
        /\ InsertDelivery(t)
  BY DEF EnsureInsert
<1>2. t.url \in Urls
  BY <1>0 DEF Worker, Snapshot
<1>3. row'[t.url].status # "absent"
  BY <1>0, <1>1, <1>2 DEF InsertDelivery, TypeOK
<1>4. \A u \in Urls :
        \/ row'[u] = row[u]
        \/ /\ row[u].status = "absent" /\ row'[u].status = "pending" /\ row'[u].attempts = 0
  BY <1>0, <1>1, <1>2 DEF InsertDelivery, TypeOK
<1>5. Grow
  BY <1>0, <1>4 DEF Grow, EnsureInsert, seen, TypeOK
<1>6. RowInv'
  <2>1. \A u \in Urls : posts[u] \in Nat /\ posts'[u] = posts[u]
    BY <1>0 DEF EnsureInsert, seen, TypeOK
  <2> QED
    BY <1>4, <2>1, DeliveryAssumption
    DEF EnsureInsert, seen, Inv, RowInv, DeliveredIsAccepted, DeadIsEarned, PendingHasBudget
<1>7. SignInv'
  BY <1>4 DEF EnsureInsert, seen, Inv, SignInv
<1>8. /\ worker'[w].pc = "read" /\ worker'[w].rec = t /\ worker'[w].todo = worker[w].todo \ {t}
      /\ worker'[w].plan = worker[w].plan /\ worker'[w].client = worker[w].client
      /\ \A v \in Workers \ {w} : worker'[v] = worker[v]
  BY <1>0, <1>1 DEF TypeOK, Worker
<1>9. ~worker[w].client /\ worker[w].pc = "next"
  BY <1>0 DEF Inv, Honest, EnsureInsert
<1>10. Honest(w)'
  BY <1>0, <1>3, <1>8, <1>9 DEF Honest
<1>11. Planned(w)'
  <2>1. \A d \in worker[w].plan : d.url \in Urls
    BY <1>0 DEF Worker, Destination
  <2>2. \A d \in worker[w].plan :
          \/ row[d.url].status # "absent" \/ <<w, d.url>> \in skipped
          \/ \E x \in worker[w].todo : x.url = d.url
    BY <1>0, <1>9 DEF Inv, Planned
  <2> QED BY <1>3, <1>5, <1>8, <2>1, <2>2 DEF Planned, Grow
<1> QED
  BY <1>5, <1>6, <1>7, <1>8, <1>10, <1>11 DEF Keeps

LEMMA ReadKeeps ==
  ASSUME Inv, TypeOK', NEW w \in Dispatches, EnsureRead(w)
  PROVE  Keeps(w)
<1>0. TypeOK /\ w \in Workers /\ w \notin Loops /\ worker[w] \in Worker
  BY DeliveryAssumption DEF Inv, Workers, TypeOK
<1>1. Grow /\ RowInv' /\ SignInv'
  BY QuietKeeps DEF EnsureRead
<1>2. /\ worker[w].rec \in Snapshot /\ row[worker[w].rec.url].status # "absent"
      /\ ~worker[w].client /\ row' = row /\ skipped' = skipped /\ posts' = posts
  BY <1>0 DEF EnsureRead, TypeOK, Inv, Honest, seen
<1>3. \A d \in worker[w].plan :
        \/ row[d.url].status # "absent" \/ <<w, d.url>> \in skipped
        \/ \E x \in worker[w].todo : x.url = d.url
  BY <1>0 DEF Inv, Planned, EnsureRead
<1>4. CASE NextOne(w)
  BY <1>0, <1>1, <1>2, <1>3, <1>4, DropKeeps DEF NextOne, Keeps
<1>5. CASE worker' = [worker EXCEPT ![w].pc = "post", ![w].rec =
             [url |-> worker[w].rec.url, attempts |-> row[worker[w].rec.url].attempts,
              secret |-> SecretFor(w)]]
  <2>1. /\ worker'[w].pc = "post" /\ worker'[w].todo = worker[w].todo
        /\ worker'[w].plan = worker[w].plan /\ worker'[w].client = worker[w].client
        /\ worker'[w].rec = [url |-> worker[w].rec.url, attempts |-> row[worker[w].rec.url].attempts,
                              secret |-> SecretFor(w)]
        /\ \A v \in Workers \ {w} : worker'[v] = worker[v]
    BY <1>0, <1>5 DEF TypeOK, Worker
  <2>2. row[worker[w].rec.url].attempts <= posts[worker[w].rec.url]
    BY <1>2 DEF Inv, RowInv, DeadIsEarned, Snapshot
  <2>3. SecretFor(w) = None => row[worker[w].rec.url].secret = None
    BY DEF SecretFor
  <2>4. Honest(w)'
    BY <1>0, <1>2, <2>1, <2>2, <2>3 DEF Honest, CopyOf
  <2>5. Planned(w)'
    BY <1>2, <1>3, <2>1 DEF Planned
  <2> QED BY <1>1, <2>1, <2>4, <2>5 DEF Keeps
<1> QED
  BY <1>4, <1>5 DEF EnsureRead

LEMMA FailKeeps ==
  ASSUME Inv, TypeOK', NEW w \in Dispatches, EnsureFail(w)
  PROVE  Keeps(w)
<1>0. TypeOK /\ w \in Workers /\ w \notin Loops /\ worker[w] \in Worker
  BY DeliveryAssumption DEF Inv, Workers, TypeOK
<1>1. PICK u : SkipOne(w, u) /\ skipped' = skipped \union {<<w, u>>}
  BY DEF EnsureFail
<1>2. Grow /\ RowInv' /\ SignInv'
  BY <1>1, QuietKeeps DEF EnsureFail
<1>3. \A d \in worker[w].plan :
        \/ row[d.url].status # "absent" \/ <<w, d.url>> \in skipped
        \/ \E x \in worker[w].todo : x.url = d.url
  BY <1>0 DEF Inv, Planned, EnsureFail
<1> DEFINE rest == {t \in worker[w].todo : t.url # u}
<1>4. \A d \in worker[w].plan :
        \/ row'[d.url].status # "absent" \/ <<w, d.url>> \in skipped'
        \/ \E x \in rest : x.url = d.url
  BY <1>1, <1>3 DEF EnsureFail
<1>5. rest \subseteq worker[w].todo /\ Drop(w, "next", rest)
  BY <1>1 DEF SkipOne
<1> HIDE DEF rest
<1> QED
  BY <1>0, <1>2, <1>4, <1>5, DropKeeps DEF Keeps

LEMMA EndKeeps ==
  ASSUME Inv, TypeOK', NEW w \in Dispatches, DispatchEnd(w)
  PROVE  Keeps(w)
<1>0. TypeOK /\ w \in Workers /\ w \notin Loops
  BY DeliveryAssumption DEF Inv, Workers
<1>1. Grow /\ RowInv' /\ SignInv'
  BY QuietKeeps DEF DispatchEnd
<1>2. /\ worker'[w].pc = "done" /\ worker'[w].todo = {} /\ worker'[w].plan = worker[w].plan
      /\ worker'[w].client = worker[w].client
      /\ \A v \in Workers \ {w} : worker'[v] = worker[v]
  BY <1>0 DEF DispatchEnd, Goto, TypeOK, Worker
<1>3. Honest(w)'
  BY <1>0, <1>2 DEF Honest, Inv, DispatchEnd
<1>4. Planned(w)'
  BY <1>0, <1>2 DEF Planned, Inv, DispatchEnd
<1> QED
  BY <1>1, <1>2, <1>3, <1>4 DEF Keeps

LEMMA LoopKeeps ==
  ASSUME Inv, TypeOK', NEW w \in Loops, LoopList(w) \/ LoopNext(w) \/ LoopEnd(w)
  PROVE  Keeps(w)
<1>0. TypeOK /\ w \in Workers /\ w \notin Dispatches /\ worker[w] \in Worker /\ Honest(w)
  BY DeliveryAssumption DEF Inv, Workers, TypeOK
<1>1. row' = row /\ posts' = posts /\ UNCHANGED <<row, seen>> /\ skipped' = skipped
  BY DEF LoopList, ReadRows, LoopNext, LoopEnd, seen
<1>2. Grow /\ RowInv' /\ SignInv'
  BY <1>1, QuietKeeps
<1>3. Planned(w)'
  BY <1>0 DEF Planned
<1>4. \A t : CopyOf(t)' <=> CopyOf(t)
  BY <1>1 DEF CopyOf
<1>5. ~worker[w].client
  BY <1>0 DEF Honest, LoopList, ReadRows, LoopNext, LoopEnd
<1>6. CASE LoopList(w)
  <2>1. PICK S \in SUBSET Due : worker' = [worker EXCEPT ![w].pc = "next",
          ![w].todo = {[url |-> u, attempts |-> row[u].attempts, secret |-> row[u].secret] : u \in S}]
    BY <1>6 DEF LoopList, ReadRows
  <2>2. /\ worker'[w].pc = "next" /\ worker'[w].client = worker[w].client
        /\ worker'[w].todo =
             {[url |-> u, attempts |-> row[u].attempts, secret |-> row[u].secret] : u \in S}
        /\ \A v \in Workers \ {w} : worker'[v] = worker[v]
    BY <1>0, <2>1 DEF TypeOK, Worker
  <2>3. ASSUME NEW u \in S
        PROVE  CopyOf([url |-> u, attempts |-> row[u].attempts, secret |-> row[u].secret])
    BY DEF CopyOf, Due, Inv, RowInv, DeadIsEarned
  <2>4. \A t \in worker'[w].todo : CopyOf(t)
    BY <2>2, <2>3
  <2>5. Honest(w)'
    BY <1>4, <1>5, <2>2, <2>4 DEF Honest
  <2> QED BY <1>2, <1>3, <2>2, <2>5 DEF Keeps
<1>7. CASE LoopNext(w)
  <2>1. PICK t \in worker[w].todo :
          worker' = [worker EXCEPT ![w].pc = "post", ![w].todo = @ \ {t}, ![w].rec = t]
    BY <1>7 DEF LoopNext
  <2>2. /\ worker'[w].pc = "post" /\ worker'[w].client = worker[w].client
        /\ worker'[w].todo = worker[w].todo \ {t} /\ worker'[w].rec = t
        /\ \A v \in Workers \ {w} : worker'[v] = worker[v]
    BY <1>0, <2>1 DEF TypeOK, Worker
  <2>3. Honest(w)'
    BY <1>0, <1>4, <1>5, <2>1, <2>2 DEF Honest
  <2> QED BY <1>2, <1>3, <2>2, <2>3 DEF Keeps
<1>8. CASE LoopEnd(w)
  <2>1. /\ worker'[w].pc = "idle" /\ worker'[w].client = worker[w].client
        /\ worker'[w].todo = worker[w].todo
        /\ \A v \in Workers \ {w} : worker'[v] = worker[v]
    BY <1>0, <1>8 DEF LoopEnd, Goto, TypeOK, Worker
  <2>2. Honest(w)'
    BY <1>0, <1>4, <1>5, <2>1 DEF Honest
  <2> QED BY <1>2, <1>3, <2>1, <2>2 DEF Keeps
<1> QED
  BY <1>6, <1>7, <1>8

\* A request, whatever comes of it.
LEMMA PostKeeps ==
  ASSUME Inv, TypeOK', NEW w \in Workers, PostOK(w) \/ PostLost(w) \/ PostFails(w) \/ PostRefused(w)
  PROVE  Keeps(w)
<1>0. TypeOK /\ worker[w] \in Worker /\ Honest(w) /\ Planned(w)
  BY SMTT(30) DEF Inv, TypeOK
<1>1. /\ worker[w].pc = "post" /\ row' = row /\ skipped' = skipped
      /\ posts' = [posts EXCEPT ![worker[w].rec.url] = @ + 1]
      /\ signed' = signed \union {<<worker[w].rec.url, worker[w].rec.secret>>}
      /\ accepted \subseteq accepted' /\ refused \subseteq refused'
  BY DEF PostOK, PostLost, PostFails, PostRefused, Posted
<1>2. /\ worker[w].rec \in Snapshot /\ CopyOf(worker[w].rec)
  BY <1>0, <1>1 DEF TypeOK, Honest
<1>3. \A u \in Urls : posts[u] \in Nat /\ posts[u] <= posts'[u] /\ posts'[u] \in Nat
  BY <1>0, <1>1, <1>2 DEF TypeOK, Snapshot
<1>4. Grow
  BY <1>1, <1>3 DEF Grow
<1>5. RowInv'
  <2>1. \A u \in Urls : row[u].attempts \in Nat
    BY <1>0 DEF TypeOK, DeliveryRow
  <2> QED
    BY <1>1, <1>3, <2>1
    DEF Inv, RowInv, DeliveredIsAccepted, DeadIsEarned, PendingHasBudget
<1>6. SignInv'
  <2>1. ASSUME NEW u \in Urls, NEW s \in Secret, <<u, s>> \in signed'
        PROVE  row[u].status # "absent" /\ (s = None => row[u].secret = None)
    <3>1. CASE <<u, s>> \in signed
      BY <3>1 DEF Inv, SignInv
    <3>2. CASE u = worker[w].rec.url /\ s = worker[w].rec.secret
      BY <1>2, <3>2 DEF CopyOf
    <3> QED BY <1>1, <2>1, <3>1, <3>2
  <2> QED BY <1>1, <2>1 DEF SignInv
<1>7. PICK pc \in {"post", "ack", "record"}, client \in BOOLEAN : Posted(w, pc, client)
  BY DEF PostOK, PostLost, PostFails, PostRefused, AfterFailure
<1>8. /\ worker'[w].pc \in {"post", "ack", "record"}
      /\ worker'[w].todo = worker[w].todo /\ worker'[w].plan = worker[w].plan
      /\ worker'[w].rec = [worker[w].rec EXCEPT !.attempts = @ + 1]
      /\ \A v \in Workers \ {w} : worker'[v] = worker[v]
  BY <1>0, <1>2, <1>7 DEF Posted, TypeOK, Worker
<1>9. CopyOf(worker[w].rec)'
  <2>1. /\ worker'[w].rec.url = worker[w].rec.url /\ worker'[w].rec.secret = worker[w].rec.secret
        /\ worker'[w].rec.attempts = worker[w].rec.attempts + 1
    BY <1>2, <1>8 DEF Snapshot
  <2>2. worker[w].rec.url \in Urls /\ worker[w].rec.attempts \in Nat
    BY <1>2 DEF Snapshot
  <2>3. posts'[worker[w].rec.url] = posts[worker[w].rec.url] + 1
    BY <1>0, <1>1, <2>2 DEF TypeOK
  <2> QED BY <1>1, <1>2, <1>3, <2>1, <2>2, <2>3 DEF CopyOf
<1>10. w \in Loops => \A t \in worker[w].todo : CopyOf(t)'
  <2>1. ASSUME NEW t \in Snapshot, CopyOf(t) PROVE CopyOf(t)'
    <3>1. t.url \in Urls /\ t.attempts \in Nat
      BY DEF Snapshot
    <3> QED BY <1>1, <1>3, <2>1, <3>1 DEF CopyOf
  <2> QED BY <1>0, <2>1 DEF Honest, Worker
<1>11. worker'[w].pc = "ack" => worker'[w].rec.url \in accepted'
  <2>1. worker'[w].rec.url = worker[w].rec.url
    BY <1>2, <1>8 DEF Snapshot
  <2>2. PostOK(w) => worker[w].rec.url \in accepted'
    BY DEF PostOK
  <2>3. ~PostOK(w) => worker'[w].pc # "ack"
    BY <1>0 DEF PostLost, PostFails, PostRefused, Posted, AfterFailure, TypeOK, Worker
  <2> QED BY <2>1, <2>2, <2>3
<1>12. worker'[w].client => worker'[w].pc = "record" /\ worker'[w].rec.url \in refused'
  <2>1. worker'[w].rec.url = worker[w].rec.url
    BY <1>2, <1>8 DEF Snapshot
  <2>2. PostRefused(w) => worker'[w].pc = "record" /\ worker[w].rec.url \in refused'
    BY <1>0 DEF PostRefused, Posted, TypeOK, Worker
  <2>3. ~PostRefused(w) => ~worker'[w].client
    BY <1>0 DEF PostOK, PostLost, PostFails, Posted, TypeOK, Worker
  <2> QED BY <2>1, <2>2, <2>3
<1>13. Honest(w)'
  BY <1>8, <1>9, <1>10, <1>11, <1>12 DEF Honest
<1>14. Planned(w)'
  BY <1>0, <1>1, <1>8 DEF Planned
<1> QED
  BY <1>4, <1>5, <1>6, <1>8, <1>13, <1>14 DEF Keeps

\* The end of an attempt, whoever made it: the rows may have moved, but not
\* what others rely on.
LEMMA EndOfAttempt ==
  ASSUME Inv, TypeOK', NEW w \in Workers, Grow, worker[w].pc \notin {"idle", "gone"},
         NEW pc \in {"idle", "next", "gone"}, pc = "idle" => w \in Loops,
         NEW todo, todo \subseteq worker[w].todo, pc = "next" => todo = worker[w].todo,
         Drop(w, pc, todo)
  PROVE  /\ Honest(w)' /\ Planned(w)'
         /\ \A v \in Workers \ {w} : worker'[v] = worker[v]
<1>0. TypeOK /\ worker[w] \in Worker /\ Honest(w) /\ Planned(w)
  BY DEF Inv, TypeOK
<1>1. ASSUME w \in Loops, NEW t \in todo PROVE CopyOf(t)'
  <2>1. t \in Snapshot /\ CopyOf(t)
    BY <1>0, <1>1 DEF Honest, Worker
  <2>2. t.url \in Urls /\ t.attempts \in Nat /\ posts[t.url] \in Nat /\ posts'[t.url] \in Nat
    BY <1>0, <2>1 DEF Snapshot, TypeOK
  <2> QED BY <2>1, <2>2 DEF CopyOf, Grow
<1>2. ASSUME w \in Dispatches, pc = "next", NEW d \in worker[w].plan
      PROVE  \/ row'[d.url].status # "absent" \/ <<w, d.url>> \in skipped'
             \/ \E t \in todo : t.url = d.url
  <2>1. d.url \in Urls
    BY <1>0 DEF Worker, Destination
  <2> QED BY <1>0, <1>2, <2>1 DEF Planned, Grow
<1>3. /\ Honest(w)' /\ (w \in Dispatches /\ pc # "idle" => Planned(w)')
      /\ \A v \in Workers \ {w} : worker'[v] = worker[v]
  BY <1>0, <1>1, <1>2, DropKeeps
<1>4. w \notin Dispatches => Planned(w)'
  BY DEF Planned
<1> QED
  BY <1>3, <1>4, DeliveryAssumption

LEMMA AckKeeps ==
  ASSUME Inv, TypeOK', NEW w \in Workers, Ack(w)
  PROVE  Keeps(w)
<1>0. TypeOK /\ worker[w].rec \in Snapshot /\ worker[w].rec.url \in accepted
  BY DEF Inv, TypeOK, Honest, Ack
<1> DEFINE u == worker[w].rec.url
<1>1. u \in Urls
  BY <1>0 DEF Snapshot
<1>2. /\ row'[u].status = "delivered" /\ row'[u].attempts = row[u].attempts
      /\ row'[u].secret = row[u].secret /\ \A v \in Urls \ {u} : row'[v] = row[v]
  BY <1>0, <1>1 DEF Ack, TypeOK, DeliveryRow
<1>3. UNCHANGED <<accepted, refused, posts, signed, skipped>>
  BY DEF Ack, seen
<1>4. Grow
  BY <1>0, <1>2, <1>3 DEF Grow, TypeOK
<1>5. RowInv'
  BY <1>0, <1>2, <1>3
  DEF Inv, RowInv, DeliveredIsAccepted, DeadIsEarned, PendingHasBudget
<1>6. SignInv'
  BY <1>2, <1>3 DEF Inv, SignInv
<1>7. Drop(w, "next", worker[w].todo)
  BY SMTT(30) DEF Ack, NextOne
<1> QED
  BY <1>4, <1>5, <1>6, <1>7, EndOfAttempt DEF Ack, Keeps

\* The counter written is below the limit, or the row is dead.
LEMMA RecordKeeps ==
  ASSUME Inv, TypeOK', NEW w \in Workers, Record(w)
  PROVE  Keeps(w)
<1>0. TypeOK /\ worker[w].rec \in Snapshot /\ CopyOf(worker[w].rec) /\ Honest(w)
  BY SMTT(30) DEF Inv, TypeOK, Honest, Record
<1> DEFINE u == worker[w].rec.url
<1>1. u \in Urls /\ worker[w].rec.attempts \in Nat
  BY <1>0 DEF Snapshot
<1>2. /\ row'[u].status = NewStatus(w) /\ row'[u].attempts = worker[w].rec.attempts
      /\ row'[u].secret = row[u].secret /\ \A v \in Urls \ {u} : row'[v] = row[v]
  BY <1>0, <1>1 DEF Record, TypeOK, DeliveryRow
<1>3. UNCHANGED <<accepted, refused, posts, signed, skipped>>
  BY DEF Record, seen
<1>4. /\ NewStatus(w) \in {"dead", "pending"}
      /\ NewStatus(w) = "dead" => worker[w].rec.attempts >= MaxTotal \/ u \in refused
      /\ NewStatus(w) = "pending" => worker[w].rec.attempts < MaxTotal
  BY <1>0, <1>1, DeliveryAssumption DEF NewStatus, Dead, Honest
<1>5. Grow
  BY <1>0, <1>2, <1>3, <1>4 DEF Grow, TypeOK
<1>6. RowInv'
  <2>1. worker[w].rec.attempts <= posts[u]
    BY <1>0 DEF CopyOf
  <2> QED
    BY <1>2, <1>3, <1>4, <2>1
    DEF Inv, RowInv, DeliveredIsAccepted, DeadIsEarned, PendingHasBudget
<1>7. SignInv'
  BY <1>2, <1>3, <1>4, SMTT(30) DEF Inv, SignInv
<1>8. Drop(w, "next", worker[w].todo)
  BY DEF Record, NextOne
<1> QED
  BY <1>5, <1>6, <1>7, <1>8, EndOfAttempt DEF Record, Keeps

LEMMA CutKeeps ==
  ASSUME Inv, TypeOK', NEW w \in Workers, MarkFail(w) \/ Crash(w)
  PROVE  Keeps(w)
<1>1. Grow /\ RowInv' /\ SignInv'
  BY QuietKeeps DEF MarkFail, Crash
<1>2. CASE MarkFail(w)
  BY <1>1, <1>2, EndOfAttempt DEF MarkFail, NextOne, Keeps
<1>3. CASE Crash(w)
  <2>1. Drop(w, IF w \in Loops THEN "idle" ELSE "gone", {}) /\ worker[w].pc \notin {"idle", "gone"}
    BY <1>3 DEF Crash
  <2>2. CASE w \in Loops
    BY <1>1, <2>1, <2>2, EndOfAttempt DEF Keeps
  <2>3. CASE w \notin Loops
    BY <1>1, <2>1, <2>3, EndOfAttempt DEF Keeps
  <2> QED BY <2>2, <2>3
<1> QED
  BY <1>2, <1>3

LEMMA StepInv == Inv /\ [Next]_vars => Inv'
<1> SUFFICES ASSUME Inv, [Next]_vars PROVE Inv'
  OBVIOUS
<1>1. TypeOK /\ TypeOK'
  BY StepType DEF Inv
<1>2. ASSUME NEW w \in Workers, Keeps(w) PROVE Inv'
  <2>1. \A v \in Workers : Honest(v)' /\ Planned(v)'
    BY <1>1, <1>2, OthersKeep DEF Keeps
  <2> QED BY <1>1, <1>2, <2>1 DEF Keeps, Inv
<1>3. ASSUME UNCHANGED <<row, seen, skipped, worker>> PROVE Inv'
  <2>1. Grow /\ RowInv' /\ SignInv'
    BY <1>3, QuietKeeps
  <2>2. \A v \in Workers : Honest(v)' /\ Planned(v)'
    BY <1>1, <1>3, <2>1, OthersKeep
  <2> QED BY <1>1, <2>1, <2>2 DEF Inv
<1>4. CASE UNCHANGED vars
  BY <1>3, <1>4 DEF vars, seen
<1>5. ASSUME NEW w \in Dispatches,
             \/ DispatchBegin(w) \/ EnsureInsert(w) \/ EnsureRead(w) \/ EnsureFail(w)
             \/ DispatchEnd(w)
      PROVE  Inv'
  BY <1>1, <1>2, <1>5, BeginKeeps, InsertKeeps, ReadKeeps, FailKeeps, EndKeeps DEF Workers
<1>6. ASSUME NEW w \in Loops, LoopList(w) \/ LoopNext(w) \/ LoopEnd(w) PROVE Inv'
  BY <1>1, <1>2, <1>6, LoopKeeps DEF Workers
<1>7. ASSUME NEW w \in Loops, LoopEmpty(w) PROVE Inv'
  BY <1>3, <1>7 DEF LoopEmpty, vars, seen
<1>8. ASSUME NEW w \in Workers, Attempt(w) \/ MarkFail(w) \/ Crash(w) PROVE Inv'
  BY <1>1, <1>2, <1>8, PostKeeps, AckKeeps, RecordKeeps, CutKeeps DEF Attempt
<1>9. ASSUME NEW u \in Urls, BecomeDue(u) PROVE Inv'
  <2>1. /\ \A v \in Urls : /\ row'[v].status = row[v].status /\ row'[v].secret = row[v].secret
                            /\ row'[v].attempts = row[v].attempts
        /\ UNCHANGED <<worker, accepted, refused, posts, signed, skipped>>
    BY <1>1, <1>9 DEF BecomeDue, seen, TypeOK, DeliveryRow
  <2>2. Grow
    BY <1>1, <2>1 DEF Grow, TypeOK
  <2>3. RowInv'
    BY <2>1 DEF Inv, RowInv, DeliveredIsAccepted, DeadIsEarned, PendingHasBudget
  <2>4. SignInv'
    BY <2>1 DEF Inv, SignInv
  <2>5. \A v \in Workers : Honest(v)' /\ Planned(v)'
    BY <1>1, <2>1, <2>2, OthersKeep
  <2> QED BY <1>1, <2>3, <2>4, <2>5 DEF Inv
<1> QED
  BY <1>4, <1>5, <1>6, <1>7, <1>8, <1>9, StepKinds

LEMMA AlwaysInv == Spec => []Inv
  BY InitInv, StepInv, PTL DEF Spec

-----------------------------------------------------------------------------
(* The results                                                             *)

(* However bursts, retries and late answers overlap, a delivery is         *)
(* recorded as delivered only if its receiver has accepted it.             *)
THEOREM DeliveredIsTrue == Spec => []DeliveredIsAccepted
<1>1. Inv => DeliveredIsAccepted
  BY DEF Inv, RowInv
<1> QED
  BY AlwaysInv, <1>1, PTL

(* Workers that overwrite each other's counters never claim a request that *)
(* was not sent, and no delivery dies before its time.                     *)
THEOREM DeathIsEarned == Spec => []DeadIsEarned
<1>1. Inv => DeadIsEarned
  BY DEF Inv, RowInv
<1> QED
  BY AlwaysInv, <1>1, PTL

(* A delivery that is to be retried has attempts left, whatever stale      *)
(* counter was written last.                                               *)
THEOREM RetryHasBudget == Spec => []PendingHasBudget
<1>1. Inv => PendingHasBudget
  BY DEF Inv, RowInv
<1> QED
  BY AlwaysInv, <1>1, PTL

(* A dispatch that comes to its end has left a row for each destination    *)
(* whose own statements did not fail, for any number of destinations.      *)
THEOREM DispatchTracksAll == Spec => []EveryDestinationTracked
<1>1. Inv => EveryDestinationTracked
  <2> SUFFICES ASSUME Inv, NEW w \in Dispatches, worker[w].pc = "done", NEW d \in worker[w].plan
               PROVE  row[d.url].status # "absent" \/ <<w, d.url>> \in skipped
    BY DEF EveryDestinationTracked
  <2> QED BY DEF Inv, Planned, Workers
<1> QED
  BY AlwaysInv, <1>1, PTL

(* No request goes out unsigned to a receiver whose delivery has a secret, *)
(* also from a dispatch that could not list the endpoints.                 *)
THEOREM SignatureNotLost == Spec => []SignedWhenKnown
<1>1. Inv => SignedWhenKnown
  BY DEF Inv, SignInv, SignedWhenKnown, Secret
<1> QED
  BY AlwaysInv, <1>1, PTL

-----------------------------------------------------------------------------
(* The ledger: what a worker holds of the rows                             *)

\* A loop's list has each row once, and not the one it is at; what is
\* recorded as failed was tried.
Hold(w) ==
  /\ worker[w].pc = "record" => worker[w].rec.attempts > 0
  /\ w \in Loops =>
       /\ worker[w].pc = "idle" => worker[w].todo = {}
       /\ \A s, t \in worker[w].todo : s.url = t.url => s = t
       /\ worker[w].pc \in {"post", "ack", "record"} =>
            \A t \in worker[w].todo : t.url # worker[w].rec.url

HoldInv == \A w \in Workers : Hold(w)

\* What a step of w has to establish; S is what it takes up, T what it lets
\* go.
Holds(w, S, T) ==
  /\ Hold(w)' /\ Taken(w)' = (Taken(w) \union S) \ T
  /\ \A v \in Workers \ {w} : worker'[v] = worker[v]

LEMMA HoldStep ==
  ASSUME HoldInv, NEW w \in Workers, NEW S, NEW T, Holds(w, S, T)
  PROVE  /\ HoldInv'
         /\ \A v \in Workers \ {w} : Taken(v)' = Taken(v)
<1>1. ASSUME NEW v \in Workers \ {w} PROVE Hold(v)' /\ Taken(v)' = Taken(v)
  <2>1. worker'[v] = worker[v] /\ Hold(v)
    BY DEF Holds, HoldInv
  <2> QED BY <2>1 DEF Hold, Taken
<1> QED
  BY <1>1 DEF Holds, HoldInv

LEMMA TakenType == ASSUME TypeOK, NEW w \in Workers PROVE Taken(w) \subseteq Urls
<1>1. worker[w].todo \subseteq Snapshot
  BY DEF TypeOK, Worker
<1>2. worker[w].pc \in {"post", "ack", "record"} => worker[w].rec \in Snapshot
  BY DEF TypeOK
<1> QED
  BY <1>1, <1>2 DEF Taken, Snapshot

LEMMA DispatchHolds ==
  ASSUME TypeOK, HoldInv, NEW w \in Dispatches,
         DispatchBegin(w) \/ EnsureInsert(w) \/ EnsureFail(w) \/ DispatchEnd(w)
  PROVE  Holds(w, {}, {})
<1>type. worker \in [Workers -> Worker]
  BY Zenon DEF TypeOK
<1>0. w \in Workers /\ w \notin Loops /\ worker[w] \in Worker
  BY DeliveryAssumption DEF Workers, TypeOK
<1> DEFINE Moved ==
             /\ worker[w].pc \in {"idle", "next", "read"}
             /\ worker'[w].pc \in {"next", "read", "done"}
             /\ \A v \in Workers \ {w} : worker'[v] = worker[v]
<1>1. Moved
  <2>1. CASE DispatchBegin(w)
    <3>1. PICK list : DispatchTo(w, list)
      BY <2>1 DEF DispatchBegin
    <3> QED BY <1>0, <3>1, <1>type DEF DispatchTo, Worker
  <2>2. CASE EnsureInsert(w)
    <3>1. PICK t : worker' = [worker EXCEPT ![w].pc = "read", ![w].todo = @ \ {t}, ![w].rec = t]
      BY <2>2, Zenon DEF EnsureInsert
    <3>2. worker[w].pc = "next"
      BY <2>2 DEF EnsureInsert
    <3> QED BY <1>0, <3>1, <3>2, <1>type DEF Worker
  <2>3. CASE EnsureFail(w)
    BY <1>0, <2>3, <1>type DEF EnsureFail, SkipOne, Drop, Worker
  <2>4. CASE DispatchEnd(w)
    BY <1>0, <2>4, <1>type DEF DispatchEnd, Goto, Worker
  <2> QED BY <2>1, <2>2, <2>3, <2>4
<1>2. Taken(w) = {} /\ Taken(w)' = {} /\ Hold(w)'
  BY <1>0, <1>1 DEF Taken, Hold
<1> QED
  BY <1>1, <1>2 DEF Holds

LEMMA ReadHolds ==
  ASSUME TypeOK, HoldInv, NEW w \in Dispatches, EnsureRead(w)
  PROVE  \/ Holds(w, {}, {})
         \/ /\ row[worker[w].rec.url].status # "delivered"
            /\ Holds(w, {worker[w].rec.url}, {})
<1>type. worker \in [Workers -> Worker]
  BY Zenon DEF TypeOK
<1>0. w \in Workers /\ w \notin Loops /\ worker[w] \in Worker /\ worker[w].pc = "read"
  BY DeliveryAssumption DEF Workers, TypeOK, EnsureRead
<1>1. Taken(w) = {}
  BY <1>0 DEF Taken
<1>2. CASE NextOne(w)
  <2>1. worker'[w].pc = "next" /\ \A v \in Workers \ {w} : worker'[v] = worker[v]
    BY <1>0, <1>2, <1>type DEF NextOne, Drop, Worker
  <2>2. Taken(w)' = {} /\ Hold(w)'
    BY <1>0, <2>1 DEF Taken, Hold
  <2> QED BY <1>1, <2>1, <2>2 DEF Holds
<1>3. CASE /\ row[worker[w].rec.url].status # "delivered"
           /\ worker' = [worker EXCEPT ![w].pc = "post", ![w].rec =
                [url |-> worker[w].rec.url, attempts |-> row[worker[w].rec.url].attempts,
                 secret |-> SecretFor(w)]]
  <2>1. /\ worker'[w].pc = "post" /\ worker'[w].rec.url = worker[w].rec.url
        /\ \A v \in Workers \ {w} : worker'[v] = worker[v]
    BY <1>0, <1>3, <1>type DEF Worker
  <2>2. Taken(w)' = {worker[w].rec.url} /\ Hold(w)'
    BY <1>0, <2>1 DEF Taken, Hold
  <2> QED BY <1>1, <1>3, <2>1, <2>2 DEF Holds
<1> QED
  BY <1>2, <1>3 DEF EnsureRead

LEMMA LoopHolds ==
  ASSUME TypeOK, HoldInv, NEW w \in Loops, LoopList(w) \/ LoopNext(w) \/ LoopEnd(w)
  PROVE  \E S \in SUBSET Due : Holds(w, S, {})
<1>type. worker \in [Workers -> Worker]
  BY Zenon DEF TypeOK
<1>0. w \in Workers /\ worker[w] \in Worker /\ Hold(w)
  BY DEF Workers, TypeOK, HoldInv
<1>1. CASE LoopList(w)
  <2>1. PICK S \in SUBSET Due : worker' = [worker EXCEPT ![w].pc = "next", ![w].todo = ReadRows(S)]
    BY <1>1 DEF LoopList
  <2>2. /\ worker'[w].pc = "next" /\ worker'[w].todo = ReadRows(S)
        /\ \A v \in Workers \ {w} : worker'[v] = worker[v]
    BY <1>0, <2>1, <1>type DEF Worker
  <2>3. \A s, t \in ReadRows(S) : s.url = t.url => s = t
    BY DEF ReadRows
  <2>4. {t.url : t \in ReadRows(S)} = S
    <3>1. \A t \in ReadRows(S) : t.url \in S
      BY DEF ReadRows
    <3>2. ASSUME NEW u \in S PROVE \E t \in ReadRows(S) : t.url = u
      <4> DEFINE t == [url |-> u, attempts |-> row[u].attempts, secret |-> row[u].secret]
      <4>1. t \in ReadRows(S) /\ t.url = u
        BY DEF ReadRows
      <4> QED BY <4>1
    <3> QED BY <3>1, <3>2
  <2>5. Taken(w) = {}
    BY <1>0, <1>1 DEF LoopList, Hold, Taken
  <2>6. Taken(w)' = S
    BY <2>2, <2>4 DEF Taken
  <2>7. Hold(w)'
    BY <2>2, <2>3 DEF Hold
  <2>8. Taken(w)' = (Taken(w) \union S) \ {}
    BY <2>5, <2>6
  <2>9. Holds(w, S, {})
    BY <2>2, <2>7, <2>8 DEF Holds
  <2> QED BY <2>9
<1>2. CASE LoopNext(w)
  <2>1. PICK t \in worker[w].todo :
          worker' = [worker EXCEPT ![w].pc = "post", ![w].todo = @ \ {t}, ![w].rec = t]
    BY <1>2 DEF LoopNext
  <2>2. /\ worker'[w].pc = "post" /\ worker'[w].todo = worker[w].todo \ {t} /\ worker'[w].rec = t
        /\ \A v \in Workers \ {w} : worker'[v] = worker[v]
    BY <1>0, <2>1, <1>type DEF Worker
  <2>3. Taken(w) = {s.url : s \in worker[w].todo}
    BY <1>2 DEF LoopNext, Taken
  <2>4. Taken(w)' = {s.url : s \in worker[w].todo \ {t}} \union {t.url}
    BY <2>2 DEF Taken
  <2>5. Taken(w)' = Taken(w)
    BY <2>1, <2>3, <2>4
  <2>6. Hold(w)'
    BY <1>0, <2>1, <2>2 DEF Hold
  <2>7. Taken(w)' = (Taken(w) \union {}) \ {}
    BY <2>5
  <2>8. Holds(w, {}, {})
    BY <2>2, <2>6, <2>7 DEF Holds
  <2> QED BY <2>8
<1>3. CASE LoopEnd(w)
  <2>1. /\ worker'[w].pc = "idle" /\ worker[w].todo = {} /\ worker'[w].todo = {}
        /\ worker[w].pc = "next" /\ \A v \in Workers \ {w} : worker'[v] = worker[v]
    BY <1>0, <1>3, <1>type DEF LoopEnd, Goto, Worker
  <2>2. Taken(w) = {} /\ Taken(w)' = {} /\ Hold(w)'
    BY <2>1 DEF Taken, Hold
  <2>3. Holds(w, {}, {})
    BY <2>1, <2>2 DEF Holds
  <2> QED BY <2>3
<1> QED
  BY <1>1, <1>2, <1>3

LEMMA PostHolds ==
  ASSUME TypeOK, HoldInv, NEW w \in Workers,
         PostOK(w) \/ PostLost(w) \/ PostFails(w) \/ PostRefused(w)
  PROVE  worker[w].rec.url \in Taken(w) /\ Holds(w, {}, {})
<1>type. worker \in [Workers -> Worker]
  BY Zenon DEF TypeOK
<1>0. worker[w] \in Worker /\ Hold(w)
  BY DEF TypeOK, HoldInv
<1>1. PICK pc \in {"post", "ack", "record"}, client \in BOOLEAN : Posted(w, pc, client)
  BY DEF PostOK, PostLost, PostFails, PostRefused, AfterFailure
<1>2. worker[w].pc = "post" /\ worker[w].rec \in Snapshot
  BY <1>1 DEF Posted, TypeOK
<1>3. /\ worker'[w].pc \in {"post", "ack", "record"} /\ worker'[w].todo = worker[w].todo
      /\ worker'[w].rec = [worker[w].rec EXCEPT !.attempts = @ + 1]
      /\ \A v \in Workers \ {w} : worker'[v] = worker[v]
  BY <1>0, <1>1, <1>2, <1>type DEF Posted, Worker
<1>4. worker'[w].rec.url = worker[w].rec.url /\ worker'[w].rec.attempts > 0
  BY <1>2, <1>3 DEF Snapshot
<1>5. worker[w].rec.url \in Taken(w) /\ Taken(w)' = Taken(w)
  BY <1>2, <1>3, <1>4 DEF Taken
<1>6. Hold(w)'
  BY <1>0, <1>2, <1>3, <1>4 DEF Hold
<1> QED
  BY <1>3, <1>5, <1>6 DEF Holds

\* The end of an attempt, written or not.
LEMMA EndHolds ==
  ASSUME TypeOK, HoldInv, NEW w \in Workers, worker[w].pc \in {"ack", "record"}, NextOne(w)
  PROVE  worker[w].rec.url \in Taken(w) /\ Holds(w, {}, {worker[w].rec.url})
<1>type. worker \in [Workers -> Worker]
  BY Zenon DEF TypeOK
<1>0. worker[w] \in Worker /\ Hold(w)
  BY DEF TypeOK, HoldInv
<1>1. /\ worker'[w].pc = "next" /\ worker'[w].todo = worker[w].todo
      /\ \A v \in Workers \ {w} : worker'[v] = worker[v]
  BY <1>0, <1>type DEF NextOne, Drop, Worker
<1>2. worker[w].rec.url \in Taken(w)
  BY DEF Taken
<1>3. CASE w \in Loops
  <2>1. Taken(w) = {t.url : t \in worker[w].todo} \union {worker[w].rec.url}
    BY <1>3 DEF Taken
  <2>2. Taken(w)' = {t.url : t \in worker[w].todo}
    BY <1>1, <1>3 DEF Taken
  <2>3. \A t \in worker[w].todo : t.url # worker[w].rec.url
    BY <1>0, <1>3 DEF Hold
  <2>4. Taken(w)' = Taken(w) \ {worker[w].rec.url}
    BY <2>1, <2>2, <2>3
  <2>5. Hold(w)'
    BY <1>0, <1>1 DEF Hold
  <2> QED BY <1>1, <1>2, <2>4, <2>5 DEF Holds
<1>4. CASE w \notin Loops
  <2>1. Taken(w) = {worker[w].rec.url} /\ Taken(w)' = {}
    BY <1>1, <1>4 DEF Taken
  <2>2. Hold(w)'
    BY <1>1, <1>4 DEF Hold
  <2> QED BY <1>1, <1>2, <2>1, <2>2 DEF Holds
<1> QED
  BY <1>3, <1>4

LEMMA CrashHolds ==
  ASSUME TypeOK, HoldInv, NEW w \in Workers, Crash(w)
  PROVE  Holds(w, {}, Taken(w))
<1>1. /\ worker'[w].pc \in {"idle", "gone"} /\ worker'[w].todo = {}
      /\ \A v \in Workers \ {w} : worker'[v] = worker[v]
  BY DEF Crash, Drop, TypeOK
<1>2. Taken(w)' = {} /\ Hold(w)'
  BY <1>1 DEF Taken, Hold
<1> QED
  BY <1>1, <1>2 DEF Holds

LEMMA InitHold == Init => HoldInv
  BY DEF Init, HoldInv, Hold

LEMMA StepHold == TypeOK /\ HoldInv /\ [Next]_vars => HoldInv'
<1> SUFFICES ASSUME TypeOK, HoldInv, [Next]_vars PROVE HoldInv'
  OBVIOUS
<1>1. ASSUME UNCHANGED worker PROVE HoldInv'
  BY <1>1 DEF HoldInv, Hold
<1>2. CASE UNCHANGED vars
  BY <1>1, <1>2 DEF vars
<1>3. ASSUME NEW w \in Dispatches,
             \/ DispatchBegin(w) \/ EnsureInsert(w) \/ EnsureRead(w) \/ EnsureFail(w)
             \/ DispatchEnd(w)
      PROVE  HoldInv'
  BY <1>3, DispatchHolds, ReadHolds, HoldStep DEF Workers
<1>4. ASSUME NEW w \in Loops, LoopList(w) \/ LoopNext(w) \/ LoopEnd(w) PROVE HoldInv'
  BY <1>4, LoopHolds, HoldStep DEF Workers
<1>5. ASSUME NEW w \in Loops, LoopEmpty(w) PROVE HoldInv'
  BY <1>1, <1>5 DEF LoopEmpty, vars
<1>6. ASSUME NEW w \in Workers, Attempt(w) \/ MarkFail(w) \/ Crash(w) PROVE HoldInv'
  <2>1. CASE PostOK(w) \/ PostLost(w) \/ PostFails(w) \/ PostRefused(w)
    BY <2>1, PostHolds, HoldStep
  <2>2. CASE Ack(w) \/ Record(w) \/ MarkFail(w)
    BY <2>2, EndHolds, HoldStep DEF Ack, Record, MarkFail
  <2>3. CASE Crash(w)
    BY <2>3, CrashHolds, HoldStep
  <2> QED BY <1>6, <2>1, <2>2, <2>3 DEF Attempt
<1>7. ASSUME NEW u \in Urls, BecomeDue(u) PROVE HoldInv'
  BY <1>1, <1>7 DEF BecomeDue
<1> QED
  BY <1>2, <1>3, <1>4, <1>5, <1>6, <1>7, StepKinds

-----------------------------------------------------------------------------
(* The ledger: every step is one of its steps, or none                     *)

LEMMA LedgerInit == Init => Ledger!Init
<1> SUFFICES ASSUME Init PROVE Ledger!Init
  OBVIOUS
<1>1. \A u \in Urls : row[u].status = "absent" /\ row[u].attempts = 0 /\ row[u].secret = None
  BY DEF Init
<1>2. \A w \in Workers : Taken(w) = {}
  BY DEF Init, Taken
<1> QED
  BY <1>1, <1>2 DEF Init, Ledger!Init

\* The ledger's variables one by one.
RowsKept ==
  \A u \in Urls :
    row'[u].status = row[u].status /\ row'[u].attempts = row[u].attempts /\ row'[u].secret = row[u].secret

TakenKept == \A v \in Workers : Taken(v)' = Taken(v)

AnswersKept == UNCHANGED <<accepted, refused, posts>>

LEMMA LedgerRows ==
  ASSUME RowsKept
  PROVE  /\ [u \in Urls |-> row[u].status]' = [u \in Urls |-> row[u].status]
         /\ [u \in Urls |-> row[u].attempts]' = [u \in Urls |-> row[u].attempts]
         /\ [u \in Urls |-> row[u].secret]' = [u \in Urls |-> row[u].secret]
  BY DEF RowsKept

LEMMA LedgerStutter ==
  ASSUME RowsKept, TakenKept, AnswersKept
  PROVE  UNCHANGED Ledger!lvars
  BY LedgerRows DEF TakenKept, AnswersKept, Ledger!lvars

LEMMA LedgerTaken ==
  ASSUME HoldInv, NEW w \in Workers, NEW S, NEW T, Holds(w, S, T)
  PROVE  [v \in Workers |-> Taken(v)]' =
           [[v \in Workers |-> Taken(v)] EXCEPT ![w] = (@ \union S) \ T]
<1>1. Taken(w)' = (Taken(w) \union S) \ T /\ \A v \in Workers \ {w} : Taken(v)' = Taken(v)
  BY HoldStep DEF Holds
<1> QED
  BY <1>1

LEMMA LedgerTakeUp ==
  ASSUME HoldInv, NEW w \in Workers, NEW S \in SUBSET Urls, Holds(w, S, {}),
         RowsKept, AnswersKept, \A u \in S : row[u].status \in {"pending", "dead"}
  PROVE  Ledger!Next
<1>1. [v \in Workers |-> Taken(v)]' = [[v \in Workers |-> Taken(v)] EXCEPT ![w] = @ \union S]
  BY LedgerTaken
<1>2. Ledger!TakeUp(w, S)
  BY <1>1, LedgerRows DEF AnswersKept, Ledger!TakeUp, Ledger!answers
<1> QED
  BY <1>2 DEF Ledger!Next

LEMMA LedgerQuiet ==
  ASSUME HoldInv, NEW w \in Workers, Holds(w, {}, {}), RowsKept, AnswersKept
  PROVE  Ledger!Next
  BY LedgerTakeUp

LEMMA LedgerAbandon ==
  ASSUME HoldInv, NEW w \in Workers, NEW S \in SUBSET Urls, Holds(w, {}, S),
         RowsKept, AnswersKept
  PROVE  Ledger!Next
<1>1. [v \in Workers |-> Taken(v)]' = [[v \in Workers |-> Taken(v)] EXCEPT ![w] = @ \ S]
  BY LedgerTaken
<1>2. Ledger!Abandon(w, S)
  BY <1>1, LedgerRows DEF AnswersKept, Ledger!Abandon, Ledger!LetGo, Ledger!answers
<1> QED
  BY <1>2 DEF Ledger!Next

LEMMA SameRows == UNCHANGED <<row, seen>> => RowsKept /\ AnswersKept
  BY DEF RowsKept, AnswersKept, seen

LEMMA InsertIsOpen ==
  ASSUME Inv, HoldInv, NEW w \in Dispatches, EnsureInsert(w)
  PROVE  Ledger!Next
<1>0. TypeOK /\ w \in Workers /\ worker[w] \in Worker
  BY DEF Inv, Workers, TypeOK
<1>1. PICK t \in worker[w].todo : InsertDelivery(t)
  BY DEF EnsureInsert
<1>2. t.url \in Urls /\ t.secret \in Secret
  BY <1>0 DEF Worker, Snapshot
<1>3. Holds(w, {}, {}) /\ AnswersKept
  BY <1>0, DispatchHolds DEF EnsureInsert, AnswersKept, seen
<1>4. CASE row[t.url].status # "absent"
  BY <1>0, <1>1, <1>3, <1>4, LedgerQuiet DEF InsertDelivery, RowsKept
<1>5. CASE row[t.url].status = "absent"
  <2>1. /\ row'[t.url].status = "pending" /\ row'[t.url].attempts = 0
        /\ row'[t.url].secret = t.secret /\ \A u \in Urls \ {t.url} : row'[u] = row[u]
    BY <1>0, <1>1, <1>2, <1>5 DEF InsertDelivery, TypeOK
  <2>2. [u \in Urls |-> row[u].status]' =
          [[u \in Urls |-> row[u].status] EXCEPT ![t.url] = "pending"]
    BY <1>2, <2>1
  <2>3. [u \in Urls |-> row[u].attempts]' = [[u \in Urls |-> row[u].attempts] EXCEPT ![t.url] = 0]
    BY <1>2, <2>1
  <2>4. [u \in Urls |-> row[u].secret]' =
          [[u \in Urls |-> row[u].secret] EXCEPT ![t.url] = t.secret]
    BY <1>2, <2>1
  <2>5. [v \in Workers |-> Taken(v)]' = [v \in Workers |-> Taken(v)]
    BY <1>0, <1>3, HoldStep DEF Holds
  <2>6. Ledger!Open(t.url)
    BY <1>2, <1>3, <1>5, <2>2, <2>3, <2>4, <2>5 DEF Ledger!Open, Ledger!answers, AnswersKept
  <2> QED BY <1>2, <2>6 DEF Ledger!Next
<1> QED
  BY <1>4, <1>5

LEMMA ReadIsTakeUp ==
  ASSUME Inv, HoldInv, NEW w \in Dispatches, EnsureRead(w)
  PROVE  Ledger!Next
<1>0. TypeOK /\ w \in Workers /\ RowsKept /\ AnswersKept
  BY SameRows DEF Inv, Workers, EnsureRead
<1> DEFINE u == worker[w].rec.url
<1>1. u \in Urls /\ row[u].status # "absent"
  BY <1>0 DEF EnsureRead, TypeOK, Snapshot, Inv, Honest
<1>2. CASE Holds(w, {}, {})
  BY <1>0, <1>2, LedgerQuiet DEF Inv
<1>3. CASE row[u].status # "delivered" /\ Holds(w, {u}, {})
  <2>1. row[u].status \in {"pending", "dead"}
    BY <1>0, <1>1, <1>3 DEF TypeOK, DeliveryRow, RowStatus
  <2>2. {u} \in SUBSET Urls /\ \A x \in {u} : row[x].status \in {"pending", "dead"}
    BY <1>1, <2>1
  <2> HIDE DEF u
  <2> QED BY <1>0, <1>3, <2>2, LedgerTakeUp
<1> QED
  BY <1>0, <1>2, <1>3, ReadHolds

LEMMA ListIsTakeUp ==
  ASSUME Inv, HoldInv, NEW w \in Loops, LoopList(w) \/ LoopNext(w) \/ LoopEnd(w)
  PROVE  Ledger!Next
<1>0. TypeOK /\ w \in Workers /\ RowsKept /\ AnswersKept
  BY SameRows DEF Inv, Workers, LoopList, LoopNext, LoopEnd
<1>1. PICK S \in SUBSET Due : Holds(w, S, {})
  BY <1>0, LoopHolds
<1>2. S \in SUBSET Urls /\ \A u \in S : row[u].status \in {"pending", "dead"}
  BY DEF Due
<1> QED
  BY <1>0, <1>1, <1>2, LedgerTakeUp

LEMMA PostIsRequest ==
  ASSUME Inv, HoldInv, NEW w \in Workers,
         PostOK(w) \/ PostLost(w) \/ PostFails(w) \/ PostRefused(w)
  PROVE  Ledger!Next
<1> DEFINE u == worker[w].rec.url
<1>0. TypeOK /\ u \in Taken(w) /\ Holds(w, {}, {}) /\ Taken(w) \subseteq Urls
  BY PostHolds, TakenType, SMTT(30) DEF Inv
<1>1. /\ row' = row /\ posts' = [posts EXCEPT ![u] = @ + 1]
      /\ \/ accepted' = accepted \union {u} /\ UNCHANGED refused
         \/ refused' = refused \union {u} /\ UNCHANGED accepted
         \/ UNCHANGED <<accepted, refused>>
  BY DEF PostOK, PostLost, PostFails, PostRefused, Posted
<1>2. RowsKept
  BY <1>1 DEF RowsKept
<1>3. [v \in Workers |-> Taken(v)]' = [v \in Workers |-> Taken(v)]
  BY <1>0, HoldStep DEF Holds
<1> HIDE DEF u
<1>4. Ledger!Request(w, u)
  BY <1>0, <1>1, <1>2, <1>3, LedgerRows DEF Ledger!Request
<1> QED
  BY <1>0, <1>4 DEF Ledger!Next

LEMMA AckIsDeliver ==
  ASSUME Inv, HoldInv, NEW w \in Workers, Ack(w)
  PROVE  Ledger!Next
<1>u. PICK u \in Urls : u = worker[w].rec.url
  BY DEF Inv, TypeOK, Ack, Snapshot
<1>0. TypeOK /\ u \in Taken(w) /\ Holds(w, {}, {u}) /\ u \in accepted
  BY <1>u, EndHolds DEF Inv, Ack, Honest
<1>1. /\ row'[u].status = "delivered" /\ row'[u].attempts = row[u].attempts
      /\ row'[u].secret = row[u].secret /\ \A v \in Urls \ {u} : row'[v] = row[v]
      /\ AnswersKept
  BY <1>u, <1>0 DEF Ack, TypeOK, DeliveryRow, AnswersKept, seen
<1>2. [v \in Workers |-> Taken(v)]' = [[v \in Workers |-> Taken(v)] EXCEPT ![w] = @ \ {u}]
  BY <1>0, LedgerTaken
<1>3. [v \in Urls |-> row[v].status]' = [[v \in Urls |-> row[v].status] EXCEPT ![u] = "delivered"]
  BY <1>0, <1>1
<1>4. /\ [v \in Urls |-> row[v].attempts]' = [v \in Urls |-> row[v].attempts]
      /\ [v \in Urls |-> row[v].secret]' = [v \in Urls |-> row[v].secret]
  BY <1>1
<1>5. Ledger!Deliver(w, u)
  BY <1>0, <1>1, <1>2, <1>3, <1>4
  DEF AnswersKept, Ledger!Deliver, Ledger!LetGo, Ledger!answers
<1> QED
  BY <1>5 DEF Ledger!Next

LEMMA RecordIsFail ==
  ASSUME Inv, HoldInv, NEW w \in Workers, Record(w)
  PROVE  Ledger!Next
<1>u. PICK u \in Urls, n \in Nat : u = worker[w].rec.url /\ n = worker[w].rec.attempts
  BY SMTT(30) DEF Inv, TypeOK, Record, Snapshot
<1>0. TypeOK /\ u \in Taken(w) /\ Holds(w, {}, {u})
  BY <1>u, EndHolds, SMTT(30) DEF Inv, Record
<1>1. /\ row'[u].status = NewStatus(w) /\ row'[u].attempts = n
      /\ row'[u].secret = row[u].secret /\ \A v \in Urls \ {u} : row'[v] = row[v]
      /\ AnswersKept
  BY <1>u, <1>0 DEF Record, TypeOK, DeliveryRow, AnswersKept, seen
<1>2. n \in 1 .. posts[u]
  <2>1. posts[u] \in Nat
    BY <1>0, SMTT(30) DEF TypeOK
  <2>2. n > 0 /\ n <= posts[u]
    BY <1>u DEF Record, HoldInv, Hold, Inv, Honest, CopyOf
  <2> QED BY <2>1, <2>2
<1>3. \/ (n >= MaxTotal \/ u \in refused) /\ NewStatus(w) = "dead"
      \/ n < MaxTotal /\ NewStatus(w) = "pending"
  BY <1>u, <1>2, DeliveryAssumption DEF NewStatus, Dead, Inv, Honest
<1>4. [v \in Workers |-> Taken(v)]' = [[v \in Workers |-> Taken(v)] EXCEPT ![w] = @ \ {u}]
  BY <1>0, LedgerTaken
<1>5. [v \in Urls |-> row[v].status]' = [[v \in Urls |-> row[v].status] EXCEPT ![u] = NewStatus(w)]
  BY <1>0, <1>1
<1>6. /\ [v \in Urls |-> row[v].attempts]' = [[v \in Urls |-> row[v].attempts] EXCEPT ![u] = n]
      /\ [v \in Urls |-> row[v].secret]' = [v \in Urls |-> row[v].secret]
  BY <1>0, <1>1
<1>7. Ledger!Fail(w, u, n)
  BY <1>0, <1>1, <1>2, <1>3, <1>4, <1>5, <1>6
  DEF AnswersKept, Ledger!Fail, Ledger!LetGo, Ledger!answers
<1> QED
  BY <1>2, <1>7 DEF Ledger!Next

LEMMA CutIsAbandon ==
  ASSUME Inv, HoldInv, NEW w \in Workers, MarkFail(w) \/ Crash(w)
  PROVE  Ledger!Next
<1>0. TypeOK /\ Taken(w) \in SUBSET Urls /\ RowsKept /\ AnswersKept
  BY SameRows, TakenType DEF Inv, MarkFail, Crash
<1>1. CASE MarkFail(w)
  <2> DEFINE S == {worker[w].rec.url}
  <2>1. S \subseteq Taken(w) /\ Holds(w, {}, S)
    BY <1>0, <1>1, EndHolds DEF MarkFail
  <2> HIDE DEF S
  <2> QED BY <1>0, <2>1, LedgerAbandon
<1>2. CASE Crash(w)
  BY <1>0, <1>2, CrashHolds, LedgerAbandon
<1> QED
  BY <1>1, <1>2

LEMMA LedgerStep == Inv /\ HoldInv /\ [Next]_vars => [Ledger!Next]_(Ledger!lvars)
<1> SUFFICES ASSUME Inv, HoldInv, [Next]_vars PROVE Ledger!Next \/ UNCHANGED Ledger!lvars
  OBVIOUS
<1>0. TypeOK
  BY DEF Inv
<1>1. ASSUME UNCHANGED worker, RowsKept, AnswersKept PROVE UNCHANGED Ledger!lvars
  BY <1>1, LedgerStutter DEF TakenKept, Taken
<1>2. CASE UNCHANGED vars
  BY <1>1, <1>2, SameRows DEF vars, seen
<1>3. ASSUME NEW w \in Dispatches, DispatchBegin(w) \/ EnsureFail(w) \/ DispatchEnd(w)
      PROVE  Ledger!Next
  <2>1. RowsKept /\ AnswersKept
    BY <1>3, SameRows DEF DispatchBegin, DispatchTo, EnsureFail, DispatchEnd
  <2>2. Holds(w, {}, {}) /\ w \in Workers
    BY <1>0, <1>3, DispatchHolds DEF Workers
  <2> QED BY <2>1, <2>2, LedgerQuiet
<1>4. ASSUME NEW w \in Dispatches, EnsureInsert(w) \/ EnsureRead(w) PROVE Ledger!Next
  BY <1>4, InsertIsOpen, ReadIsTakeUp
<1>5. ASSUME NEW w \in Loops, LoopList(w) \/ LoopNext(w) \/ LoopEnd(w) PROVE Ledger!Next
  BY <1>5, ListIsTakeUp
<1>6. ASSUME NEW w \in Loops, LoopEmpty(w) PROVE UNCHANGED Ledger!lvars
  BY <1>1, <1>6, SameRows DEF LoopEmpty, vars, seen
<1>7. ASSUME NEW w \in Workers, Attempt(w) \/ MarkFail(w) \/ Crash(w) PROVE Ledger!Next
  BY <1>7, PostIsRequest, AckIsDeliver, RecordIsFail, CutIsAbandon DEF Attempt
<1>8. ASSUME NEW u \in Urls, BecomeDue(u) PROVE UNCHANGED Ledger!lvars
  <2>1. RowsKept /\ AnswersKept /\ UNCHANGED worker
    BY <1>0, <1>8 DEF BecomeDue, RowsKept, AnswersKept, seen, TypeOK, DeliveryRow
  <2> QED BY <1>1, <2>1
<1> QED
  BY <1>2, <1>3, <1>4, <1>5, <1>6, <1>7, <1>8, StepKinds

LEMMA AlwaysHold == Spec => []HoldInv
<1>1. Inv => TypeOK
  BY DEF Inv
<1> QED
  BY AlwaysInv, InitHold, StepHold, <1>1, PTL DEF Spec

(* However dispatches and retry loops overlap, crash or lose statements,   *)
(* the rows behave as the ledger of deliveries: opened once, with a secret *)
(* that stays, taken up only while not delivered, each outcome earned by   *)
(* requests that were sent and written at most once.                       *)
THEOREM DeliveryImplementsLedger == Spec => LedgerSpec
  BY AlwaysInv, AlwaysHold, LedgerInit, LedgerStep, PTL DEF Spec, LedgerSpec, Ledger!Spec

\* In the ledger, what was delivered and is held by nobody is left alone.
LEMMA LedgerRests ==
  ASSUME TypeOK, NEW u \in Urls, Resting(u), Ledger!Next
  PROVE  Resting(u)' /\ posts'[u] = posts[u]
<1> DEFINE status == [v \in Urls |-> row[v].status]
           status2 == [v \in Urls |-> row'[v].status]
           taken == [v \in Workers |-> Taken(v)]
           taken2 == [v \in Workers |-> Taken(v)']
<1> DEFINE Goal == status2[u] = "delivered" /\ (\A w \in Workers : u \notin taken2[w]) /\ posts'[u] = posts[u]
<1>0. status[u] = "delivered" /\ \A w \in Workers : u \notin taken[w]
  BY DEF Resting
<1>1. ASSUME NEW v \in Urls, Ledger!Open(v) PROVE Goal
  BY <1>0, <1>1 DEF Ledger!Open, Ledger!answers, Resting
<1>2. ASSUME NEW w \in Workers, NEW S \in SUBSET Urls, Ledger!TakeUp(w, S) PROVE Goal
  BY <1>0, <1>2 DEF Ledger!TakeUp, Ledger!answers, Resting
<1>3. ASSUME NEW w \in Workers, NEW S \in SUBSET Urls, Ledger!Abandon(w, S) PROVE Goal
  BY <1>0, <1>3 DEF Ledger!Abandon, Ledger!LetGo, Ledger!answers, Resting
<1>4. ASSUME NEW w \in Workers, NEW v \in Urls, Ledger!Request(w, v) PROVE Goal
  BY <1>0, <1>4 DEF Ledger!Request, Resting, TypeOK
<1>5. ASSUME NEW w \in Workers, NEW v \in Urls, Ledger!Deliver(w, v) PROVE Goal
  BY <1>0, <1>5 DEF Ledger!Deliver, Ledger!LetGo, Ledger!answers, Resting
<1>6. ASSUME NEW w \in Workers, NEW v \in Urls, NEW n \in 1 .. posts[v], Ledger!Fail(w, v, n) PROVE Goal
  BY <1>0, <1>6 DEF Ledger!Fail, Ledger!LetGo, Ledger!answers, Resting
<1>7. Goal
  BY <1>1, <1>2, <1>3, <1>4, <1>5, <1>6 DEF Ledger!Next
<1> QED
  BY <1>7 DEF Resting

(* Once a delivery is recorded and nobody still holds its row, it stays    *)
(* delivered and its receiver gets no more requests, whatever dispatches   *)
(* and retry loops begin later.                                            *)
THEOREM DeliveredIsLeftAlone == Spec => DeliveredRests
<1> DEFINE Rests == \A u \in Urls : Resting(u) => Resting(u)' /\ posts'[u] = posts[u]
<1>1. TypeOK /\ [Ledger!Next]_(Ledger!lvars) => [Rests]_vars
  <2> SUFFICES ASSUME TypeOK, Ledger!Next \/ UNCHANGED Ledger!lvars, NEW u \in Urls, Resting(u)
               PROVE  Resting(u)' /\ posts'[u] = posts[u]
    OBVIOUS
  <2>1. CASE Ledger!Next
    BY <2>1, LedgerRests
  <2>2. CASE UNCHANGED Ledger!lvars
    <3>1. /\ [v \in Urls |-> row'[v].status] = [v \in Urls |-> row[v].status]
          /\ [w \in Workers |-> Taken(w)'] = [w \in Workers |-> Taken(w)]
          /\ posts' = posts
      BY <2>2 DEF Ledger!lvars
    <3>2. row'[u].status = row[u].status
      BY <3>1
    <3>3. \A w \in Workers : Taken(w)' = Taken(w)
      BY <3>1
    <3> QED BY <3>1, <3>2, <3>3 DEF Resting
  <2> QED BY <2>1, <2>2
<1>2. Inv => TypeOK
  BY DEF Inv
<1> HIDE DEF Rests
<1>3. Spec => [][Rests]_vars
  BY AlwaysInv, AlwaysHold, LedgerStep, <1>1, <1>2, PTL DEF Spec
<1> QED
  BY <1>3 DEF DeliveredRests, Rests
=============================================================================
