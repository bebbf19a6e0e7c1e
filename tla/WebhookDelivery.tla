-------------------------- MODULE WebhookDelivery --------------------------
(***************************************************************************)
(* The deliveries of one payment.paid event: DispatchPaid runs in the      *)
(* handlers that saw the payment become paid, a retry loop runs on every   *)
(* replica, and all of them read and write the rows of webhook_deliveries, *)
(* one per destination, one statement at a time and without transactions.  *)
(*                                                                         *)
(* A POST to a receiver may be accepted, be accepted with its answer lost, *)
(* fail (no connection, 5xx, 429) or be refused (any other answer).        *)
(* Times are left out: a row whose next_attempt_at has come is "due".  The *)
(* order in which one worker takes its destinations is left open.  Of a    *)
(* request only the secret that signs it is kept.                          *)
(***************************************************************************)
EXTENDS Integers, FiniteSets, Sequences

CONSTANTS
  Urls,        \* destinations
  Dispatches,  \* calls of DispatchPaid for the event
  Loops,       \* retry loops, one per replica
  Secrets,
  HookLists,   \* what ListByAppID may give a call: endpoints, oldest first
  Callback,    \* the payment's callback_url, or None
  MaxSync,     \* maxSyncAttempts: 3 in the code
  MaxTotal,    \* maxTotalAttempts: 8 in the code
  ListLimit,   \* 50 in the code
  MaxFaults,   \* bound of failed statements and crashes, for TLC
  None         \* no callback, no secret, no row

Endpoint == [url: Urls, secret: Secrets]

ASSUME DeliveryAssumption ==
  /\ Dispatches \intersect Loops = {}
  /\ HookLists \subseteq Seq(Endpoint)
  /\ None \notin Secrets
  /\ Callback \in Urls \union {None} /\ None \notin Urls
  /\ MaxSync \in Nat \ {0} /\ MaxTotal \in Nat \ {0}
  /\ ListLimit \in Nat \ {0} /\ MaxFaults \in Nat

VARIABLES
  row,       \* row[u]: the delivery to u
  worker,    \* worker[w]: what goroutine w is doing
  faults,    \* statements failed and goroutines cut short so far
  accepted,  \* history: receivers that have answered 2xx
  refused,   \* history: receivers that have answered with a client error
  posts,     \* history: posts[u] requests were sent to u
  signed,    \* history: <<u, s>> when a request to u was signed with s
  skipped    \* history: <<w, u>> when EnsureDelivery failed w for u

seen == <<accepted, refused, posts, signed>>
vars == <<row, worker, faults, accepted, refused, posts, signed, skipped>>

Workers == Dispatches \union Loops

RowStatus == {"absent", "pending", "delivered", "dead"}
\* None for a secret is the empty secret, with which nothing is signed.
Secret == Secrets \union {None}

DeliveryRow == [status: RowStatus, attempts: Nat, due: BOOLEAN, secret: Secret]

Destination == [url: Urls, secret: Secret]

\* A row as a worker read it, with the secret it will use.
Snapshot == [url: Urls, attempts: Nat, secret: Secret]

Pcs == {"idle", "next", "read", "post", "ack", "record", "done", "gone"}

\* rec: the row being attempted; tries: posts made in this attempt; client:
\* the last answer was a client error; plan: the call's destinations.
Worker == [pc: Pcs, todo: SUBSET Snapshot, rec: Snapshot \union {None},
           tries: Nat, client: BOOLEAN, plan: SUBSET Destination]

Init ==
  /\ row = [u \in Urls |-> [status |-> "absent", attempts |-> 0, due |-> FALSE, secret |-> None]]
  /\ worker = [w \in Workers |->
       [pc |-> "idle", todo |-> {}, rec |-> None, tries |-> 0, client |-> FALSE, plan |-> {}]]
  /\ faults = 0
  /\ accepted = {} /\ refused = {} /\ posts = [u \in Urls |-> 0]
  /\ signed = {} /\ skipped = {}

Goto(w, pc) == worker' = [worker EXCEPT ![w].pc = pc]

\* The attempt is over, and its local variables with it.
Drop(w, pc, todo) ==
  worker' = [worker EXCEPT ![w] =
    [pc |-> pc, todo |-> todo, rec |-> None, tries |-> 0, client |-> FALSE, plan |-> @.plan]]

NextOne(w) == Drop(w, "next", worker[w].todo)

Fault == faults < MaxFaults /\ faults' = faults + 1

-----------------------------------------------------------------------------
(* DispatchPaid                                                            *)

\* The first endpoint of each URL.
HookDests(list) ==
  {list[i] : i \in {j \in DOMAIN list : \A k \in DOMAIN list : list[k].url = list[j].url => j <= k}}

\* The callback comes on top, with the oldest endpoint's secret.
CallbackDests(list) ==
  IF Callback = None \/ \E i \in DOMAIN list : list[i].url = Callback THEN {}
  ELSE {[url |-> Callback, secret |-> IF list = <<>> THEN None ELSE list[1].secret]}

Destinations(list) == HookDests(list) \union CallbackDests(list)

\* DispatchPaid makes its list of destinations, each URL once.
DispatchTo(w, list) ==
  /\ worker[w].pc = "idle"
  /\ worker' = [worker EXCEPT ![w].pc = "next", ![w].plan = Destinations(list),
       ![w].todo = {[url |-> d.url, attempts |-> 0, secret |-> d.secret] : d \in Destinations(list)}]
  /\ UNCHANGED <<row, seen, skipped>>

\* ListByAppID, whose error is dropped: then only the callback is left.
DispatchBegin(w) ==
  \/ (\E list \in HookLists : DispatchTo(w, list)) /\ UNCHANGED faults
  \/ DispatchTo(w, <<>>) /\ Fault

\* Variant: a conflict sets the row back to its beginning.
Upsert(t) ==
  row' = [row EXCEPT ![t.url] =
    [status |-> "pending", attempts |-> 0, due |-> TRUE, secret |-> t.secret]]
\* INSERT ... ON CONFLICT (event_id, destination) DO NOTHING, due at once.
InsertDelivery(t) ==
  IF row[t.url].status = "absent"
  THEN row' = [row EXCEPT ![t.url] =
         [status |-> "pending", attempts |-> 0, due |-> TRUE, secret |-> t.secret]]
  ELSE UNCHANGED row

EnsureInsert(w) ==
  /\ worker[w].pc = "next"
  /\ \E t \in worker[w].todo :
       /\ worker' = [worker EXCEPT ![w].pc = "read", ![w].todo = @ \ {t}, ![w].rec = t]
       /\ InsertDelivery(t)
  /\ UNCHANGED <<faults, seen, skipped>>

\* Variant: the row's secret is not looked at.
OwnSecret(w) == worker[w].rec.secret
\* The call's secret, or else the one the row was made with.
SecretFor(w) ==
  IF worker[w].rec.secret = None THEN row[worker[w].rec.url].secret ELSE worker[w].rec.secret

\* Variant: a delivered row is sent again.
SendAnyway(w) ==
  LET u == worker[w].rec.url IN
  /\ worker[w].pc = "read"
  /\ worker' = [worker EXCEPT ![w].pc = "post",
       ![w].rec = [url |-> u, attempts |-> row[u].attempts, secret |-> SecretFor(w)]]
  /\ UNCHANGED <<row, faults, seen, skipped>>

\* getDelivery: skip what is delivered, send anything else, dead rows too.
EnsureRead(w) ==
  LET u == worker[w].rec.url IN
  /\ worker[w].pc = "read"
  /\ IF row[u].status = "delivered"
     THEN NextOne(w)
     ELSE worker' = [worker EXCEPT ![w].pc = "post",
            ![w].rec = [url |-> u, attempts |-> row[u].attempts, secret |-> SecretFor(w)]]
  /\ UNCHANGED <<row, faults, seen, skipped>>

\* Variant: an error ends the whole dispatch.
GiveUp(w, u) == Drop(w, "done", {})

\* The loop over the destinations goes on after an error.
SkipOne(w, u) == Drop(w, "next", {t \in worker[w].todo : t.url # u})

\* One of the two statements of EnsureDelivery fails.
EnsureFail(w) ==
  /\ Fault
  /\ \/ /\ worker[w].pc = "next"
        /\ \E t \in worker[w].todo : SkipOne(w, t.url) /\ skipped' = skipped \union {<<w, t.url>>}
     \/ /\ worker[w].pc = "read"
        /\ SkipOne(w, worker[w].rec.url)
        /\ skipped' = skipped \union {<<w, worker[w].rec.url>>}
  /\ UNCHANGED <<row, seen>>

DispatchEnd(w) ==
  /\ worker[w].pc = "next" /\ worker[w].todo = {}
  /\ Goto(w, "done")
  /\ UNCHANGED <<row, faults, seen, skipped>>

-----------------------------------------------------------------------------
(* RunRetryLoop                                                            *)

\* Variant: a row that was attempted is never listed again.
FreshOnly == {u \in Urls : row[u].status = "pending" /\ row[u].due /\ row[u].attempts = 0}
\* Variant: a row that was never attempted is not listed.
TriedOnly == {u \in Urls : row[u].status = "pending" /\ row[u].due /\ row[u].attempts > 0}
\* The WHERE clause of ListDue.
Due == {u \in Urls : row[u].status = "pending" /\ row[u].due}

\* Rows as a SELECT returns them.
ReadRows(S) == {[url |-> u, attempts |-> row[u].attempts, secret |-> row[u].secret] : u \in S}

\* ListDue: the attempts counters are read here, once for the whole list.
LoopList(w) ==
  /\ worker[w].pc = "idle"
  /\ \E S \in SUBSET Due :
       /\ S # {} /\ Cardinality(S) <= ListLimit
       /\ S = Due \/ Cardinality(S) = ListLimit
       /\ worker' = [worker EXCEPT ![w].pc = "next", ![w].todo = ReadRows(S)]
  /\ UNCHANGED <<row, faults, seen, skipped>>

\* A pass that finds nothing due.
LoopEmpty(w) == worker[w].pc = "idle" /\ Due = {} /\ UNCHANGED vars

\* Variant: the loop forgets which row it took.
LoopNextBlind(w) ==
  /\ worker[w].pc = "next"
  /\ \E t \in worker[w].todo :
       worker' = [worker EXCEPT ![w].pc = "post", ![w].todo = @ \ {t}]
  /\ UNCHANGED <<row, faults, seen, skipped>>

LoopNext(w) ==
  /\ worker[w].pc = "next"
  /\ \E t \in worker[w].todo :
       worker' = [worker EXCEPT ![w].pc = "post", ![w].todo = @ \ {t}, ![w].rec = t]
  /\ UNCHANGED <<row, faults, seen, skipped>>

LoopEnd(w) ==
  /\ worker[w].pc = "next" /\ worker[w].todo = {}
  /\ Goto(w, "idle")
  /\ UNCHANGED <<row, faults, seen, skipped>>

\* next_attempt_at passes: 30 s to 1 h after the attempt that set it.
BecomeDue(u) ==
  /\ row[u].status = "pending" /\ ~row[u].due
  /\ row' = [row EXCEPT ![u].due = TRUE]
  /\ UNCHANGED <<worker, faults, seen, skipped>>

-----------------------------------------------------------------------------
(* attempt and post                                                        *)

Budget(w) == IF w \in Dispatches THEN MaxSync ELSE 1

\* The counters of one post, then the next step.
Posted(w, pc, client) ==
  /\ worker[w].pc = "post"
  /\ worker' = [worker EXCEPT ![w].pc = pc, ![w].client = client,
       ![w].tries = @ + 1, ![w].rec.attempts = @ + 1]
  /\ posts' = [posts EXCEPT ![worker[w].rec.url] = @ + 1]
  /\ signed' = signed \union {<<worker[w].rec.url, worker[w].rec.secret>>}
  /\ UNCHANGED <<row, faults, skipped>>

PostOK(w) ==
  /\ Posted(w, "ack", FALSE)
  /\ accepted' = accepted \union {worker[w].rec.url}
  /\ UNCHANGED refused

\* Variant: the last failure of a burst is taken for a success.
AckAtEnd(w) == IF worker[w].tries + 1 < Budget(w) THEN "post" ELSE "ack"
\* After a failure: once more while the burst lasts, then MarkAttempt.
AfterFailure(w) == IF worker[w].tries + 1 < Budget(w) THEN "post" ELSE "record"

\* The receiver took it, but no answer came within 8 seconds.
PostLost(w) ==
  /\ Posted(w, AfterFailure(w), FALSE)
  /\ accepted' = accepted \union {worker[w].rec.url}
  /\ UNCHANGED refused

PostFails(w) ==
  /\ Posted(w, AfterFailure(w), FALSE)
  /\ UNCHANGED <<accepted, refused>>

PostRefused(w) ==
  /\ Posted(w, "record", TRUE)
  /\ refused' = refused \union {worker[w].rec.url}
  /\ UNCHANGED accepted

\* MarkDelivered: WHERE id, whatever the row says by now.
Ack(w) ==
  /\ worker[w].pc = "ack"
  /\ NextOne(w)
  /\ row' = [row EXCEPT ![worker[w].rec.url].status = "delivered", ![worker[w].rec.url].due = FALSE]
  /\ UNCHANGED <<faults, seen, skipped>>

\* Variants: the limit is passed by one; every failure kills.
DeadOneLate(w) == worker[w].rec.attempts > MaxTotal \/ worker[w].client
DeadAtOnce(w) == TRUE
Dead(w) == worker[w].rec.attempts >= MaxTotal \/ worker[w].client

NewStatus(w) == IF Dead(w) THEN "dead" ELSE "pending"

\* MarkAttempt: WHERE id, with the counter of the worker's own reading.
Record(w) ==
  /\ worker[w].pc = "record"
  /\ NextOne(w)
  /\ row' = [row EXCEPT ![worker[w].rec.url].status = NewStatus(w),
       ![worker[w].rec.url].attempts = worker[w].rec.attempts, ![worker[w].rec.url].due = FALSE]
  /\ UNCHANGED <<faults, seen, skipped>>

\* MarkDelivered or MarkAttempt fails; the worker goes on.
MarkFail(w) ==
  /\ Fault
  /\ worker[w].pc \in {"ack", "record"}
  /\ NextOne(w)
  /\ UNCHANGED <<row, seen, skipped>>

\* The process stops, or a handler's context ends: its client goes away or
\* its 30 seconds are over.  A replica that starts has a loop again.
Crash(w) ==
  /\ Fault
  /\ worker[w].pc \in {"next", "read", "post", "ack", "record"}
  /\ Drop(w, IF w \in Loops THEN "idle" ELSE "gone", {})
  /\ UNCHANGED <<row, seen, skipped>>

-----------------------------------------------------------------------------
Attempt(w) ==
  PostOK(w) \/ PostLost(w) \/ PostFails(w) \/ PostRefused(w) \/ Ack(w) \/ Record(w)

DispatchStep(w) == EnsureInsert(w) \/ EnsureRead(w) \/ DispatchEnd(w) \/ Attempt(w)
LoopStep(w) == LoopList(w) \/ LoopNext(w) \/ LoopEnd(w) \/ Attempt(w)

Next ==
  \/ \E w \in Dispatches : DispatchBegin(w) \/ DispatchStep(w) \/ EnsureFail(w)
  \/ \E w \in Loops : LoopStep(w) \/ LoopEmpty(w)
  \/ \E w \in Workers : MarkFail(w) \/ Crash(w)
  \/ \E u \in Urls : BecomeDue(u)

Spec == Init /\ [][Next]_vars

\* A begun call and the loops go on; every wait (8 s for an answer, the
\* backoffs, the ticker) ends.  Nothing makes a receiver answer well.
Fairness ==
  /\ \A w \in Dispatches : WF_vars(DispatchStep(w))
  /\ \A w \in Loops : WF_vars(LoopStep(w))
  /\ \A u \in Urls : WF_vars(BecomeDue(u))

FairSpec == Spec /\ Fairness

-----------------------------------------------------------------------------
(* Rows and workers keep their shape; a worker that attempts a delivery    *)
(* holds a row it has read.                                                *)
TypeOK ==
  /\ row \in [Urls -> DeliveryRow]
  /\ worker \in [Workers -> Worker]
  /\ \A w \in Workers : worker[w].pc \in {"read", "post", "ack", "record"} => worker[w].rec \in Snapshot
  /\ faults \in 0 .. MaxFaults
  /\ accepted \subseteq Urls /\ refused \subseteq Urls
  /\ posts \in [Urls -> Nat] /\ signed \subseteq Urls \X Secret
  /\ skipped \subseteq Dispatches \X Urls

(* MarkDelivered: a delivery is recorded as delivered only when its        *)
(* receiver has accepted it, whoever recorded it and whatever failed.      *)
DeliveredIsAccepted ==
  \A u \in Urls : row[u].status = "delivered" => u \in accepted

(* MarkAttempt: a delivery dies only of a client error or of a counter     *)
(* that has reached maxTotalAttempts, and that counter counts requests     *)
(* that were really sent, however many workers overwrite it.               *)
DeadIsEarned ==
  \A u \in Urls :
    /\ row[u].attempts <= posts[u]
    /\ row[u].status = "dead" => row[u].attempts >= MaxTotal \/ u \in refused

(* MarkAttempt: a delivery that the retry loops will take up again has     *)
(* attempts left, also after the dispatch of a dead or half-tried row.     *)
PendingHasBudget ==
  \A u \in Urls : row[u].status = "pending" => row[u].attempts < MaxTotal

(* DispatchPaid: one destination's error does not cost another one its     *)
(* delivery: a dispatch that came to its end has left a row for each of    *)
(* its destinations but those whose own statements failed.                 *)
EveryDestinationTracked ==
  \A w \in Dispatches : worker[w].pc = "done" =>
    \A d \in worker[w].plan : row[d.url].status # "absent" \/ <<w, d.url>> \in skipped

(* DispatchPaid, attempt: a request goes out unsigned only to a receiver    *)
(* whose delivery was made without a secret; a dispatch that could not     *)
(* list the endpoints does not lose the one its delivery has.              *)
SignedWhenKnown ==
  \A u \in Urls : <<u, None>> \in signed => row[u].secret = None

\* The deliveries whose rows w has read and has not done with.
Taken(w) ==
  {t.url : t \in IF w \in Loops THEN worker[w].todo ELSE {}}
    \union IF worker[w].pc \in {"post", "ack", "record"} THEN {worker[w].rec.url} ELSE {}

\* The rows as the ledger sees them: statements, lists and bursts are gone.
Ledger == INSTANCE DeliveryLedger WITH
  status <- [u \in Urls |-> row[u].status],
  counter <- [u \in Urls |-> row[u].attempts],
  secret <- [u \in Urls |-> row[u].secret],
  taken <- [w \in Workers |-> Taken(w)],
  sent <- posts

(* The rows under all interleavings behave as the ledger's: each is made   *)
(* once and keeps its secret, each outcome is of a delivery that was taken *)
(* up when it was not delivered, and is written at most once.              *)
LedgerSpec == Ledger!Spec

Resting(u) == row[u].status = "delivered" /\ \A w \in Workers : u \notin Taken(w)

(* DispatchPaid, ListDue: "idempotent: already delivered": what others had *)
(* taken up before can undo a delivery, and nothing that begins after it:  *)
(* a delivered row that no worker holds stays so for good, and its         *)
(* receiver gets no more requests.                                         *)
DeliveredRests ==
  [][\A u \in Urls : Resting(u) => Resting(u)' /\ posts'[u] = posts[u]]_vars

(* RunRetryLoop: though workers overwrite each other's counters and may    *)
(* bring dead rows back, in the end no delivery is left to be retried.     *)
RetriesEnd == <>[](\A u \in Urls : row[u].status # "pending")

(* DispatchPaid: "idempotent: already delivered": a delivered row stays    *)
(* delivered, so that later dispatches and retries skip it.                *)
DeliveredSticks ==
  [][\A u \in Urls : row[u].status = "delivered" => row'[u].status = "delivered"]_vars
=============================================================================
