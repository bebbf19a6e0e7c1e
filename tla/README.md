# QRIS Gate in TLA+

A verification development kept beside the Go service in `src/`: TLA+ models of
its payment tables, its webhook deliveries, the way from the one to the other,
its QRIS codec and the life of its process, TLC configurations that check them
on small instances, and theorems about them that TLAPS proves for every
instance.

    cd tla
    tlc -workers 2 -config store_claims.cfg MCPaymentStore.tla    # one run
    tlapm PaymentStoreProofs.tla                                  # one proof module

`PROJECT.json` lists the runs with their modules and configurations, the source
lines behind every definition, the hazards of the code and the findings.

## 1. The system

QRIS Gate turns a merchant's static QRIS text into one dynamic text per payment
and tells the merchant's software when a payment has been paid. It keeps
everything in PostgreSQL; any number of replicas of the API may run.

| component | state | operations | what makes it correct |
|---|---|---|---|
| **Payment creation** (`payment/service.go`, `postgres/payments.go`) | `payments`, `payment_events` | `POST /v1/payments`: lookup by (app, order), validation, INSERT, event | an order has one payment, all its creates are answered with it |
| **Pay-in claims** (`ClaimByAmount`) | `payments`, `payment_claims` | `POST /v1/payments/claim`: lookup of the pay-in, match `FOR UPDATE SKIP LOCKED`, UPDATE, INSERT of the key, commit; then event and dispatch | a pay-in settles one payment, a payment is settled by one pay-in, of the right app, amount and time, oldest first |
| **Admin mark paid** | `payments` | `POST /v1/payments/:id/paid`: lookup, guarded UPDATE, second look, event, dispatch | money is credited once; expired payments stay expired |
| **Expiry sweeper** (`RunExpireLoop`) | `payments` | every minute, at most 500 due rows, skipping locked ones | due payments do not stay pending; nothing paid expires |
| **Payment lookup** | none | `GET /v1/payments/:id` | a payment is found by its own app, with its status |
| **Webhook dispatch and retries** (`webhook/dispatcher.go`, `postgres/deliveries.go`) | `webhook_deliveries` | `DispatchPaid` in the handler, up to 3 posts a destination; `RunRetryLoop` on every replica, one post a due row; 8 attempts in all | delivered means accepted, dead means refused or tried to the limit, every destination has a row, no request loses the signature its delivery has, retrying ends |
| **Webhook endpoints** (`postgres/webhooks.go`) | `webhook_endpoints` | `ListByAppID` in `afterPaid` | who is registered when a payment is paid is told |
| **QRIS codec** (`qris/`) | none | `ParseTLV`, `buildTLVString`, `Validate`, `Convert`, `Parse`, `CalculateCRC16` | a payment's text is valid, pays the merchant and asks for the amount and fee |
| **App provisioning** (`admin/`) | `apps`, `webhook_endpoints` | create and update apps, register webhooks | the stored merchant text is one that `Create` accepts and can read |
| **Authentication** | none | API key hash, admin token | |
| **HTTP routing, rate limit, timeout** | library middleware | 30 s timeout per request | |
| **Start-up and shutdown** (`cmd/api/main.go`) | goose's version table, the pool | migrations, loops, server; on a signal cancel, `Shutdown`, close | a replica serves over the whole schema; a stop loses no call that keeps to its time |
| **Configuration, observability, readiness, responses, QR image** | counters, logs | wiring | |

Interactions. Handlers, the sweeper and the retry loops share nothing but the
tables. `ClaimByAmount` is the only transaction; everything else is a sequence
of single statements. `Claim` and `MarkPaid` call `afterPaid` when the payment
is already committed as paid: it writes an event (error ignored) and calls
`DispatchPaid` in the request. Handler and retry loops meet on the rows of
`webhook_deliveries`, which they read, work on for seconds, and overwrite by id.
`Create` works on the copy of the app's row that the API key check read.
Replicas that start together run the migrations of one database; a replica that
stops takes its handlers and its loops with it.

Hard parts. Two calls between each other's statements (lookup then insert,
match then commit); row locks, SKIP LOCKED and unique keys that make calls pass
over rows, wait or fail; a call cut short between the commit and the dispatch;
workers overwriting one delivery row with what they read earlier; an answer of
a receiver that comes too late; a list of endpoints that could not be read;
replicas that migrate together; a stop under calls and statements; a clock read
before it is used; the byte-level codec. `PROJECT.json` ("hazards") lists each at its line with the properties
that would catch it.

## 2. Modules

| module | models | code |
|---|---|---|
| `PaymentLedger` | what the payment tables promise: open, settle, mark, expire | the abstract specification |
| `PaymentStore` | all calls on the payment tables, statement by statement | `payment/service.go`, `postgres/payments.go`, migrations 001 to 003 |
| `ClaimOrder` | `PaymentStore` with histories: what was in the table when a claim began, what was locked when it chose | `ClaimByAmount` |
| `MCPaymentStore`, `MCClaimFifo` | small instances | |
| `PaymentLedgerProofs`, `PaymentStoreProofs`, `ClaimOrderProofs` | theorems | |
| `WebhookDelivery`, `MCWebhookDelivery` | the deliveries of one payment.paid event | `webhook/dispatcher.go`, `postgres/deliveries.go`, migration 004 |
| `DeliveryLedger` | what `webhook_deliveries` promises: open, take up, request, deliver, fail | the abstract specification |
| `WebhookDeliveryProofs` | theorems | |
| `PaidFlow`, `MCPaidFlow`, `PaidFlowProofs` | `PaymentStore`, `WebhookDelivery` and the endpoints put together | `afterPaid`, `admin/service.go`, `postgres/webhooks.go`, `Get` |
| `Qris`, `QrisProofs` | the codec, on sequences of bytes | `qris/*.go` |
| `MerchantQris`, `MCMerchantQris`, `MerchantQrisProofs` | apps' texts, replaced while creates run; the CRC against polynomial division | `admin/service.go`, `payment/service.go`, `qris/*.go` |
| `ApiProcess`, `MCApiProcess`, `ApiProcessProofs` | replicas from start to stop | `cmd/api/main.go`, migrations, the two loops |

### PaymentStore

`pay`, `claims` and `events` are the committed rows. `create`, `claim` and
`mark` hold, per HTTP call, its body and the statement it runs next (`pc`), and
for a claim the row it works on (`hit`) and the clock it has read (`at`). A
statement outside a transaction is one action. The transaction of a claim is
`ClaimLookup`, `ClaimSettled` or `ClaimMatch`, `ClaimUpdate`, `ClaimInsert`,
`ClaimCommit`: while its `pc` is in `InTx` its row is `Locked` and its writes
are seen by nobody, as under READ COMMITTED, and `ClaimCommit` shows them at
once. `ClaimInsert` waits while another transaction has inserted the same key
and not committed, then fails if the key is there. `MarkUpdate` waits for a
locked row and looks at it again. `CreateEvent` waits for it too: the foreign
key of the event needs the row.

`Sweep` is one pass that finds something, at any clock read before (`t \in 0 ..
now`). `InsertRow` reads the clock twice, as the code does. `CreateFail`,
`ClaimFail` and `MarkFail` are a cancelled context, a lost connection or a
crash before any statement: the transaction rolls back and the call does
nothing more. An ignored error of an event insert is the second disjunct of the
event actions.

`credited` and `notified` are history: which call made a payment paid, which
call handed it to `DispatchPaid`. Columns no statement ever updates (app,
order, amount) are read from the body of the call that inserted the row.

Abstractions:
- `pay_in` keys, apps, orders and amounts are model values; times are small
  naturals, with 24 h and 2 min replaced by `Lookback` and `Skew`.
- A single statement is atomic, its row locks included. A claim that finds its
  row held for the moment of such a statement would skip it; it then behaves as
  if it had matched a moment earlier or later.
- A create always sets `expires_at`; the column could be NULL only for rows
  this code does not write.
- Bodies refused before the first statement are no calls. `valid` in a body
  stands for the checks after the lookup (merchant text and fee), which
  `MerchantQris` models.

### WebhookDelivery

`row[u]` is the delivery to destination `u`; `worker[w]` is a goroutine: a
`DispatchPaid` call (in `Dispatches`) or a retry loop (in `Loops`), with the
rows it has listed (`todo`, each with the counter as it was read), the one it
attempts (`rec`), the posts of this attempt (`tries`) and, for a dispatch, its
`plan`, the destinations it made. `DispatchTo` makes them of the list of
endpoints: the first endpoint of each URL, and the callback with the oldest
endpoint's secret. `DispatchBegin` takes any list of `HookLists`, or the empty
one when `ListByAppID` fails, whose error `afterPaid` drops. `EnsureInsert` and
`EnsureRead` are the two statements of `EnsureDelivery`; `EnsureRead` also
chooses the secret (`SecretFor`): the call's own, or else the row's. `PostOK`,
`PostLost`, `PostFails`, `PostRefused` are what a POST can come to; `Ack` and
`Record` are `MarkDelivered` and `MarkAttempt`, which write by id whatever the
row says by then. `EnsureFail`, `MarkFail` and `Crash` are failed statements and
goroutines cut short. `accepted`, `refused`, `posts`, `signed` and `skipped` are
history.

Times are left out: a row is `due` or becomes so (`BecomeDue`). The order in
which a worker takes its destinations is left open. Of a request only the
secret that signs it is kept; payload and headers are left out, and so is the
path without a delivery store, which the program never configures.

### PaidFlow

One payment, all its calls, and the deliveries of its event. The module extends
`PaymentStore` and instantiates `WebhookDelivery` with the claims and marks as
its dispatching workers. `afterPaid` is the seam: a call that is about to list
the endpoints (`AtNotify`) does so and hands them over (`ListAndDispatch`, or
`ListFails` with an empty list), its worker runs (`DispatchGoesOn`,
`DispatchHurt`), and only when it is done is the call answered (`Answer`, the
last step of the call in `PaymentStore`). `CallFails` is the 30 s timeout, a
client gone or a crash: the call and its worker end together, at any statement
or post. `RegisterWebhook` adds an endpoint at any time; there is no call that
removes one. `Get` is the lookup, as a receiver would use it.

A call that is cut short by the timeout ends here with its request. The
handler's goroutine may run on for a moment after its answer; a statement it
still does then fails with its context.

### ApiProcess

`proc[r]` is where main of replica `r` is, from the pool over the migrations
and the server to the signal and the end; `schema` is the list of committed
migrations. What a replica works at are tasks: calls, and a pass of its loops.
A task is `away` (computing, or posting to a receiver) or `held` (a statement of
its runs on a connection). `RunMigration` waits for another transaction's DDL
and fails when the names are taken, `CommitMigration` makes a migration and its
version row visible together. `Signal` is `runCancel`, after which the loops get
no connection; `ShutdownBegin` closes the listener, `DrainEnds` and
`DrainTimesOut` are the two ends of `Shutdown`, and `Exit` is the deferred
`pool.Close`, which waits for connections that are out, and the return of main.
`Crash` is a kill or an `os.Exit`. What the statements do is the business of the
other modules.

### Qris, MerchantQris

Texts are sequences of bytes; `ParseTLV`, `BuildTLV`, `Valid`, `Convert` and
`Parse` do with them what the Go functions do, nested tags, `%g` and `TrimSpace`
included. The CRC register is a set of bit numbers, as the polynomials are that
`Remainder` divides, the definition of a CRC. `MerchantQris` has one
action per operation: `CreateApp`, `UpdateApp`, `CreateBegin` (the API key
check reads the row), `CreateBuild`.

`Atoi` reads a sign, so a length field may be `-1`: `Backwards` says when the
slice of a value would end before it begins. Go panics there, which echo's
`Recover` turns into a 500; `ValidatePanics` and `Panics` are this outcome for
the check and for the conversion, and `Valid` holds only of what `Validate`
returns from. A nested value that is not TLV to its end is rewritten from the
children that could be read, as the code does.

Percentages and fees are whole numbers. `WidthAssumption` keeps the digits of an
amount within 19 bytes and those of a fee within 24, as an int64 and a float64
do: `buildTLVString` writes a length of more than 99 with more than two digits,
and would then be read back wrong. Texts are ASCII where white space is
trimmed. Of the app's row only the text is kept; API keys are not.

## 3. Runs

All bounds are constants of the configurations. Two of each kind of actor is
where every hazard listed begins: two creates of one order, two claims of one
pay-in, two payments one amount fits, two workers on one row. The theorems of
section 5 carry the safety results of `PaymentStore`, `WebhookDelivery`,
`PaidFlow`, `MerchantQris` and `ApiProcess` to every number.

Runs that pass:

| run | instance | shows |
|---|---|---|
| `store_claims` | 2 creates with any of 5 bodies, 2 claims with any of 3 pay-ins (one key claimed by two apps, windows that miss), sweeper, clock to 1, one failure | `OneOrderOnePayment`, `SettledOnce`, `ClaimInWindow`, `ConflictIsForeign`, `ClaimNotifiesOwn`; the tables implement the ledger (`LedgerSpec`) |
| `store_marks` | 2 creates, 1 claim, 1 mark, sweeper, one failure | `TypeOK`, `CreditedOnce`, `NotifyOnlyPaid`, `StatusFinal`, `NotFoundIsHonest`, and `ClaimFifo` for a claim that meets no other claim |
| `store_progress` | 2 creates, 2 claims of one pay-in, one row a pass, no failures, fairness | `Answered` (of creates and claims: the run has no marks), `DueExpires`, `PaidIsDispatched` |
| `delivery_attempts` | 1 receiver, hook and callback at once, 2 dispatches, 1 loop, 2 posts a burst, 3 attempts, one failure, fairness | `TypeOK`, `DeliveredIsAccepted`, `DeadIsEarned`, `PendingHasBudget`, `SignedWhenKnown`, `DeliveredRests`, `RetriesEnd`; the rows implement the delivery ledger (`LedgerSpec`) |
| `paid_flow` | 1 create, 1 claim, sweeper, clock to 1, a callback and an endpoint registered at any time, 1 loop, 1 attempt, one failure of a call or a delivery | `ToldIsPaid`, `DestinationsTracked` |
| `paid_told` | the same with the endpoint alone, 2 attempts, fairness | `ReceiversAreTold` |
| `qris_convert` | 8 texts, accepted and refused, 3 amounts, 6 fees | `QrPays`, `QrKeepsPayee`, `NeverMisconfigured`, `NeverPanics`, `CrcIsRemainder` |
| `process_life` | 2 replicas, each started twice, 2 migrations, 1 call, the loops, one crash, fairness | `ServesWholeSchema`, `StopLosesOnlyLate`, `SomeoneComesUp`, `StopEnds` |

Why the bounds are enough. A clock of 0 and 1 puts payments before, at and
after every comparison (`expires > now`, both ends of the window) with times to
live of 1 and 2; `SweepLimit = 1` makes a pass leave rows behind. With 3
attempts and bursts of 2 a burst can begin below the limit and end above it,
and a dispatch can revive a dead row. One failure at any statement is what the
properties can tell apart: `MaxFaults` bounds failures in a run, not where they
hit; in `paid_flow` and `paid_told` calls and deliveries share it. In
`paid_flow` one receiver is the callback and one the endpoint, so the endpoint
may come before or after the list is read, or be lost with it, and one
receiver's error may meet the other; one attempt is enough there, and
`paid_told` has the second, which only a retry loop can make. What a delivery
does with more is `delivery_attempts`' question. A mark call does from `notify`
on what a claim does (`PaidFlowProofs` covers both). In
`process_life` two replicas can meet at each of two migrations, one may die
between them and be started over the half-made schema; one call suffices, as
the properties speak of each call by itself. The texts of `qris_convert` have an
amount, a tip, a name beyond ASCII, a postal code, additional data and a line
end, or additional
data that is not TLV to its end; or a wrong checksum, no country, no account, a
length below zero in a child or behind the last element. Symmetry is used in runs
without liveness, over the calls: nothing distinguishes them.

Fairness (`Fairness` in `PaymentStore` and `WebhookDelivery`). A goroutine that
has begun a call goes on to its next statement (weak fairness of the call's remaining steps); the
tickers of the sweeper and of the retry loop fire again and again; a time that
has been set comes. No client must call, no call must fail, no receiver must
accept. Weak fairness is enough for the waits: a lock or key that is waited for
is given up by a call that is itself fair and does not take it again. In
`PaidFlow` (`FlowFairness`) the steps of a call and of the worker it runs are
one goroutine and fair as one. In `ApiProcess` main goes on, and a statement
ends, since its context does; of a task that is away, of signals and of starts
nothing is asked, so `StopEnds` holds whatever the handlers do.

Runs that fail, each a place where the code does not do what its own text says:

| run | finding |
|---|---|
| `fifo_overlap` | Two overlapping claims of one pay-in: one passes over the oldest payment, which the other holds, and wins the key; the other rolls back with a 500; the newer payment is settled. README line 141: "the oldest pending payment", and "Idempotent on (provider, external_id)". |
| `lost_dispatch` | A claim cut short after its commit; its repetition answers success and never dispatches. |
| `delivered_lost` | A retry that read the row as pending writes its failure over "delivered"; the event is sent again. |
| `qris_fee` | `%g` writes a fixed fee of 1000000 as `1e+06`. |

Seen while modelling and not kept as runs:
- Two creates of one order can both pass the lookup; the second fails on the
  unique index and is answered 500, not with the first one's payment.
  `src/README.md:15` calls the call idempotent. `OneOrderOnePayment` holds.
- Of replicas that find the same migration to be next, one commits it and the
  others leave with 1; a supervisor has to start them again, and
  `docker-compose.yml` names none. `src/README.md:206` says that migrations run
  automatically. `SomeoneComesUp` is what does hold.
- A mark call that finds the payment paid by a concurrent call runs `afterPaid`
  too, so there may be two payment.paid events (receivers have the idempotency
  key).
- A merchant text that begins with white space is accepted, since `Validate`
  trims, and converted one byte off, since `Convert` does not. `MCMerchantQris`
  sends texts with white space only behind them; `QrPays` fails with it before
  them.
- Bytes of a nested value that are not TLV are dropped from the payment's text.
  `QrKeepsPayee` compares what can be read.

## 4. Properties

The comment above each property says which code it is about. The deeper ones:

- `ClaimInWindow`, `ConflictIsForeign`: what a claim matched is still so when it
  commits, through several statements of other calls and the sweeper, and a
  claim is refused for a conflict only over another app's pay-in. The second
  hangs on the row lock: without it (`NoLocks`) a lost race shows as a conflict.
  The first is about columns that do not change after the match: app, amount,
  creation and expiry, the last against the clock the claim read.
- `ClaimFifo`, `NotFoundIsHonest`: what a claim passes over, when it settles a
  payment and when it finds none. A payment that is there and free is neither
  skipped at an edge of its window nor lost to a sweeper that came before its
  time; `expires_at > now` of the match and `<= now` of the sweeper leave no
  moment at which both or neither apply (`SoonDue` opens one).
- `CreditedOnce`: claims, marks and the sweeper on one row, whoever is first.
- `ClaimNotifiesOwn`: repeated and concurrent claims dispatch nothing twice.
- `LedgerSpec` of the store: the tables under all interleavings are a run of
  four atomic operations, the refinement mapping being the status column and the
  pairs of `payment_claims`.
- `LedgerSpec` of the deliveries: a row's outcome is written only by who found
  it undelivered and then sent, and once for each time it was taken up; the
  mapping is the columns, the requests sent, and `Taken`, what a goroutine has
  read and not done with.
- `DeliveredRests`: `delivered_lost` shows that "delivered" can be undone. This is
  what does hold: by those alone who took the delivery up before; once none is
  left, it stays delivered and its receiver hears no more.
- `DeadIsEarned`, `PendingHasBudget`: a counter overwritten with stale values
  never claims a request that was not sent, and never passes the limit while
  the row is still to be retried.
- `SignedWhenKnown`: dispatches with and without the list of endpoints and
  retries on one row; an unsigned request to a receiver whose delivery has a
  secret would be refused as forged.
- `ReceiversAreTold`: from the statement that makes a payment paid, over the
  list of endpoints, the dispatch and the retries of another goroutine, to the
  receiver; `Missed` says for whom and why this is not so: the call was cut
  short, its own statements for the receiver failed, or the list did.
- `ToldIsPaid`: no interleaving shows a receiver an event before the commit.
- `StopLosesOnlyLate`: the order of cancel, `Shutdown` and `Close` in main,
  against handlers and loops that are anywhere.
- `QrPays`, `QrKeepsPayee`: the text of a payment, parsed again.
- `CrcIsRemainder`: the four bytes at the end of it, read as a number, against
  the division.
- `NeverPanics`: what `Create` would trip over, the admin's check has met first.

Each property of a passing run is broken by a plausible bug of the code
("mutants" in `PROJECT.json`; the operators marked `Variant` in the modules).

## 5. Proofs

Proved by TLAPS, for all values of the constants that satisfy the modules'
assumptions (`CallAssumption`, `InputAssumption`, `NumberAssumption`,
`DeliveryAssumption`, `FlowAssumption`, `ProcessAssumption`,
`MerchantAssumption`, `WidthAssumption`: the kinds of actors are disjoint, inputs
have their shape, limits are naturals; `FlowAssumption` also that there is one
payment):

- `PaymentStoreProofs`: `StoreTypeCorrect`, `OrderHasOnePayment`,
  `PayInSettlesOnce`, `PaidIsCreditedOnce`, `ClaimIsFaithful`,
  `ConflictIsHonest`, `ClaimTellsOnce`, `NoticeIsDue`, `StatusIsFinal`,
  `StoreImplementsLedger`.
- `ClaimOrderProofs`: `ClaimTakesOldestFree`, `NotFoundIsTrue`,
  `SerialClaimsAreFifo`. With these, and for `ClaimFifo` without overlaps,
  every safety property of the store's passing runs is a theorem.
- `PaymentLedgerProofs`: `LedgerStaysSound`, `LedgerKeepsFinal`.
- `WebhookDeliveryProofs`: `DeliveryTypeCorrect`, `DeliveredIsTrue`,
  `DeathIsEarned`, `RetryHasBudget`, `SignatureNotLost`, and
  `DispatchTracksAll`, which `PaidFlowProofs` uses; `DeliveryImplementsLedger`
  and `DeliveredIsLeftAlone`: every safety property of the deliveries' passing
  run.
- `PaidFlowProofs`: `FlowIsStore`, `FlowIsDelivery`, `FlowTracksAll`,
  `FlowLeavesDelivered`, `FlowTellsPaid`.
- `ApiProcessProofs`: `SchemaIsWhole`, `StopIsGraceful`.
- `QrisProofs`: `RoundTrip`, `ChildrenReadBack`, `ConvertKeeps`, for every text;
  `ConvertValid`, `ConvertAsks`, for what `Validate` has looked at of every text
  it accepts, the text without white space around it;
  `RegisterIsRemainder`, `NeighboursShow`, `WrongBytesRefused`, of the checksum.
- `MerchantQrisProofs`: `TextNeverRefused`, `ReadableRewritten`,
  `ConvertKeepsPayee`, `QrNamesThePayee`, `PanicsInSpace`, `PaymentsDoNotPanic`,
  `PaymentsAskTheirAmount`, `ChecksumIsRemainder`. With these, every property
  of `MerchantQris` is a theorem.

The inductive invariant of `PaymentStore` is `Inv == TypeOK /\ CreateInv /\
LockInv /\ CreditInv /\ GoalInv`. The goals alone are not inductive; what they
need is what locks and keys mean between two statements:
- `CreateInv`: the uuid of a call that has not inserted is not in the table; an
  answer is a row of the call's order. Gives `OneOrderOnePayment`.
- `LockInv`: a row held by a claim is still as the match found it
  (`LockedRows`), no two claims hold one row (`LocksExclusive`), and the key of
  an uncommitted insert is in no other transaction and not in the table
  (`KeyReserved`). `LockedRows` survives a sweep and a mark because both leave
  locked rows alone. Gives the commit its pending row and its fresh key.
- `CreditInv`: a claim past its commit has credited the row it holds; a mark
  that goes on has seen its payment paid.

The order of claims is proved over the histories of `ClaimOrder`. A match takes
the oldest payment that is free, so a payment it passed over was locked then
(`skipped`), or did not fit then and does not later, since a payment's
creation, amount and app never change and it never becomes pending again
(`OrderInv`). `ClaimTakesOldestFree` needs nothing else and holds for any number
of overlapping claims; it is what SKIP LOCKED really promises. It is proved only:
the instances in which two claims overlap are too large for a run.
`NotFoundIsTrue` is about the other answer: a claim that matches nothing saw,
of the payments it might have settled, none free, pending and before its time;
and one that is expired by then was swept when its time had come
(`SweptInTime`), so each is paid or past its time and stays so.
`SerialClaimsAreFifo` adds that a payment is locked only by a claim's
transaction: while no two of them are open at once (`Serial`) a match finds none
locked, and every claim, of any number one after the other, settles the oldest.
The hypothesis cannot be dropped, as `fifo_overlap` shows.

`StepInv` treats the step by kinds: a create (which only adds a row), a sweep, a
mark, a claim's moves (which change no table) and its commit. The refinement
(`LedgerStep`) reads each kind as a step of the ledger or a stutter: an INSERT
is `Open`, a commit `Settle`, a mark's UPDATE `Mark`, a pass `Expire`.

The inductive invariant of `WebhookDelivery` is `Inv == TypeOK /\ RowInv /\
SignInv /\ Honest /\ Planned`. `RowInv` says of the rows what the properties
say, and `Honest` says the same of what workers hold and will write: a counter
read from a row, plus the posts of this attempt, is at most the posts that were
sent, and a worker about to acknowledge has seen its receiver accept. Since a
stale worker may overwrite any row, a property of rows is inductive only
together with the like one of every worker. `Planned` follows a destination of
a plan from the list to its row or to `skipped`; `SignInv` has a worker without
a secret only where the row has none.

`DeliveryLedger` is reached from there with one more invariant, `HoldInv`: a
loop that rests holds no list, has no destination twice in it, and does not have
the one it attempts in it still. Without it, writing an outcome would not let go
of the delivery, and one goroutine could write two. `Holds` says of each step
what it takes up and what it lets go, and each step is then one of the ledger's
(`InsertIsOpen`, `ReadIsTakeUp`, `ListIsTakeUp`, `PostIsRequest`,
`AckIsDeliver`, `RecordIsFail`, `CutIsAbandon`) or a stutter. That a
delivered row rests is shown of the ledger (`LedgerRests`) and carried back.

`PaidFlow` is proved by using what the parts have proved. `FlowIsStore`: a step
of the flow is a step of `PaymentStore` or leaves its tables alone, so all its
theorems hold of the flow. `FlowIsDelivery`: likewise for `WebhookDelivery`,
instantiated as `DP`; `FlowTracksAll` is then `DP!DispatchTracksAll`, and
`FlowLeavesDelivered` `DP!DeliveredIsLeftAlone`.
`FlowTellsPaid` joins the two: nothing is sent, listed or inserted (`Silent`)
until there is a paid payment (`SomePaid`), and paid is final.

In `ApiProcess` the invariant is `Inv == TypeInv /\ SchemaInv /\ StopInv`:
`SchemaInv` adds to `ServesWholeSchema` that a replica in the middle of a
migration is the only one and that its migration is the next, so that its
commit does not repeat one; `StopInv` adds that a replica that closes the pool
has no running call of its own, or has given up waiting in this life. Lives
are numbered since a replica that comes up again must not answer for calls of
an earlier one.

`TextNeverRefused` needs that the row's text was accepted by `Validate`, and
that a copy of it stays so: the codec is left unexpanded, so it holds of any
`Validate` both sides share.

The codec's functions are recursive, and what they compute is proved by
induction. The library's induction theorems take an operator and are not used:
`NatSetInduction` shows from the finiteness of `0 .. n` that a set of naturals
closed under successor is `Nat`; `MeasureInduction`, `SeqInduction` and
`TextInduction` follow, a predicate being given as the set where it holds. A
recursive definition says what a function satisfies only if there is such a
function, so each has its existence lemma (`ParseExists`, `BuildExists`, ...)
from `RecursionExists`: a functional that looks at smaller arguments only has a
fixed point. The measure is the length of a text and, for elements, `Weight`,
which bounds the bytes they were read from, since children are read from inside
a value (`ParseWeight`).

From there in steps. `ReadBack`: two bytes, a length of two digits and as many
bytes of value are read as that element. `RoundTrip`: so are elements written
one after the other, if their tags have two bytes and their values at most 99
(`Sound`, which holds of all that the reader makes, `ParseSound`); a nested
value is written from its children and never becomes longer (`WrittenShrinks`).
`ConvertKeeps`: what `Convert` writes is, but for the six tags it manages,
what it read, in order; whatever else is wrong with the text. `Readable` then
looks into the children, at every depth (`ReadableRewritten`), and
`ConvertKeepsPayee` puts these together. `QrNamesThePayee` needs of the system
that the copy a call works on is one of the texts its app has had meanwhile
(`CopyHeld`) and that the text of a payment is made of that copy (`QrMade`).

`NeverPanics` does not hold of all texts: `Validate` reads a text without the
white space around it and `Convert` with it, and a last length that points into
that space leads the reader to bytes that `Validate` did not look at.
`PanicsInSpace` proves this to be the only way; `PaymentsDoNotPanic` has the
absence of it as its hypothesis, which every text without surrounding white
space satisfies, and the texts of `qris_convert` do.

`QrPays` is about every byte that `Validate` looks at and every tag that it
counts. `Only` takes from elements those of one tag; it goes through
concatenation, taking out and writing anew, so that the elements of a converted
text are known tag by tag (`ConvertTags`, of which `Converts` is the
statement). `CountOnly` makes of it the count of a tag, `FindOnly` what `Find`
returns, `HasTagOnly` whether there is one. The rest of `Valid` is shown of
what `Convert` writes: it begins with the version, since the country code, before
which the amount goes, is another element than the first (`SealedBegins`); its
last four bytes are the upper-case checksum of the others (`SealedChecks`); and
the reader gets through it (`SealedCalm`): a nested value that is written anew
has no length below zero. `CleanConverts` and `CleanAsks` put this together
for a text that is `Clean`: accepted, and read alike trimmed and not. What
`TrimSpace` leaves of an accepted text is so, since there is no more white space
around it (`TrimmedClean`), which gives `ConvertValid` and `ConvertAsks` for every
text that `Validate` accepts. The code converts the
text as it is stored, so `PaymentsAskTheirAmount` carries the lemmas to the system
under hypotheses on texts, with `Made` as the invariant of what a call has
converted.

Its three hypotheses are what `QrPays` does not hold without. `Validate` checks
each element of tag 01 but not that there is only one, and `Convert` makes all of
them dynamic; `Validate` trims and `Convert` does not (section 3); a fee from
1000000 on is written with an exponent, as `qris_fee` shows. The texts that an
issuer of QRIS hands out have one method and no white space. The hypotheses on
texts are the assumption `ReadAlike` of `MCMerchantQris`, which TLC evaluates;
the fees of `qris_convert` go to 999999.

The checksum. A polynomial over GF(2) is the set of its exponents, addition the
symmetric difference. `CalculateCRC16` keeps 16 bits and takes the bytes in one
by one; the definition divides the whole text, with its first 16 bits inverted,
by x^16 + x^12 + x^5 + 1. Long division may be stopped and resumed anywhere
(`StepsSplit`), and one turn of the inner loop is one division step on the 16
bits that can still change, at whatever power of x they stand (`BitStep`). So
a byte taken into the register is eight steps of the division (`CarriesByte`), and texts one after the other divide one after the other
(`ComesConcat`, with `MessageConcat`), which gives every text by halves
(`AlwaysCarries`) and `RegisterIsRemainder`. `upperHex4` is read back by `FromHex`
(`HexReads`, from the sixteen values of half a byte, `Nibble`), and `Convert`
puts what it wrote at the end of the text (`SealedRemainder`), so
`ChecksumIsRemainder` speaks of the last four bytes of the text of a payment and
of all the others.

What the checksum is good for follows. Division is additive (`StepsLinear`) and
takes no two registers to one (`StepsInjective`), so a register that has come
to differ stays different whatever text follows (`AfterInjective`), and two bytes
fill the register's width, so they leave it different if they are
(`PairInjective`). Hence `NeighboursShow`: one wrong byte, or two next to each
other, always change the checksum, wherever they stand and however long the text
is; and `WrongBytesRefused`: `Validate` does not accept both texts.

Only model-checked: the liveness properties (fairness and ENABLED are beyond
TLAPS).

## 6. Not modelled, and why

- Authentication, configuration, readiness, responses, the OpenAPI file and the
  QR image change no state that any of the properties depends on. API keys
  appear as the app a call names.
- Routing and rate limit are library code. The 30 s timeout appears as the
  failures of calls, and the listener and the signal as actions of
  `ApiProcess`.
- Observability: counters, logs and traces are written and not read. The
  tracer's set-up may fail the start, which is a `Crash` of `ApiProcess`; the
  metrics server shares nothing with the API.
- `postWithRetries`, the dispatcher's path without a store of deliveries: the
  program always has one.
- The payload: `webhook_deliveries` keeps it as JSONB, so a retry sends the same
  object in the bytes the database writes, signed anew. A receiver checks the
  signature over the bytes it gets; no property is about them.
- The width of times: `expires_in` seconds become a 64-bit count of nanoseconds
  (`service.go:120`), which overflows beyond some 292 years into a time that
  has passed. Times of `PaymentStore` are unbounded, and no text of the
  repository says what such a call should give.
- A row inserted by hand, or by another program: bodies and rows are what this
  code writes.

## 7. Plan

Built in this order: the ledger and the payment tables, with proofs, since
money moves there; the codec and the merchants' texts; the deliveries, with
proofs; the way from paid to told; the process around them; the ledger of the
deliveries and the algebra of the checksum.

What could follow:
1. `PaidFlow` with several payments, one set of deliveries for each.
2. Fees that are not whole, and white space beyond ASCII.
3. Times of a fixed width.
