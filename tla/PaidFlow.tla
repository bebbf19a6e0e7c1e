------------------------------ MODULE PaidFlow ------------------------------
(***************************************************************************)
(* From "paid" to the app's receivers: the calls of PaymentStore, the      *)
(* deliveries of WebhookDelivery and the registration of endpoints, put    *)
(* together for one payment.  afterPaid is where they meet: a call that    *)
(* has come to "notify" lists the endpoints of its app, runs DispatchPaid  *)
(* as a worker of WebhookDelivery, and is answered when that worker is     *)
(* done.                                                                   *)
(***************************************************************************)
EXTENDS PaymentStore, Sequences

CONSTANTS
  Urls, Https,  \* receivers, and those of them with an https URL
  Loops, Secrets, Callback, MaxSync, MaxTotal, ListLimit,  \* see WebhookDelivery
  MaxHooks      \* bound of the registered endpoints, for TLC

VARIABLES
  endpoints,    \* webhook_endpoints of the payment's app, oldest first
  unlisted,     \* history: calls for which ListByAppID failed
  row, worker, faults, accepted, refused, posts, signed, skipped

Payers == ClaimCalls \union MarkCalls

Endpoint == [url: Urls, secret: Secrets]

\* Any list of endpoints may be registered when a call lists them.
Delivery == INSTANCE WebhookDelivery WITH Dispatches <- Payers, HookLists <- Seq(Endpoint)

ASSUME FlowAssumption ==
  /\ \E p \in PayIds : PayIds = {p}
  /\ Payers \intersect Loops = {}
  /\ Https \subseteq Urls /\ Callback \in Urls \union {None}
  /\ None \notin Urls \union Secrets
  /\ MaxSync \in Nat \ {0} /\ MaxTotal \in Nat \ {0}
  /\ ListLimit \in Nat \ {0} /\ MaxHooks \in Nat

deliveries == <<row, worker, faults, accepted, refused, posts, signed, skipped>>
hooks == <<endpoints, unlisted>>
flowvars == <<vars, hooks, deliveries>>

FlowInit == Init /\ Delivery!Init /\ endpoints = <<>> /\ unlisted = {}

-----------------------------------------------------------------------------
\* Variant: the call dispatches before its transaction is committed.
EarlyNotify(c) ==
  \/ c \in ClaimCalls /\ claim[c].pc \in {"commit", "notify"}
  \/ c \in MarkCalls /\ mark[c].pc = "notify"
\* The call has written its event and is about to list the endpoints.
AtNotify(c) ==
  \/ c \in ClaimCalls /\ claim[c].pc = "notify"
  \/ c \in MarkCalls /\ mark[c].pc = "notify"

\* DispatchPaid has returned.
Dispatched(c) == worker[c].pc = "done"

\* MaxFaults bounds the failures of calls and deliveries together.
MayHurt == Cardinality(Failed) + faults < MaxFaults

\* POST /v1/apps/:id/webhooks.  Any other URL is refused, and so is an app
\* that is not there; a secret that is not given is made up.
RegisterWebhook ==
  /\ Len(endpoints) < MaxHooks
  /\ \E u \in Https, s \in Secrets : endpoints' = Append(endpoints, [url |-> u, secret |-> s])
  /\ UNCHANGED <<vars, unlisted, deliveries>>

\* Steps of a call up to afterPaid's dispatch.
CallStep(c) ==
  /\ ~AtNotify(c)
  /\ \/ c \in ClaimCalls /\ ClaimRest(c)
     \/ c \in MarkCalls /\ MarkRest(c)
  /\ UNCHANGED <<hooks, deliveries>>

CallOpens ==
  /\ \/ \E c \in CreateCalls : CreateLookup(c) \/ CreateRest(c) \/ CreateFail(c)
     \/ \E c \in ClaimCalls : ClaimLookup(c)
     \/ \E c \in MarkCalls : MarkLookup(c)
  /\ UNCHANGED <<hooks, deliveries>>

Background == (Tick \/ Sweep) /\ UNCHANGED <<hooks, deliveries>>

\* afterPaid: ListByAppID, whose error leaves the list empty, then DispatchPaid.
ListAndDispatch(c) ==
  /\ AtNotify(c)
  /\ Delivery!DispatchTo(c, endpoints) /\ UNCHANGED faults
  /\ UNCHANGED <<vars, hooks>>

ListFails(c) ==
  /\ AtNotify(c) /\ MayHurt
  /\ Delivery!DispatchTo(c, <<>>) /\ Delivery!Fault
  /\ unlisted' = unlisted \union {c}
  /\ UNCHANGED <<vars, endpoints>>

DispatchGoesOn(c) ==
  /\ Delivery!DispatchStep(c)
  /\ UNCHANGED <<vars, hooks>>

Answer(c) ==
  /\ Dispatched(c)
  /\ \/ c \in ClaimCalls /\ ClaimNotify(c)
     \/ c \in MarkCalls /\ MarkNotify(c)
  /\ UNCHANGED <<hooks, deliveries>>

\* The call is cut short; one that dispatches leaves its deliveries as they are.
CallFails(c) ==
  /\ MayHurt
  /\ \/ c \in ClaimCalls /\ ClaimFail(c)
     \/ c \in MarkCalls /\ MarkFail(c)
  /\ IF worker[c].pc \in {"idle", "done"} THEN UNCHANGED deliveries ELSE Delivery!Crash(c)
  /\ UNCHANGED hooks

\* One statement of a dispatch fails, which its call does not notice.
DispatchHurt(c) ==
  /\ MayHurt
  /\ Delivery!EnsureFail(c) \/ Delivery!MarkFail(c)
  /\ UNCHANGED <<vars, hooks>>

LoopGoesOn(w) == Delivery!LoopStep(w) /\ UNCHANGED <<vars, hooks>>

LoopHurt(w) ==
  /\ MayHurt
  /\ Delivery!MarkFail(w) \/ Delivery!Crash(w)
  /\ UNCHANGED <<vars, hooks>>

DeliveryBecomesDue(u) == Delivery!BecomeDue(u) /\ UNCHANGED <<vars, hooks>>

\* Nothing is left but the tickers.
FlowQuiet ==
  /\ Quiet
  /\ \A w \in Loops : Delivery!LoopEmpty(w)
  /\ UNCHANGED flowvars

FlowNext ==
  \/ RegisterWebhook \/ CallOpens \/ Background \/ FlowQuiet
  \/ \E c \in Payers :
       \/ CallStep(c) \/ ListAndDispatch(c) \/ ListFails(c)
       \/ DispatchGoesOn(c) \/ DispatchHurt(c) \/ Answer(c) \/ CallFails(c)
  \/ \E w \in Loops : LoopGoesOn(w) \/ LoopHurt(w)
  \/ \E u \in Urls : DeliveryBecomesDue(u)

FlowSpec == FlowInit /\ [][FlowNext]_flowvars

\* A call that has begun goes on, through its dispatch to its answer; the
\* retry loops and the waits as in WebhookDelivery.
FlowFairness ==
  /\ \A c \in Payers :
       WF_flowvars(CallStep(c) \/ ListAndDispatch(c) \/ DispatchGoesOn(c) \/ Answer(c))
  /\ \A w \in Loops : WF_flowvars(LoopGoesOn(w))
  /\ \A u \in Urls : WF_flowvars(DeliveryBecomesDue(u))

FairFlow == FlowSpec /\ FlowFairness

-----------------------------------------------------------------------------
\* GET /v1/payments/:id with the key of app a.
Get(a, p) ==
  IF pay[p].status = "absent" \/ AppOf(p) # a THEN "notfound" ELSE pay[p].status

HookUrls == {endpoints[i].url : i \in DOMAIN endpoints}

Receivers == HookUrls \union ({Callback} \ {None})

(* afterPaid: "paid" is told to no receiver before it is so: whoever has   *)
(* been sent the event, by a dispatch or by a retry, can look the payment  *)
(* up with its app's key and finds it paid, and no other app finds it.     *)
ToldIsPaid ==
  \A u \in Urls : posts[u] > 0 =>
    \E p \in PayIds : \A a \in Apps : Get(a, p) = IF a = AppOf(p) THEN "paid" ELSE "notfound"

(* DispatchPaid: a call that is answered has left a row for each of its    *)
(* destinations but those whose own statements failed.                     *)
DestinationsTracked == Delivery!EveryDestinationTracked

\* The event was accepted, refused, or sent as often as it may be.
Told(u) == u \in accepted \union refused \/ posts[u] >= MaxTotal

\* The receiver has no row, and the reason: the call was cut short, its
\* statements for the receiver failed, or the endpoints could not be listed.
Missed(c, u) ==
  /\ row[u].status = "absent"
  /\ c \in CutShort \/ <<c, u>> \in skipped \/ (c \in unlisted /\ u # Callback)

(* afterPaid, DispatchPaid, RunRetryLoop: a receiver that is registered    *)
(* when a payment has become paid is told, by the dispatch or by a retry   *)
(* after it, unless the call that made it paid missed the receiver.        *)
ReceiversAreTold ==
  \A c \in Payers, u \in Urls :
    (\E p \in PayIds : <<c, p>> \in credited) /\ worker[c].pc = "idle" /\ u \in Receivers
      ~> Told(u) \/ Missed(c, u)
=============================================================================
