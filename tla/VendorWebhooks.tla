---------------------------- MODULE VendorWebhooks -----------------------------
(***************************************************************************)
(* The webhooks a store may have its order events sent to:                 *)
(* VendorWebhooksService, VendorWebhooksProcessor, the events and the      *)
(* payload.                                                                *)
(*                                                                         *)
(* External: the queue (BullMQ) tries a job up to MaxAttempts times, in    *)
(* any order among jobs; the vendor's endpoint may receive a request whose *)
(* answer is lost.                                                         *)
(***************************************************************************)
EXTENDS Integers, FiniteSets

CONSTANTS
    Req,          \* slots: requests and dispatches in flight
    Handlers,     \* the handlers that run in this instance
    Store,        \* the stores with lines on the order
    Status,       \* header statuses the order may get
    MaxEvents,    \* bound: events of the order
    MaxSecrets,   \* bound: secrets generated
    MaxAttempts,  \* attempts of a queued delivery (5)
    HasQueue,     \* Redis is configured
    Faults        \* what may fail: "enqueue", "endpoint"

AllHandlers == {"changeStatus", "orderEvent", "upsertForStore", "deleteForStore", "deliverNow"}

WebhookAssumption ==
    /\ Handlers \subseteq AllHandlers
    /\ MaxEvents \in Nat /\ MaxSecrets \in Nat /\ MaxAttempts \in Nat \ {0}
    /\ HasQueue \in BOOLEAN
    /\ Faults \subseteq {"enqueue", "endpoint"}

VARIABLES
    order,      \* the header's status and how many events there were
    hooks,      \* store_webhooks
    shown,      \* the secret a store was shown last
    queue,      \* deliveries to make
    received,   \* what reached the stores' endpoints
    owed,       \* events, and the stores subscribed when they happened, less
                \* the ones whose own job could not be added
    job,        \* requests and dispatches in flight
    secrets,    \* how many secrets were generated
    ids         \* how many delivery ids were drawn

vars == <<order, hooks, shown, queue, received, owed, job, secrets, ids>>

None == "none"
NoSecret == 0

(* VENDOR_WEBHOOK_EVENTS, the two of them that are fired from paths of     *)
(* their own, and the ones that go with a header status.                   *)
DedicatedEvents == {"order.create", "order.payment_failed"}

webhookEventForOrderStatus(status) ==
    LET events == [paid |-> "order.paid", processing |-> "order.processing", on_hold |-> "order.on_hold",
                   shipped |-> "order.shipped", delivered |-> "order.delivered",
                   cancelled |-> "order.cancelled", refunded |-> "order.refunded"]
    IN  IF status \in DOMAIN events THEN events[status] ELSE None

Event == DedicatedEvents \cup ({webhookEventForOrderStatus(status) : status \in Status} \ {None})

(* A store's webhook; no secret means no row.                              *)
StoreWebhook == [secret : 0 .. MaxSecrets, enabled : BOOLEAN, events : SUBSET Event]
NoHook == [secret |-> NoSecret, enabled |-> FALSE, events |-> {}]
VendorWebhookJobData ==
    [id : 1 .. MaxEvents * Cardinality(Store), n : 1 .. MaxEvents, store : Store, event : Event,
     secret : 1 .. MaxSecrets, status : Status, left : 0 .. MaxAttempts]

Idle == [at |-> "idle", store |-> None, row |-> NoHook, fresh |-> FALSE, event |-> None, n |-> 0, status |-> None,
         todo |-> {}]

Init ==
    /\ order \in {[status |-> status, n |-> 0] : status \in {"pending_payment"} \cap Status}
    /\ hooks = [s \in Store |-> NoHook]
    /\ shown = [s \in Store |-> NoSecret]
    /\ queue = {}
    /\ received = {}
    /\ owed = {}
    /\ job = [r \in Req |-> Idle]
    /\ secrets = 0
    /\ ids = 0

Free(r, op) == op \in Handlers /\ job[r].at = "idle"
Return(r) == job' = [job EXCEPT ![r] = Idle]

-----------------------------------------------------------------------------
(* The store's settings                                                    *)

normalizeEvents(events) == IF events = {} THEN Event ELSE events

(* The row is read ...                                                     *)
upsertForStore(r, s, events, enabled, rotate) ==
    LET old == hooks[s]
        fresh == old = NoHook \/ rotate
    IN
    /\ Free(r, "upsertForStore")
    /\ fresh => secrets < MaxSecrets
    /\ secrets' = IF fresh THEN secrets + 1 ELSE secrets
    /\ job' = [job EXCEPT ![r] =
                 [Idle EXCEPT !.at = "saveHook", !.store = s, !.fresh = fresh,
                    !.row = [secret |-> IF fresh THEN secrets + 1 ELSE old.secret,
                             enabled |-> IF enabled = "keep" THEN old = NoHook \/ old.enabled ELSE enabled = "on",
                             events |-> normalizeEvents(events)],
                    !.status = IF old = NoHook THEN "insert" ELSE "update"]]
    /\ UNCHANGED <<order, hooks, shown, queue, received, owed, ids>>

(* ... and written back whole, the secret it was read with included; a     *)
(* second insert meets the unique storeId and fails.                       *)
SaveHook(r) ==
    LET j == job[r]
        taken == j.status = "insert" /\ hooks[j.store] # NoHook
    IN
    /\ j.at = "saveHook"
    /\ hooks' = IF taken THEN hooks ELSE [hooks EXCEPT ![j.store] = j.row]
    /\ shown' = IF j.fresh /\ ~taken THEN [shown EXCEPT ![j.store] = j.row.secret] ELSE shown
    /\ Return(r)
    /\ UNCHANGED <<order, queue, received, owed, secrets, ids>>

deleteForStore(r, s) ==
    /\ Free(r, "deleteForStore")
    /\ hooks[s] # NoHook
    /\ hooks' = [hooks EXCEPT ![s] = NoHook]
    /\ UNCHANGED <<order, shown, queue, received, owed, job, secrets, ids>>

-----------------------------------------------------------------------------
(* The events of the order                                                 *)

Subscribed(s, event) == hooks[s] # NoHook /\ hooks[s].enabled /\ event \in hooks[s].events

Fire(r, event) ==
    /\ order.n < MaxEvents
    /\ owed' = owed \cup {[n |-> order.n + 1, store |-> s] : s \in {x \in Store : Subscribed(x, event)}}
    /\ job' = [job EXCEPT ![r] = [Idle EXCEPT !.at = "load", !.event = event, !.n = order.n + 1]]
    /\ UNCHANGED <<hooks, shown, queue, received, secrets, ids>>

changeStatus(r, status) ==
    /\ Free(r, "changeStatus")
    /\ status # order.status
    /\ webhookEventForOrderStatus(status) # None
    /\ Fire(r, webhookEventForOrderStatus(status))
    /\ order' = [status |-> status, n |-> order.n + 1]

orderEvent(r, event) ==
    /\ Free(r, "orderEvent")
    /\ Fire(r, event)
    /\ order' = [order EXCEPT !.n = @ + 1]

(* The dispatch reads the order once, some time after the event ...        *)
dispatchOrderEvent(r) ==
    /\ job[r].at = "load"
    /\ job' = [job EXCEPT ![r].at = "dispatch", ![r].status = order.status, ![r].todo = Store]
    /\ UNCHANGED <<order, hooks, shown, queue, received, owed, secrets, ids>>

Left(r, s) ==
    LET todo == job[r].todo \ {s}
    IN  IF todo = {} THEN Return(r) ELSE job' = [job EXCEPT ![r].todo = todo]

(* The id of a delivery is drawn when its payload is built, once.          *)
buildVendorWebhookOrderPayload(r, s, attempts) ==
    [id |-> ids + 1, n |-> job[r].n, store |-> s, event |-> job[r].event, secret |-> hooks[s].secret,
     status |-> job[r].status, left |-> attempts]

(* ... and takes the stores in turn, each with its webhook as it is then.  *)
(* A job that cannot be added ends the loop; without a queue one attempt   *)
(* is made.                                                                *)
dispatchForStore(r, s) ==
    /\ job[r].at = "dispatch" /\ s \in job[r].todo
    /\ IF Subscribed(s, job[r].event)
       THEN \/ /\ queue' = queue \cup {buildVendorWebhookOrderPayload(r, s, IF HasQueue THEN MaxAttempts ELSE 1)}
               /\ ids' = ids + 1
               /\ Left(r, s)
               /\ UNCHANGED owed
            \/ /\ "enqueue" \in Faults /\ HasQueue
               /\ owed' = owed \ {[n |-> job[r].n, store |-> s]}
               /\ Return(r)
               /\ UNCHANGED <<queue, ids>>
       ELSE Left(r, s) /\ UNCHANGED <<queue, ids, owed>>
    /\ UNCHANGED <<order, hooks, shown, received, secrets>>

-----------------------------------------------------------------------------
(* The deliveries                                                          *)

(* Mutant: a delivery that has used up its attempts is put back with all.  *)
AfterFailureAgain(d) == (queue \ {d}) \cup {[d EXCEPT !.left = IF @ > 1 THEN @ - 1 ELSE MaxAttempts]}

AfterFailure(d) ==
    (queue \ {d}) \cup (IF d.left > 1 THEN {[d EXCEPT !.left = @ - 1]} ELSE {})

(* Mutant: an attempt draws a delivery id.                                 *)
DeliverAnew(d) ==
    LET sent == [d EXCEPT !.id = IF d.left < MaxAttempts THEN ids + 1 ELSE @]
    IN
    /\ "deliverNow" \in Handlers
    /\ ids' = IF d.left < MaxAttempts THEN ids + 1 ELSE ids
    /\ \/ received' = received \cup {[sent EXCEPT !.left = 0]} /\ queue' = queue \ {d}
       \/ /\ "endpoint" \in Faults
          /\ \/ received' = received \cup {[sent EXCEPT !.left = 0]}
             \/ UNCHANGED received
          /\ queue' = AfterFailure(d)
    /\ UNCHANGED <<order, hooks, shown, owed, job, secrets>>

(* The endpoint answers with success, or fails, or receives the request    *)
(* and its answer is late or lost.                                         *)
deliverNow(d) ==
    /\ "deliverNow" \in Handlers
    /\ \/ received' = received \cup {[d EXCEPT !.left = 0]} /\ queue' = queue \ {d}
       \/ /\ "endpoint" \in Faults
          /\ \/ received' = received \cup {[d EXCEPT !.left = 0]}
             \/ UNCHANGED received
          /\ queue' = AfterFailure(d)
    /\ UNCHANGED <<order, hooks, shown, owed, job, secrets, ids>>

-----------------------------------------------------------------------------
Settings(r) ==
    \E s \in Store :
        \/ \E events \in SUBSET Event, enabled \in {"on", "off", "keep"}, rotate \in BOOLEAN :
              upsertForStore(r, s, events, enabled, rotate)
        \/ deleteForStore(r, s)

Orders(r) ==
    \/ \E status \in Status : changeStatus(r, status)
    \/ \E event \in DedicatedEvents : orderEvent(r, event)

Continue(r) == SaveHook(r) \/ dispatchOrderEvent(r) \/ \E s \in Store : dispatchForStore(r, s)

Next ==
    \/ \E r \in Req : Settings(r) \/ Orders(r) \/ Continue(r)
    \/ \E d \in queue : deliverNow(d)

Spec == Init /\ [][Next]_vars

(* The queue makes the delivery of event n to store s.                     *)
Deliver(n, s) == \E d \in queue : d.n = n /\ d.store = s /\ deliverNow(d)

-----------------------------------------------------------------------------
(* Jobs and webhooks are what the queue and the table hold, and what a     *)
(* store is sent was signed with a secret it was shown or is about to be.  *)
TypeOK ==
    /\ hooks \in [Store -> StoreWebhook]
    /\ queue \cup received \subseteq VendorWebhookJobData
    /\ \A d \in queue : d.left > 0 /\ (~HasQueue => d.left = 1)
    /\ \A s \in Store : shown[s] <= secrets

(* "shown once on create/rotate; used for HMAC-SHA256": the secret that   *)
(* signs is the one the store was shown last (upsertForStore).             *)
ShownSecretSigns ==
    \A s \in Store : hooks[s] # NoHook => hooks[s].secret = shown[s]

(* What reaches an endpoint twice is recognisable: one delivery id and one *)
(* payload for an event, whatever was retried (the job's data is fixed     *)
(* when it is added).                                                      *)
RetriesRepeatTheId ==
    \A d, e \in received : d.n = e.n /\ d.store = e.store => d = e

(* "Best-effort dispatch for every store on the order that has the event   *)
(* enabled": once its dispatch ended, every such store's delivery is       *)
(* queued or made, unless that job itself could not be added (and with     *)
(* endpoints that do not fail).                                            *)
EveryStoreDispatched ==
    \A o \in owed :
        \/ \E r \in Req : job[r].n = o.n
        \/ \E d \in queue \cup received : d.n = o.n /\ d.store = o.store

(* A delivery that is neither made nor given up.                           *)
Underway(n, s) == \E d \in queue : d.n = n /\ d.store = s
=============================================================================
