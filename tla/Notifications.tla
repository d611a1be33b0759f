---------------------------- MODULE Notifications -----------------------------
(***************************************************************************)
(* In-app notifications and the mails that go with them:                   *)
(* NotificationsService, its resolver and the events that call it.         *)
(*                                                                         *)
(* An event is a list of things to do, one after the other: tell a user    *)
(* (look for an equal notification, then insert one) or send a mail.  A    *)
(* step that fails is either caught, and the next one runs, or it ends the *)
(* event.                                                                  *)
(***************************************************************************)
EXTENDS Integers, Sequences, SequencesExt

CONSTANTS
    Req,        \* slots: requests in flight
    Handlers,   \* the events and requests of this instance
    Order,
    Guest,      \* orders without an account
    Unmailed,   \* orders without an address for mails
    Store,
    Chain,      \* stores of one and the same owner
    Admin,      \* active admins
    Status,     \* statuses an order may get
    MaxEvents,  \* bound: events
    Faults      \* what may fail: "save", "mail"

AllHandlers == {"orderPaid", "newOrder", "statusChanged", "hold", "storeRequest", "manualPayout",
                "storeStatus", "requestStatus", "taxonomyDeleted", "markAsRead", "markAllAsRead"}

NotificationAssumption ==
    /\ Handlers \subseteq AllHandlers
    /\ Guest \subseteq Order /\ Unmailed \subseteq Order /\ Chain \subseteq Store
    /\ IsFiniteSet(Store) /\ IsFiniteSet(Admin)
    /\ Faults \subseteq {"save", "mail"}
    /\ MaxEvents \in Nat

VARIABLES
    rows,    \* user_notifications, in the order they were created
    mails,   \* the mails accepted by the provider
    job,     \* events and requests in flight
    ended,   \* the events that ended, with the steps that failed
    events   \* how many there were

vars == <<rows, mails, job, ended, events>>

OwnerOf(s) == IF s \in Chain THEN "chain" ELSE s
CustomerOf(o) == o
User == {OwnerOf(s) : s \in Store} \cup (Order \ Guest) \cup Admin
NotificationType == {"payment_received", "order_status_changed", "new_order", "order_items_on_hold",
    "order_items_hold_resumed", "vendor_order_items_on_hold", "vendor_order_items_hold_resumed",
    "new_store_request", "manual_payout_request", "store_status_changed", "request_status_changed",
    "taxonomy_deleted"}
Name == Order \cup Store \cup Status
    \cup {"on_hold", "hold_resumed", "request", "payout", "approved", "rejected", "true", "false", "brand"}
UserNotification == [to : User, type : NotificationType, key : Seq(Name), isRead : BOOLEAN]

(* The things an event does.                                               *)
Tell(to, type, key, caught) == [do |-> "tell", to |-> to, type |-> type, key |-> key, caught |-> caught]
Mail(o, type, key, caught) == [do |-> "mail", to |-> o, type |-> type, key |-> key, caught |-> caught]
When(p, steps) == IF p THEN steps ELSE <<>>
ForEach(S, F(_)) == LET s == SetToSeq(S) IN [i \in 1 .. Len(s) |-> F(s[i])]

-----------------------------------------------------------------------------
(* What each event does                                                    *)

notifyOrderPaid(o) ==
    When(o \notin Guest, <<Tell(CustomerOf(o), "payment_received", <<o>>, TRUE)>>)
    \o When(o \notin Unmailed, <<Mail(o, "paid", <<o>>, FALSE)>>)

EMAIL_ONLY_STATUS_NOTIFICATIONS == {"on_hold", "hold_resumed"}

notifyOrderStatusChanged(o, status, caught) ==
    When(o \notin Guest /\ status \notin EMAIL_ONLY_STATUS_NOTIFICATIONS,
         <<Tell(CustomerOf(o), "order_status_changed", <<o, status>>, TRUE)>>)
    \o When(o \notin Unmailed, <<Mail(o, status, <<o, status>>, caught)>>)

notifyVendorsAboutNewOrder(o) ==
    ForEach(Store, LAMBDA s : Tell(OwnerOf(s), "new_order", <<o>>, FALSE))

notifyVendorsAboutOrderStatus(o, status) ==
    ForEach(Store, LAMBDA s : Tell(OwnerOf(s), "order_status_changed", <<o, status>>, FALSE))

(* An order's header changed: the customer is waited for, the vendors are  *)
(* told when that did not fail.                                            *)
StatusChanged(o, status) ==
    notifyOrderStatusChanged(o, status, FALSE) \o notifyVendorsAboutOrderStatus(o, status)

CustomerHold == [on_hold |-> "order_items_on_hold", hold_resumed |-> "order_items_hold_resumed"]
VendorHold == [on_hold |-> "vendor_order_items_on_hold", hold_resumed |-> "vendor_order_items_hold_resumed"]

(* Mutant: the mail about the hold is not caught.                          *)
HoldUncaught(o, s, event) ==
    When(o \notin Guest, <<Tell(CustomerOf(o), CustomerHold[event], <<o, s>>, TRUE)>>)
    \o notifyOrderStatusChanged(o, event, FALSE)
    \o <<Tell(OwnerOf(s), VendorHold[event], <<o, s>>, TRUE)>>

notifyHoldEvent(o, s, event) ==
    When(o \notin Guest, <<Tell(CustomerOf(o), CustomerHold[event], <<o, s>>, TRUE)>>)
    \o notifyOrderStatusChanged(o, event, TRUE)
    \o <<Tell(OwnerOf(s), VendorHold[event], <<o, s>>, TRUE)>>

notifyAdminAboutNewRequest(request) ==
    ForEach(Admin, LAMBDA a : Tell(a, "new_store_request", <<request>>, FALSE))

notifyAdminsAboutManualPayoutRequest(payout) ==
    ForEach(Admin, LAMBDA a : Tell(a, "manual_payout_request", <<payout>>, FALSE))

notifyVendorAboutStoreStatus(s, status) ==
    <<Tell(OwnerOf(s), "store_status_changed", <<s, status>>, FALSE)>>

notifyVendorAboutRequestStatus(s, request, success) ==
    <<Tell(OwnerOf(s), "request_status_changed", <<request, success>>, FALSE)>>

notifyVendorsAboutTaxonomyDeleted(stores, name) ==
    ForEach(stores, LAMBDA s : Tell(OwnerOf(s), "taxonomy_deleted", <<s, name>>, FALSE))

-----------------------------------------------------------------------------
Idle == [at |-> "idle", op |-> "none", steps |-> <<>>, n |-> 0, failed |-> {}, row |-> 0]

Init ==
    /\ rows = <<>>
    /\ mails = {}
    /\ job = [r \in Req |-> Idle]
    /\ ended = {}
    /\ events = 0

Raise(r, op, steps) ==
    /\ op \in Handlers
    /\ job[r].at = "idle"
    /\ events < MaxEvents
    /\ steps # <<>>
    /\ events' = events + 1
    /\ job' = [job EXCEPT ![r] = [Idle EXCEPT !.at = "run", !.op = op, !.steps = steps, !.n = 1]]
    /\ UNCHANGED <<rows, mails, ended>>

(* The next step, or the end.                                              *)
Advance(r, failed) ==
    LET j == job[r]
        stops == j.n \in failed /\ ~j.steps[j.n].caught
    IN  IF stops \/ j.n = Len(j.steps)
        THEN /\ job' = [job EXCEPT ![r] = Idle]
             /\ ended' = ended \cup {[op |-> j.op, steps |-> j.steps, failed |-> failed]}
        ELSE /\ job' = [job EXCEPT ![r].at = "run", ![r].n = @ + 1, ![r].failed = failed]
             /\ UNCHANGED ended

Step(r) == job[r].steps[job[r].n]
Same(row, step) == row.to = step.to /\ row.type = step.type /\ row.key = step.key

findExistingUserNotification(step) == \E i \in DOMAIN rows : Same(rows[i], step)

createUserNotification(r) ==
    /\ job[r].at = "run" /\ Step(r).do = "tell"
    /\ IF findExistingUserNotification(Step(r))
       THEN Advance(r, job[r].failed)
       ELSE job' = [job EXCEPT ![r].at = "save"] /\ UNCHANGED ended
    /\ UNCHANGED <<rows, mails, events>>

SaveNotification(r) ==
    /\ job[r].at = "save"
    /\ \/ /\ rows' = Append(rows, [to |-> Step(r).to, type |-> Step(r).type, key |-> Step(r).key, isRead |-> FALSE])
          /\ Advance(r, job[r].failed)
       \/ /\ "save" \in Faults
          /\ Advance(r, job[r].failed \cup {job[r].n})
          /\ UNCHANGED rows
    /\ UNCHANGED <<mails, events>>

SendMail(r) ==
    /\ job[r].at = "run" /\ Step(r).do = "mail"
    /\ \/ mails' = mails \cup {<<Step(r).to, Step(r).type>>} /\ Advance(r, job[r].failed)
       \/ "mail" \in Faults /\ Advance(r, job[r].failed \cup {job[r].n}) /\ UNCHANGED mails
    /\ UNCHANGED <<rows, events>>

-----------------------------------------------------------------------------
(* The reader's requests                                                   *)

markAsRead(r, user, i) ==
    /\ "markAsRead" \in Handlers /\ job[r].at = "idle"
    /\ rows[i].to = user
    /\ ~rows[i].isRead
    /\ job' = [job EXCEPT ![r] = [Idle EXCEPT !.at = "markRead", !.op = user, !.row = i]]
    /\ UNCHANGED <<rows, mails, ended, events>>

SaveRead(r) ==
    /\ job[r].at = "markRead"
    /\ rows' = [rows EXCEPT ![job[r].row].isRead = TRUE]
    /\ job' = [job EXCEPT ![r] = Idle]
    /\ UNCHANGED <<mails, ended, events>>

markAllAsRead(r, user) ==
    /\ "markAllAsRead" \in Handlers /\ job[r].at = "idle"
    /\ rows' = [i \in DOMAIN rows |-> IF rows[i].to = user THEN [rows[i] EXCEPT !.isRead = TRUE] ELSE rows[i]]
    /\ rows' # rows
    /\ UNCHANGED <<mails, job, ended, events>>

-----------------------------------------------------------------------------
OrderEvents(r) ==
    \E o \in Order :
        \/ Raise(r, "orderPaid", notifyOrderPaid(o))
        \/ Raise(r, "newOrder", notifyVendorsAboutNewOrder(o))
        \/ \E status \in Status : Raise(r, "statusChanged", StatusChanged(o, status))
        \/ \E s \in Store, event \in {"on_hold", "hold_resumed"} : Raise(r, "hold", notifyHoldEvent(o, s, event))

StoreEvents(r) ==
    \/ Raise(r, "storeRequest", notifyAdminAboutNewRequest("request"))
    \/ Raise(r, "manualPayout", notifyAdminsAboutManualPayoutRequest("payout"))
    \/ \E s \in Store :
        \/ \E status \in {"approved", "rejected"} : Raise(r, "storeStatus", notifyVendorAboutStoreStatus(s, status))
        \/ \E success \in {"true", "false"} :
             Raise(r, "requestStatus", notifyVendorAboutRequestStatus(s, "request", success))
    \/ \E stores \in SUBSET Store : Raise(r, "taxonomyDeleted", notifyVendorsAboutTaxonomyDeleted(stores, "brand"))

NotificationsResolver(r) ==
    \E user \in User :
        \/ \E i \in DOMAIN rows : markAsRead(r, user, i)
        \/ markAllAsRead(r, user)

Continue(r) == createUserNotification(r) \/ SaveNotification(r) \/ SendMail(r) \/ SaveRead(r)

Next == \E r \in Req : OrderEvents(r) \/ StoreEvents(r) \/ NotificationsResolver(r) \/ Continue(r)

Spec == Init /\ [][Next]_vars

-----------------------------------------------------------------------------
Told(step) == \E i \in DOMAIN rows : Same(rows[i], step)

(* Notifications are of the users, and the only difference between two is  *)
(* whom they tell what: createUserNotification looks before it inserts.    *)
NoDuplicates ==
    /\ rows \in Seq(UserNotification)
    /\ \A i, k \in DOMAIN rows :
          i # k => <<rows[i].to, rows[i].type, rows[i].key>> # <<rows[k].to, rows[k].type, rows[k].key>>

(* The owner of a held store is told even if telling the customer or       *)
(* mailing failed (the catches of notifyHoldEvent).                        *)
HoldReachesVendor ==
    \A e \in ended : e.op = "hold" =>
        \A i \in DOMAIN e.steps :
            e.steps[i].type \in {VendorHold["on_hold"], VendorHold["hold_resumed"]} => i \in e.failed \/ Told(e.steps[i])

(* The payment's mail goes out even if the in-app notification failed      *)
(* (notifyOrderPaid).                                                      *)
PaidIsMailed ==
    \A e \in ended : e.op = "orderPaid" =>
        \A i \in DOMAIN e.steps :
            e.steps[i].do = "mail" => i \in e.failed \/ <<e.steps[i].to, "paid">> \in mails

(* An event that ended without a failure told everyone it is for: each     *)
(* admin, each owner, whatever was told before (a second try of an event   *)
(* that broke off tells the rest).                                         *)
EveryoneIsTold ==
    \A e \in ended : e.failed = {} => \A i \in DOMAIN e.steps : e.steps[i].do = "tell" => Told(e.steps[i])

(* A user's unread notifications become read by a request of that user     *)
(* alone (markAsRead looks for id and userId).                             *)
OthersStayUnread ==
    LET nowRead == {i \in DOMAIN rows : ~rows[i].isRead /\ rows'[i].isRead}
    IN  /\ \A i, k \in nowRead : rows[i].to = rows[k].to
        /\ \A i \in nowRead, r \in Req : job'[r] # job[r] => job[r].op = rows[i].to

(* An event is in flight.                                                  *)
Underway(r) == job[r].at # "idle"
=============================================================================
