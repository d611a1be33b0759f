---------------------------- MODULE StoreLifecycle ----------------------------
(***************************************************************************)
(* Stores from the request to open one to suspension and reactivation:     *)
(* StoresService, StoreRequestService, StoreReactivationRequestService.    *)
(*                                                                         *)
(* Every handler loads a row, checks its status and saves it; approving a  *)
(* request makes the store, then its owner's membership, then closes the   *)
(* request; suspending saves the status and then freezes the store's order *)
(* lines (StoreSuspensionHoldService, here the set held).                  *)
(***************************************************************************)
EXTENDS Integers, FiniteSets

CONSTANTS
    Req,          \* slots: requests that may be in flight at once
    Handlers,     \* the handlers that run in this instance
    Vendor,
    AdminStatus,  \* statuses updateStoreAsAdmin sets in this instance
    MaxStores,    \* bounds: stores, requests to open one and requests to
    MaxRequests,  \* reactivate one ever made
    MaxAppeals

StoreHandlers == {"create", "updateStore"}
AdminHandlers == {"approveStore", "rejectStore", "suspend", "reactivate", "updateStoreAsAdmin", "createStoreAsAdmin"}
RequestHandlers == {"submitStoreRequest", "approveStoreRequest", "rejectStoreRequest"}
ReactivationHandlers == {"submitReactivation", "approveReactivation", "rejectReactivation"}
AllHandlers == StoreHandlers \cup AdminHandlers \cup RequestHandlers \cup ReactivationHandlers

StoreStatus == {"pending", "approved", "rejected", "suspended"}

LifecycleAssumption ==
    /\ Handlers \subseteq AllHandlers
    /\ AdminStatus \subseteq StoreStatus
    /\ MaxStores \in Nat /\ MaxRequests \in Nat /\ MaxAppeals \in Nat
    /\ Vendor # {}

Store == 1 .. MaxStores
Request == 1 .. MaxRequests
Appeal == 1 .. MaxAppeals

VARIABLES
    stores,     \* stores
    role,       \* store_members
    held,       \* stores whose order lines are on suspension hold
    requests,   \* store_requests
    appeals,    \* store_reactivation_requests
    job         \* requests in flight

vars == <<stores, role, held, requests, appeals, job>>

AVendor == CHOOSE v \in Vendor : TRUE
StoreRow == [status : {"none"} \cup StoreStatus, owner : Vendor, name : 0 .. 1, from : 0 .. MaxRequests]
RequestRow == [status : {"none", "pending", "approved", "rejected"}, vendor : Vendor]
AppealRow == [status : {"none", "pending", "approved", "rejected"}, store : 0 .. MaxStores]
NoStore == [status |-> "none", owner |-> AVendor, name |-> 0, from |-> 0]
Role == {"none", "owner", "manager", "staff"}

Idle == [at |-> "idle", op |-> "none", s |-> 0, q |-> 0, row |-> NoStore, was |-> "none"]
Job == [at : {"idle", "insertRequest", "insertStore", "insertMember", "syncMembers", "saveStore", "hold", "release",
              "closeRequest", "insertAppeal", "loadForAppeal", "closeAppeal"},
        op : {"none"} \cup AllHandlers, s : 0 .. MaxStores, q : 0 .. MaxRequests + MaxAppeals, row : StoreRow,
        was : {"none"} \cup StoreStatus]

Init ==
    /\ stores = [s \in Store |-> NoStore]
    /\ role = [s \in Store |-> [v \in Vendor |-> "none"]]
    /\ held = {}
    /\ requests = [q \in Request |-> [status |-> "none", vendor |-> AVendor]]
    /\ appeals = [a \in Appeal |-> [status |-> "none", store |-> 0]]
    /\ job = [r \in Req |-> Idle]

Start(r, op, at, s, q, row) ==
    /\ op \in Handlers
    /\ job[r].at = "idle"
    /\ job' = [job EXCEPT ![r] = [at |-> at, op |-> op, s |-> s, q |-> q, row |-> row,
                                  was |-> IF s = 0 THEN "none" ELSE stores[s].status]]
    /\ UNCHANGED <<stores, role, held, requests, appeals>>
At(r, at) == job[r].at = at
Goto(r, at) == job' = [job EXCEPT ![r].at = at]
Return(r) == job' = [job EXCEPT ![r] = Idle]
Free(T) == {x \in DOMAIN T : T[x].status = "none"}
Least(S) == CHOOSE x \in S : \A y \in S : x <= y

-----------------------------------------------------------------------------
(* Requests to open a store                                                *)

submitStoreRequest(r, v) ==
    /\ \A q \in Request : ~(requests[q].status = "pending" /\ requests[q].vendor = v)
    /\ Start(r, "submitStoreRequest", "insertRequest", 0, 0, [NoStore EXCEPT !.owner = v])

InsertRequest(r) ==
    /\ At(r, "insertRequest")
    /\ Free(requests) # {}
    /\ requests' = [requests EXCEPT ![Least(Free(requests))] = [status |-> "pending", vendor |-> job[r].row.owner]]
    /\ Return(r)
    /\ UNCHANGED <<stores, role, held, appeals>>

approveStoreRequest(r, q) ==
    /\ requests[q].status = "pending"
    /\ Start(r, "approveStoreRequest", "insertStore", 0, q,
             [status |-> "approved", owner |-> requests[q].vendor, name |-> 0, from |-> q])

rejectStoreRequest(r, q) ==
    /\ requests[q].status = "pending"
    /\ Start(r, "rejectStoreRequest", "closeRequest", 0, q, NoStore)

(* The slug is looked up and taken in one step: of two lookups that        *)
(* overlap the second insert fails on the index, as if it had not begun.   *)
InsertStore(r) ==
    LET s == Least(Free(stores))
    IN
    /\ At(r, "insertStore")
    /\ Free(stores) # {}
    /\ stores' = [stores EXCEPT ![s] = job[r].row]
    /\ job' = [job EXCEPT ![r].at = "insertMember", ![r].s = s]
    /\ UNCHANGED <<role, held, requests, appeals>>

InsertMember(r) ==
    /\ At(r, "insertMember")
    /\ role' = [role EXCEPT ![job[r].s][job[r].row.owner] = "owner"]
    /\ IF job[r].op = "approveStoreRequest" THEN Goto(r, "closeRequest") ELSE Return(r)
    /\ UNCHANGED <<stores, held, requests, appeals>>

CloseRequest(r) ==
    /\ At(r, "closeRequest")
    /\ requests' = [requests EXCEPT ![job[r].q].status =
                        IF job[r].op = "approveStoreRequest" THEN "approved" ELSE "rejected"]
    /\ Return(r)
    /\ UNCHANGED <<stores, role, held, appeals>>

-----------------------------------------------------------------------------
(* Stores                                                                  *)

(* create, suspend: of the service; no resolver calls them any more.       *)
create(r, v) ==
    /\ "create" \in Handlers /\ job[r].at = "idle"
    /\ Free(stores) # {}
    /\ stores' = [stores EXCEPT ![Least(Free(stores))] = [NoStore EXCEPT !.status = "pending", !.owner = v]]
    /\ UNCHANGED <<role, held, requests, appeals, job>>

createStoreAsAdmin(r, v) ==
    Start(r, "createStoreAsAdmin", "insertStore", 0, 0, [NoStore EXCEPT !.status = "approved", !.owner = v])

approveStore(r, s) ==
    /\ stores[s].status = "pending"
    /\ Start(r, "approveStore", "saveStore", s, 0, [stores[s] EXCEPT !.status = "approved"])

rejectStore(r, s) ==
    /\ stores[s].status = "pending"
    /\ Start(r, "rejectStore", "saveStore", s, 0, [stores[s] EXCEPT !.status = "rejected"])

suspend(r, s) ==
    /\ stores[s].status # "none"
    /\ Start(r, "suspend", "saveStore", s, 0, [stores[s] EXCEPT !.status = "suspended"])

reactivate(r, s) ==
    /\ stores[s].status = "suspended"
    /\ Start(r, "reactivate", "saveStore", s, 0, [stores[s] EXCEPT !.status = "approved"])

updateStoreSettings(r, s, name) ==
    /\ stores[s].status # "none"
    /\ Start(r, "updateStore", "saveStore", s, 0, [stores[s] EXCEPT !.name = name])

updateAsAdmin(r, s, owner, status) ==
    /\ stores[s].status # "none"
    /\ Start(r, "updateStoreAsAdmin", IF owner = stores[s].owner THEN "saveStore" ELSE "syncMembers", s, 0,
             [stores[s] EXCEPT !.owner = owner, !.status = status])

(* The new owner's row becomes OWNER, the former one's STAFF.              *)
syncStoreOwnerMembership(r) ==
    LET s == job[r].s
        former == stores[s].owner
    IN
    /\ At(r, "syncMembers")
    /\ role' = [role EXCEPT ![s] = [v \in Vendor |->
          CASE v = job[r].row.owner -> "owner"
            [] v = former /\ v # job[r].row.owner /\ @[v] = "owner" -> "staff"
            [] OTHER -> @[v]]]
    /\ Goto(r, "saveStore")
    /\ UNCHANGED <<stores, held, requests, appeals>>

(* What follows the saving of a store's row.                               *)
AfterSave(op, was, status) ==
    CASE op = "suspend" -> "hold"
      [] op \in {"reactivate", "approveReactivation"} -> "release"
      [] op = "updateStoreAsAdmin" /\ status = "suspended" /\ was # "suspended" -> "hold"
      [] op = "updateStoreAsAdmin" /\ status = "approved" /\ was = "suspended" -> "release"
      [] OTHER -> "done"

(* The whole row as it was loaded, with the handler's changes.             *)
SaveStore(r) ==
    LET next == AfterSave(job[r].op, job[r].was, job[r].row.status)
    IN
    /\ At(r, "saveStore")
    /\ stores' = [stores EXCEPT ![job[r].s] = job[r].row]
    /\ IF next = "done" THEN Return(r) ELSE Goto(r, next)
    /\ UNCHANGED <<role, held, requests, appeals>>

applyHoldForStore(r) ==
    /\ At(r, "hold")
    /\ held' = held \cup {job[r].s}
    /\ Return(r)
    /\ UNCHANGED <<stores, role, requests, appeals>>

restoreHoldForStore(r) ==
    /\ At(r, "release")
    /\ held' = held \ {job[r].s}
    /\ IF job[r].op = "approveReactivation" THEN Goto(r, "closeAppeal") ELSE Return(r)
    /\ UNCHANGED <<stores, role, requests, appeals>>

-----------------------------------------------------------------------------
(* Requests to reactivate a store                                          *)

userHasStoreManagerAccess(v, s) == stores[s].owner = v \/ role[s][v] = "manager"

submitReactivation(r, v, s) ==
    /\ stores[s].status = "suspended"
    /\ userHasStoreManagerAccess(v, s)
    /\ \A a \in Appeal : ~(appeals[a].status = "pending" /\ appeals[a].store = s)
    /\ Start(r, "submitReactivation", "insertAppeal", s, 0, NoStore)

InsertAppeal(r) ==
    /\ At(r, "insertAppeal")
    /\ Free(appeals) # {}
    /\ appeals' = [appeals EXCEPT ![Least(Free(appeals))] = [status |-> "pending", store |-> job[r].s]]
    /\ Return(r)
    /\ UNCHANGED <<stores, role, held, requests>>

approveReactivation(r, a) ==
    /\ appeals[a].status = "pending"
    /\ Start(r, "approveReactivation", "loadForAppeal", appeals[a].store, a, NoStore)

(* reactivate, which refuses a store that is not suspended any more; the   *)
(* request then stays as it is.                                            *)
LoadForAppeal(r) ==
    /\ At(r, "loadForAppeal")
    /\ IF stores[job[r].s].status = "suspended"
         THEN job' = [job EXCEPT ![r].at = "saveStore", ![r].was = "suspended",
                                 ![r].row = [stores[job[r].s] EXCEPT !.status = "approved"]]
         ELSE Return(r)
    /\ UNCHANGED <<stores, role, held, requests, appeals>>

rejectReactivation(r, a) ==
    /\ appeals[a].status = "pending"
    /\ Start(r, "rejectReactivation", "closeAppeal", appeals[a].store, a, NoStore)

CloseAppeal(r) ==
    /\ At(r, "closeAppeal")
    /\ appeals' = [appeals EXCEPT ![job[r].q].status =
                       IF job[r].op = "approveReactivation" THEN "approved" ELSE "rejected"]
    /\ Return(r)
    /\ UNCHANGED <<stores, role, held, requests>>

Next ==
    \E r \in Req :
        \/ \E v \in Vendor : submitStoreRequest(r, v) \/ create(r, v) \/ createStoreAsAdmin(r, v)
        \/ \E q \in Request : approveStoreRequest(r, q) \/ rejectStoreRequest(r, q)
        \/ \E s \in Store :
              \/ approveStore(r, s) \/ rejectStore(r, s) \/ suspend(r, s) \/ reactivate(r, s)
              \/ \E n \in 0 .. 1 : updateStoreSettings(r, s, n)
              \/ \E v \in Vendor, status \in AdminStatus : updateAsAdmin(r, s, v, status)
              \/ \E v \in Vendor : submitReactivation(r, v, s)
        \/ \E a \in Appeal : approveReactivation(r, a) \/ rejectReactivation(r, a)
        \/ InsertRequest(r) \/ InsertStore(r) \/ InsertMember(r) \/ CloseRequest(r)
        \/ syncStoreOwnerMembership(r) \/ SaveStore(r) \/ applyHoldForStore(r) \/ restoreHoldForStore(r)
        \/ InsertAppeal(r) \/ LoadForAppeal(r) \/ CloseAppeal(r)

Spec == Init /\ [][Next]_vars

-----------------------------------------------------------------------------
(* Properties                                                              *)

AtRest == \A r \in Req : At(r, "idle")

(* Every variable has its type.                                            *)
TypeOK ==
    /\ stores \in [Store -> StoreRow]
    /\ role \in [Store -> [Vendor -> Role]]
    /\ held \subseteq Store
    /\ requests \in [Request -> RequestRow]
    /\ appeals \in [Appeal -> AppealRow]
    /\ job \in [Req -> Job]

(* "Wire the same hold hooks": at rest exactly the suspended stores have   *)
(* their order lines on hold, whichever mutations suspended and reopened   *)
(* them.                                                                   *)
HoldFollowsStatus == AtRest => held = {s \in Store : stores[s].status = "suspended"}

(* A request makes one store when it is approved and none when it is not.  *)
RequestAccountsForStores ==
    AtRest => \A q \in Request :
        Cardinality({s \in Store : stores[s].from = q}) = IF requests[q].status = "approved" THEN 1 ELSE 0

(* "You already have a pending store request": one at a time.              *)
OnePendingRequest ==
    \A v \in Vendor : Cardinality({q \in Request : requests[q].status = "pending" /\ requests[q].vendor = v}) <= 1

(* At rest nobody but the owner of the store has the owner's role in it.   *)
OwnerRoleIsTheOwners ==
    AtRest => \A s \in Store, v \in Vendor : role[s][v] = "owner" => stores[s].owner = v
=============================================================================
