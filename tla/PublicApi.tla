------------------------------ MODULE PublicApi ------------------------------
(***************************************************************************)
(* Partners' REST calls: a store's keys, ApiKeysService and its guard, and *)
(* the calls that bring customers, addresses and past orders over from     *)
(* another shop, ImportDataService. A key is looked up, then saved again   *)
(* with the time of its use; imports check before they insert, without a   *)
(* lock. The other endpoints call services that have modules of their own. *)
(***************************************************************************)
EXTENDS Integers, FiniteSets

CONSTANTS
    Req,          \* slots: requests that may be in flight at once
    Handlers,     \* the handlers that run in this instance
    Store,
    Key,          \* keys that may ever be made
    Phone,        \* the customers' phones, in their local form
    External,     \* the partners' own order numbers
    Short,        \* of an External: what is left of it in 50 characters
    MaxOrders,    \* bound on imported orders
    MaxToggles    \* bound on suspensions and changes of a team

None == "none"    \* NULL

KeyHandlers == {"createStoreApiKey", "revokeStoreApiKey"}
ImportHandlers == {"createImportedCustomer", "createImportedAddress", "createImportedOrder"}
OwnHandlers == {"signUp", "updateProfile"}

ApiAssumption ==
    /\ Handlers \subseteq KeyHandlers \cup ImportHandlers \cup OwnHandlers
    /\ DOMAIN Short = External
    /\ None \notin Store \cup Key \cup Phone \cup External
    /\ MaxOrders \in Nat /\ MaxToggles \in Nat

VARIABLES
    approved,    \* the stores that are approved
    access,      \* the stores the makers of their keys still have access to
    keys,        \* store_api_keys
    customers,   \* customers, by phone
    addresses,   \* the customers with a saved address
    orders,      \* orders with source vendor_import
    closed,      \* keys revoked while no call was between its lookup and its save
    toggles,
    job          \* requests in flight

vars == <<approved, access, keys, customers, addresses, orders, closed, toggles, job>>

KeyRow == [store : Store \cup {None}, revoked : BOOLEAN]
Customer == [source : {"none", "platform", "vendor_import"}, store : Store \cup {None}, name : {"none", "own", "imported"}]
NoCustomer == [source |-> "none", store |-> None, name |-> "none"]

(* buildImportOrderNumber: a store's prefix and as much of the partner's   *)
(* number as fits. The prefix is the store's first 8 digits, taken to be   *)
(* its own.                                                                *)
buildImportOrderNumber(s, e) == <<s, Short[e]>>

OrderRow == [id : 1..MaxOrders, number : Store \X {Short[e] : e \in External}, line : Store,
             customer : Phone \cup {None}, address : BOOLEAN]

Idle == [at |-> "idle", op |-> None, k |-> None, s |-> None, p |-> None, e |-> None, v |-> None, row |-> NoCustomer]
Job == [at : {"idle", "lookup", "stamp", "enter", "resolve", "save", "insert", "revoke"},
        op : Handlers \cup {None}, k : Key \cup {None}, s : Store \cup {None}, p : Phone \cup {None},
        e : External \cup {None}, v : Store \cup {None}, row : Customer]

Init ==
    /\ approved = Store /\ access = Store
    /\ keys = [k \in Key |-> [store |-> None, revoked |-> FALSE]]
    /\ customers = [p \in Phone |-> NoCustomer]
    /\ addresses = {}
    /\ orders = {}
    /\ closed = {}
    /\ toggles = 0
    /\ job = [r \in Req |-> Idle]

Data == <<customers, addresses, orders>>
World == <<approved, access, toggles>>
Return(r) == job' = [job EXCEPT ![r] = Idle]
Goto(r, at) == job' = [job EXCEPT ![r].at = at]
Begin(r, op) == op \in Handlers /\ job[r].at = "idle"

-----------------------------------------------------------------------------
(* Keys                                                                    *)

(* create, after assertStoreManager.                                       *)
create(r, k, s) ==
    /\ Begin(r, "createStoreApiKey")
    /\ s \in access
    /\ keys[k].store = None
    /\ keys' = [keys EXCEPT ![k] = [store |-> s, revoked |-> FALSE]]
    /\ UNCHANGED <<World, Data, closed, job>>

(* revoke finds the key among those that are not revoked, then saves it.   *)
revoke(r, k) ==
    /\ Begin(r, "revokeStoreApiKey")
    /\ keys[k].store \in access
    /\ ~keys[k].revoked
    /\ job' = [job EXCEPT ![r] = [Idle EXCEPT !.at = "revoke", !.op = "revokeStoreApiKey", !.k = k]]
    /\ UNCHANGED <<World, Data, keys, closed>>

SaveRevoked(r) ==
    LET k == job[r].k
    IN
    /\ job[r].at = "revoke"
    /\ keys' = [keys EXCEPT ![k].revoked = TRUE]
    /\ closed' = IF \E q \in Req : job[q].at = "stamp" /\ job[q].k = k THEN closed ELSE closed \cup {k}
    /\ Return(r)
    /\ UNCHANGED <<World, Data>>

(* A call with its key, the store of its path and what it brings: a phone, *)
(* an order's number, the store whose product a line names.                *)
call(r, op, k, s, p, e, v) ==
    /\ Begin(r, op)
    /\ op \in ImportHandlers
    /\ job' = [job EXCEPT ![r] = [at |-> "lookup", op |-> op, k |-> k, s |-> s, p |-> p, e |-> e, v |-> v, row |-> NoCustomer]]
    /\ UNCHANGED <<World, Data, keys, closed>>

(* The keys verifyAndAuthenticate finds for a store.                       *)
Candidate(k, s) == keys[k].store = s /\ ~keys[k].revoked

(* The store must be approved, the key one of its own.                     *)
verifyAndAuthenticate(r) ==
    LET j == job[r]
    IN
    /\ j.at = "lookup"
    /\ \/ j.s \in approved /\ Candidate(j.k, j.s) /\ Goto(r, "stamp")
       \/ ~(j.s \in approved /\ Candidate(j.k, j.s)) /\ Return(r)
    /\ UNCHANGED <<World, Data, keys, closed>>

(* The key is saved with its lastUsedAt, and with the revokedAt that was   *)
(* loaded.                                                                 *)
StampKey(r) ==
    /\ job[r].at = "stamp"
    /\ keys' = [keys EXCEPT ![job[r].k].revoked = FALSE]
    /\ Goto(r, "enter")
    /\ UNCHANGED <<World, Data, closed>>

-----------------------------------------------------------------------------
(* Imports                                                                 *)

(* requireImportedCustomer: the customer was last imported by this store.  *)
requireImportedCustomer(s, p) == customers[p].source # "none" /\ customers[p].store = s

NumberIsFree(n) == \A o \in orders : o.number # n

(* assertStoreAccess of the key's maker, then the first check of the call: *)
(* the order's number is free, or the row of the phone is read.            *)
enter(r) ==
    LET j == job[r]
    IN
    /\ j.at = "enter"
    /\ \/ /\ j.s \in access
          /\ \/ /\ j.op = "createImportedCustomer"
                /\ job' = [job EXCEPT ![r].at = "save", ![r].row = customers[j.p]]
             \/ /\ j.op = "createImportedAddress"
                /\ requireImportedCustomer(j.s, j.p)
                /\ Goto(r, "save")
             \/ /\ j.op = "createImportedOrder"
                /\ NumberIsFree(buildImportOrderNumber(j.s, j.e))
                /\ Goto(r, "resolve")
       \/ /\ \/ j.s \notin access
             \/ j.op = "createImportedAddress" /\ ~requireImportedCustomer(j.s, j.p)
             \/ j.op = "createImportedOrder" /\ ~NumberIsFree(buildImportOrderNumber(j.s, j.e))
          /\ Return(r)
    /\ UNCHANGED <<World, Data, keys, closed>>

(* What createImportedCustomer saves of the row it found: the store is now *)
(* this one; a name is filled in, never replaced; who signed up by         *)
(* themselves stays the platform's.                                        *)
Upsert(found, s) ==
    [store |-> s,
     name |-> IF found.name = "none" THEN "imported" ELSE found.name,
     source |-> IF found.source = "platform" THEN "platform" ELSE "vendor_import"]

(* The index on phones refuses a second row of one.                        *)
SaveCustomer(r) ==
    LET j == job[r]
    IN
    /\ j.at = "save" /\ j.op = "createImportedCustomer"
    /\ \/ /\ j.row.source # "none" \/ customers[j.p].source = "none"
          /\ customers' = [customers EXCEPT ![j.p] = Upsert(j.row, j.s)]
       \/ j.row.source = "none" /\ customers[j.p].source # "none" /\ UNCHANGED customers
    /\ Return(r)
    /\ UNCHANGED <<World, keys, addresses, orders, closed>>

SaveAddress(r) ==
    /\ job[r].at = "save" /\ job[r].op = "createImportedAddress"
    /\ addresses' = addresses \cup {job[r].p}
    /\ Return(r)
    /\ UNCHANGED <<World, keys, customers, orders, closed>>

(* A line's product is looked for among the store's own.                   *)
resolveVariant(s, v) == v = s

(* The order's customer, if it names one, then its lines.                  *)
resolveOrder(r) ==
    LET j == job[r]
        fits == (j.p # None => requireImportedCustomer(j.s, j.p)) /\ resolveVariant(j.s, j.v)
    IN
    /\ j.at = "resolve"
    /\ \/ fits /\ Goto(r, "insert")
       \/ ~fits /\ Return(r)
    /\ UNCHANGED <<World, Data, keys, closed>>

(* Mutant: order numbers without a unique index.                           *)
AllowsAny(n) == TRUE

(* The unique index on order numbers.                                      *)
IndexAllows(n) == NumberIsFree(n)

(* One transaction: the order, delivered and paid, its lines and, if the   *)
(* customer has one, an address. No stock, payment or event. Whether the   *)
(* partner gets the answer does not show here: it may send the order again.*)
InsertOrder(r) ==
    LET j == job[r]
        n == buildImportOrderNumber(j.s, j.e)
    IN
    /\ j.at = "insert"
    /\ \/ /\ IndexAllows(n)
          /\ Cardinality(orders) < MaxOrders
          /\ orders' = orders \cup {[id |-> Cardinality(orders) + 1, number |-> n, line |-> j.v, customer |-> j.p,
                                     address |-> j.p \in addresses]}
       \/ ~IndexAllows(n) /\ UNCHANGED orders
    /\ Return(r)
    /\ UNCHANGED <<World, keys, customers, addresses, closed>>

listImportedOrders(s) == {o \in orders : o.line = s}

-----------------------------------------------------------------------------
(* A customer signs in with a phone for the first time, or gives a name.   *)
signUp(r, p) ==
    /\ Begin(r, "signUp")
    /\ customers[p].source = "none"
    /\ customers' = [customers EXCEPT ![p].source = "platform"]
    /\ UNCHANGED <<World, keys, addresses, orders, closed, job>>

updateProfile(r, p) ==
    /\ Begin(r, "updateProfile")
    /\ customers[p].source # "none"
    /\ customers' = [customers EXCEPT ![p].name = "own"]
    /\ UNCHANGED <<World, keys, addresses, orders, closed, job>>

(* A store is suspended or approved; who made its keys leaves or returns.  *)
Toggle(s) ==
    /\ toggles < MaxToggles
    /\ toggles' = toggles + 1
    /\ \/ approved' = (approved \ {s}) \cup ({s} \ approved) /\ UNCHANGED access
       \/ access' = (access \ {s}) \cup ({s} \ access) /\ UNCHANGED approved
    /\ UNCHANGED <<Data, keys, closed, job>>

Calls(r, k, s) ==
    \/ \E p \in Phone : call(r, "createImportedCustomer", k, s, p, None, None) \/ call(r, "createImportedAddress", k, s, p, None, None)
    \/ \E p \in Phone \cup {None}, e \in External, v \in Store : call(r, "createImportedOrder", k, s, p, e, v)

Next ==
    \/ \E r \in Req :
          \/ \E k \in Key : revoke(r, k) \/ \E s \in Store : create(r, k, s) \/ Calls(r, k, s)
          \/ \E p \in Phone : signUp(r, p) \/ updateProfile(r, p)
          \/ SaveRevoked(r) \/ verifyAndAuthenticate(r) \/ StampKey(r) \/ enter(r)
          \/ SaveCustomer(r) \/ SaveAddress(r) \/ resolveOrder(r) \/ InsertOrder(r)
    \/ \E s \in Store : Toggle(s)

Spec == Init /\ [][Next]_vars

-----------------------------------------------------------------------------
(* Properties                                                              *)

(* Every variable has its type.                                            *)
TypeOK ==
    /\ {approved, access} \subseteq SUBSET Store /\ addresses \subseteq Phone /\ closed \subseteq Key
    /\ keys \in [Key -> KeyRow]
    /\ customers \in [Phone -> Customer]
    /\ \A o \in orders : o \in OrderRow
    /\ toggles \in 0..MaxToggles
    /\ job \in [Req -> Job]

(* A revocation that met no call between its lookup and its save lasts: no *)
(* later call gets past its lookup or brings the key back.                 *)
RevokedKeysStayOut == \A k \in closed : keys[k].revoked /\ \A r \in Req : ~(job[r].at = "stamp" /\ job[r].k = k)

(* However often and with whatever overlap a partner sends an order, it is *)
(* in the shop once, as an order of the store that sent it alone.          *)
OneOrderPerNumber ==
    /\ \A o, q \in orders : o.number = q.number => o = q
    /\ \A s \in Store : \A o \in listImportedOrders(s) : o.number[1] = s

(* Whatever overlaps, an import never turns the customer who signed up     *)
(* into a vendor's.                                                        *)
SignedUpStays == \A p \in Phone : customers[p].source = "platform" => customers'[p].source = "platform"

(* One request at a time, the name a customer gave is not replaced.        *)
OwnNameStays == \A p \in Phone : customers[p].name = "own" => customers'[p].name = "own"
=============================================================================
