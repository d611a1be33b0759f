--------------------------- MODULE PublicApiProofs ---------------------------
(***************************************************************************)
(* What partners rely on, for any number of requests in flight, stores,    *)
(* keys, customers and orders: a revoked key stays out, an order is        *)
(* imported once and as the sender's own, and an import never takes a      *)
(* customer who signed up from the platform.                               *)
(*                                                                         *)
(* And the limit on their calls, for any limit, processes, lost            *)
(* connections and crashes: the last part is about RateLimiter, whose      *)
(* names it has as Limiter!x. WindowIsBounded is not inductive: the        *)
(* request that made the key is let through in a step of its own, after    *)
(* others may have been counted, and its window must not have ended        *)
(* meanwhile. LimiterInv says so.                                          *)
(***************************************************************************)
EXTENDS PublicApi, FiniteSetTheorems, TLAPS

Called == {"lookup", "stamp", "enter", "resolve", "save", "insert"}

(* A request in flight knows what its step needs: a call its key, its      *)
(* store and the rows it is about, an order to insert only own products, a *)
(* revocation a key that exists.                                           *)
JobKnows(j) ==
    /\ j.at \in Called =>
          /\ j.k \in Key /\ j.s \in Store /\ j.op \in ImportHandlers
          /\ j.op = "createImportedOrder" => j.e \in External /\ j.v \in Store
          /\ j.op # "createImportedOrder" => j.p \in Phone
    /\ j.at \in {"resolve", "insert"} => j.op = "createImportedOrder"
    /\ j.at = "save" => j.op # "createImportedOrder"
    /\ j.at = "insert" => j.v = j.s
    /\ j.at = "revoke" => j.k \in Key /\ keys[j.k].store # None

JobsKnow == \A r \in Req : JobKnows(job[r])

(* A key that was closed exists: no number is given to a key twice.        *)
ClosedExist == \A k \in closed : keys[k].store # None

(* Numbers are unique and begin with the store whose products the lines    *)
(* name.                                                                   *)
OrdersAreOwn ==
    /\ IsFiniteSet(orders)
    /\ \A o, q \in orders : o.number = q.number => o = q
    /\ \A o \in orders : o.number[1] = o.line

(* The row an import saves says of its customer's origin what the table    *)
(* says, unless it was none when it was loaded.                            *)
RowKnowsSource ==
    \A r \in Req : job[r].at = "save" /\ job[r].op = "createImportedCustomer" =>
       job[r].row.source \in {"none", customers[job[r].p].source}

ApiInv == TypeOK /\ JobsKnow /\ ClosedExist /\ RevokedKeysStayOut /\ OrdersAreOwn /\ RowKnowsSource

-----------------------------------------------------------------------------
(* An idle request is a well-formed job that knows all it needs.           *)
LEMMA IdleIsJob == Idle \in Job /\ JobKnows(Idle) /\ Idle.at = "idle"
  BY DEF Idle, Job, JobKnows, Called, NoCustomer, Customer, None

(* No row yet, and nothing in flight.                                      *)
LEMMA ApiInit == ASSUME ApiAssumption PROVE Init => ApiInv
<1> SUFFICES ASSUME Init PROVE ApiInv OBVIOUS
<1>1. TypeOK
  <2>1. job \in [Req -> Job] BY IdleIsJob DEF Init
  <2>2. keys \in [Key -> KeyRow] /\ customers \in [Phone -> Customer]
    BY DEF Init, KeyRow, Customer, NoCustomer
  <2>3. {approved, access} \subseteq SUBSET Store BY DEF Init
  <2>4. toggles \in 0..MaxToggles BY DEF Init, ApiAssumption
  <2> QED BY <2>1, <2>2, <2>3, <2>4 DEF Init, TypeOK
<1>2. JobsKnow /\ RowKnowsSource BY IdleIsJob DEF Init, JobsKnow, RowKnowsSource
<1>3. ClosedExist /\ RevokedKeysStayOut BY DEF Init, ClosedExist, RevokedKeysStayOut
<1>4. OrdersAreOwn BY FS_EmptySet DEF Init, OrdersAreOwn
<1> QED BY <1>1, <1>2, <1>3, <1>4 DEF ApiInv

(* A request that goes on to a job it knows enough for leaves the others   *)
(* alone.                                                                  *)
LEMMA JobGoesOn ==
  ASSUME TypeOK, JobsKnow, NEW r \in Req, NEW j \in Job, job' = [job EXCEPT ![r] = j],
         JobKnows(j), UNCHANGED keys
  PROVE  /\ job' \in [Req -> Job] /\ JobsKnow'
         /\ job'[r] = j /\ \A q \in Req \ {r} : job'[q] = job[q]
<1>1. job \in [Req -> Job] BY DEF TypeOK
<1>2. job'[r] = j /\ \A q \in Req \ {r} : job'[q] = job[q] BY <1>1
<1>3. job' \in [Req -> Job] BY <1>1
<1>4. \A q \in Req : JobKnows(job'[q])
  BY <1>2 DEF JobsKnow
<1>5. JobsKnow' BY <1>4 DEF JobsKnow, JobKnows
<1> QED BY <1>2, <1>3, <1>5

(* A request that only goes on keeps the invariant, if it takes no closed  *)
(* key to its save and the row it loaded is the customer's.                *)
LEMMA OnlyGoesOn ==
  ASSUME ApiInv, NEW r \in Req, NEW j \in Job, job' = [job EXCEPT ![r] = j], JobKnows(j),
         UNCHANGED <<World, Data, keys, closed>>,
         j.at = "stamp" => j.k \notin closed,
         j.at = "save" /\ j.op = "createImportedCustomer" =>
            j.row.source \in {"none", customers[j.p].source}
  PROVE  ApiInv'
<1>1. UNCHANGED <<approved, access, toggles, customers, addresses, orders, keys, closed>>
  BY DEF World, Data
<1>2. /\ job' \in [Req -> Job] /\ JobsKnow'
      /\ job'[r] = j /\ \A q \in Req \ {r} : job'[q] = job[q]
  BY <1>1, JobGoesOn DEF ApiInv
<1>3. TypeOK' BY <1>1, <1>2 DEF ApiInv, TypeOK
<1>4. ClosedExist' /\ RevokedKeysStayOut' /\ RowKnowsSource'
  BY <1>1, <1>2 DEF ApiInv, ClosedExist, RevokedKeysStayOut, RowKnowsSource
<1>5. OrdersAreOwn' BY <1>1 DEF ApiInv, OrdersAreOwn
<1> QED BY <1>2, <1>3, <1>4, <1>5 DEF ApiInv

(* create: only a number no key has.                                       *)
LEMMA CreateKeeps ==
  ASSUME ApiAssumption, ApiInv, NEW r \in Req, NEW k \in Key, NEW s \in Store, create(r, k, s)
  PROVE  ApiInv'
<1>1. /\ keys[k].store = None /\ keys' = [keys EXCEPT ![k] = [store |-> s, revoked |-> FALSE]]
      /\ UNCHANGED <<approved, access, toggles, customers, addresses, orders, closed, job>>
  BY DEF create, World, Data
<1>2. keys \in [Key -> KeyRow] /\ s # None BY DEF ApiInv, TypeOK, ApiAssumption
<1>3. keys' \in [Key -> KeyRow] BY <1>1, <1>2 DEF KeyRow
<1>4. TypeOK' BY <1>1, <1>3 DEF ApiInv, TypeOK
<1>5. JobsKnow' /\ RowKnowsSource' BY <1>1, <1>2 DEF ApiInv, JobsKnow, JobKnows, RowKnowsSource
<1>6. ClosedExist' /\ RevokedKeysStayOut'
  BY <1>1, <1>2 DEF ApiInv, TypeOK, ClosedExist, RevokedKeysStayOut
<1>7. OrdersAreOwn' BY <1>1 DEF ApiInv, OrdersAreOwn
<1> QED BY <1>4, <1>5, <1>6, <1>7 DEF ApiInv

(* revoke loads a key that exists.                                         *)
LEMMA RevokeKeeps ==
  ASSUME ApiAssumption, ApiInv, NEW r \in Req, NEW k \in Key, revoke(r, k)
  PROVE  ApiInv'
<1>1. PICK j : j = [Idle EXCEPT !.at = "revoke", !.op = "revokeStoreApiKey", !.k = k] OBVIOUS
<1>2. /\ job' = [job EXCEPT ![r] = j] /\ keys[k].store \in access
      /\ "revokeStoreApiKey" \in Handlers
      /\ UNCHANGED <<approved, access, toggles, customers, addresses, orders, keys, closed>>
  BY <1>1 DEF revoke, World, Data, Begin
<1>3. j \in Job /\ j.at = "revoke" /\ j.k = k
  BY <1>1, <1>2 DEF Idle, Job, NoCustomer, Customer, None
<1>4. JobKnows(j) BY <1>2, <1>3 DEF JobKnows, Called, ApiAssumption, ApiInv, TypeOK
<1> QED BY <1>2, <1>3, <1>4, OnlyGoesOn DEF World, Data

(* revoke saves: the key is out, for good if nobody holds a copy of it.    *)
LEMMA SaveRevokedKeeps ==
  ASSUME ApiAssumption, ApiInv, NEW r \in Req, SaveRevoked(r)
  PROVE  ApiInv'
<1>1. PICK k : k = job[r].k OBVIOUS
<1>2. /\ job[r].at = "revoke" /\ job' = [job EXCEPT ![r] = Idle]
      /\ keys' = [keys EXCEPT ![k].revoked = TRUE]
      /\ closed' = IF \E q \in Req : job[q].at = "stamp" /\ job[q].k = k THEN closed ELSE closed \cup {k}
      /\ UNCHANGED <<approved, access, toggles, customers, addresses, orders>>
  BY <1>1 DEF SaveRevoked, World, Data, Return
<1>3. k \in Key /\ keys[k].store # None /\ keys \in [Key -> KeyRow] /\ job \in [Req -> Job]
  BY <1>1, <1>2 DEF ApiInv, JobsKnow, JobKnows, TypeOK
<1>4. keys' \in [Key -> KeyRow] /\ \A h \in Key : keys'[h].store = keys[h].store
  BY <1>2, <1>3 DEF KeyRow
<1>5. job' \in [Req -> Job] /\ job'[r].at = "idle" /\ \A q \in Req \ {r} : job'[q] = job[q]
  BY <1>2, <1>3, IdleIsJob
<1>6. closed \subseteq Key /\ closed' \subseteq closed \cup {k} BY <1>2 DEF ApiInv, TypeOK
<1>7. TypeOK' BY <1>2, <1>3, <1>4, <1>5, <1>6 DEF ApiInv, TypeOK
<1>8. JobsKnow' BY <1>4, <1>5 DEF ApiInv, JobsKnow, JobKnows, Called
<1>9. RowKnowsSource' BY <1>2, <1>5 DEF ApiInv, RowKnowsSource
<1>10. ClosedExist' BY <1>3, <1>4, <1>6 DEF ApiInv, ClosedExist
<1>11. RevokedKeysStayOut'
  <2> SUFFICES ASSUME NEW h \in closed'
               PROVE  keys'[h].revoked /\ \A q \in Req : ~(job'[q].at = "stamp" /\ job'[q].k = h)
    BY DEF RevokedKeysStayOut
  <2>1. CASE h \in closed
    BY <1>2, <1>3, <1>5, <1>6, <2>1 DEF ApiInv, RevokedKeysStayOut, KeyRow
  <2>2. CASE h \notin closed
    <3>1. h = k /\ ~\E q \in Req : job[q].at = "stamp" /\ job[q].k = k BY <1>2, <2>2
    <3> QED BY <1>2, <1>3, <1>5, <3>1 DEF KeyRow
  <2> QED BY <2>1, <2>2
<1>12. OrdersAreOwn' BY <1>2 DEF ApiInv, OrdersAreOwn
<1> QED BY <1>7, <1>8, <1>9, <1>10, <1>11, <1>12 DEF ApiInv

(* A call arrives.                                                         *)
LEMMA CallKeeps ==
  ASSUME ApiAssumption, ApiInv, NEW r \in Req, NEW op, NEW k \in Key, NEW s \in Store,
         NEW p \in Phone \cup {None}, NEW e \in External \cup {None}, NEW v \in Store \cup {None},
         op = "createImportedOrder" => e \in External /\ v \in Store,
         op # "createImportedOrder" => p \in Phone,
         call(r, op, k, s, p, e, v)
  PROVE  ApiInv'
<1>1. PICK j : j = [at |-> "lookup", op |-> op, k |-> k, s |-> s, p |-> p, e |-> e, v |-> v,
                    row |-> NoCustomer]
  OBVIOUS
<1>2. /\ job' = [job EXCEPT ![r] = j] /\ op \in Handlers /\ op \in ImportHandlers
      /\ UNCHANGED <<World, Data, keys, closed>>
  BY <1>1 DEF call, Begin
<1>3. j \in Job BY <1>1, <1>2 DEF Job, NoCustomer, Customer, None
<1>4. JobKnows(j) /\ j.at = "lookup" BY <1>1, <1>2 DEF JobKnows, Called
<1> QED BY <1>2, <1>3, <1>4, OnlyGoesOn

(* Returning, from wherever.                                               *)
LEMMA ReturnKeeps ==
  ASSUME ApiInv, NEW r \in Req, Return(r), UNCHANGED <<World, Data, keys, closed>>
  PROVE  ApiInv'
<1>1. PICK j : j = Idle OBVIOUS
<1>2. job' = [job EXCEPT ![r] = j] BY <1>1 DEF Return
<1>3. j \in Job /\ JobKnows(j) /\ j.at = "idle" BY <1>1, IdleIsJob
<1> QED BY <1>2, <1>3, OnlyGoesOn

(* verifyAndAuthenticate lets a call on only with a key that is not        *)
(* revoked, so with none that is closed.                                   *)
LEMMA VerifyKeeps ==
  ASSUME ApiAssumption, ApiInv, NEW r \in Req, verifyAndAuthenticate(r)
  PROVE  ApiInv'
<1>1. job[r].at = "lookup" /\ UNCHANGED <<World, Data, keys, closed>>
  BY DEF verifyAndAuthenticate
<1>2. CASE job[r].s \in approved /\ Candidate(job[r].k, job[r].s)
  <2>1. PICK j : j = [job[r] EXCEPT !.at = "stamp"] OBVIOUS
  <2>2. job[r] \in Job /\ JobKnows(job[r]) BY DEF ApiInv, TypeOK, JobsKnow
  <2>3. job' = [job EXCEPT ![r] = j]
    BY <1>2, <2>1 DEF verifyAndAuthenticate, Goto, Return, ApiInv, TypeOK
  <2>4. j \in Job /\ j.at = "stamp" /\ j.k = job[r].k BY <2>1, <2>2 DEF Job
  <2>5. JobKnows(j) BY <1>1, <2>1, <2>2 DEF JobKnows, Called, Job
  <2>6. j.k \notin closed BY <1>2, <2>4 DEF Candidate, ApiInv, RevokedKeysStayOut
  <2> QED BY <1>1, <2>3, <2>4, <2>5, <2>6, OnlyGoesOn
<1>3. CASE ~(job[r].s \in approved /\ Candidate(job[r].k, job[r].s))
  BY <1>1, <1>3, ReturnKeeps DEF verifyAndAuthenticate
<1> QED BY <1>2, <1>3

(* StampKey saves a key it took while it was not closed.                   *)
LEMMA StampKeeps ==
  ASSUME ApiAssumption, ApiInv, NEW r \in Req, StampKey(r)
  PROVE  ApiInv'
<1>1. PICK k : k = job[r].k OBVIOUS
<1>2. PICK j : j = [job[r] EXCEPT !.at = "enter"] OBVIOUS
<1>3. /\ job[r].at = "stamp" /\ job' = [job EXCEPT ![r] = j]
      /\ keys' = [keys EXCEPT ![k].revoked = FALSE]
      /\ UNCHANGED <<approved, access, toggles, customers, addresses, orders, closed>>
  BY <1>1, <1>2 DEF StampKey, World, Data, Goto, ApiInv, TypeOK
<1>4. job \in [Req -> Job] /\ JobKnows(job[r]) /\ keys \in [Key -> KeyRow] /\ k \notin closed
  BY <1>1, <1>3 DEF ApiInv, TypeOK, JobsKnow, RevokedKeysStayOut
<1>5. k \in Key /\ j \in Job /\ j.at = "enter" BY <1>1, <1>2, <1>3, <1>4 DEF JobKnows, Called, Job
<1>6. keys' \in [Key -> KeyRow] /\ \A h \in Key : keys'[h].store = keys[h].store
  BY <1>3, <1>4, <1>5 DEF KeyRow
<1>7. \A h \in Key \ {k} : keys'[h] = keys[h] BY <1>3, <1>4, <1>5
<1>8. JobKnows(j) BY <1>2, <1>3, <1>4 DEF JobKnows, Called, Job
<1>9. job' \in [Req -> Job] /\ job'[r] = j /\ \A q \in Req \ {r} : job'[q] = job[q]
  BY <1>3, <1>4, <1>5
<1>10. TypeOK' BY <1>3, <1>6, <1>9 DEF ApiInv, TypeOK
<1>11. JobsKnow' BY <1>6, <1>8, <1>9 DEF ApiInv, JobsKnow, JobKnows, Called
<1>12. RowKnowsSource' BY <1>3, <1>5, <1>9 DEF ApiInv, RowKnowsSource
<1>13. ClosedExist' BY <1>3, <1>6 DEF ApiInv, TypeOK, ClosedExist
<1>14. RevokedKeysStayOut'
  BY <1>3, <1>4, <1>5, <1>7, <1>9 DEF ApiInv, TypeOK, RevokedKeysStayOut
<1>15. OrdersAreOwn' BY <1>3 DEF ApiInv, OrdersAreOwn
<1> QED BY <1>10, <1>11, <1>12, <1>13, <1>14, <1>15 DEF ApiInv

(* enter returns, or goes on with what it read.                            *)
LEMMA EnterKeeps ==
  ASSUME ApiAssumption, ApiInv, NEW r \in Req, enter(r)
  PROVE  ApiInv'
<1>1. job[r].at = "enter" /\ UNCHANGED <<World, Data, keys, closed>> BY DEF enter
<1>2. /\ job \in [Req -> Job] /\ job[r] \in Job /\ JobKnows(job[r])
      /\ customers \in [Phone -> Customer]
  BY DEF ApiInv, TypeOK, JobsKnow
<1>3. ASSUME Return(r) PROVE ApiInv' BY <1>1, <1>3, ReturnKeeps
<1>4. ASSUME job[r].op = "createImportedCustomer",
             job' = [job EXCEPT ![r].at = "save", ![r].row = customers[job[r].p]]
      PROVE  ApiInv'
  <2>1. job[r].p \in Phone BY <1>1, <1>2, <1>4 DEF JobKnows, Called
  <2>2. PICK c : c = customers[job[r].p] OBVIOUS
  <2>3. PICK j : j = [job[r] EXCEPT !.at = "save", !.row = c] OBVIOUS
  <2>4. job' = [job EXCEPT ![r] = j] BY <1>2, <1>4, <2>2, <2>3
  <2>5. c \in Customer BY <1>2, <2>1, <2>2
  <2>6. j \in Job /\ j.at = "save" /\ j.op = job[r].op /\ j.p = job[r].p /\ j.row = c
    BY <1>2, <2>3, <2>5 DEF Job
  <2>7. JobKnows(j) BY <1>1, <1>2, <1>4, <2>3 DEF JobKnows, Called, Job
  <2> QED BY <1>1, <2>2, <2>4, <2>6, <2>7, OnlyGoesOn
<1>5. ASSUME job[r].op = "createImportedAddress", Goto(r, "save") PROVE ApiInv'
  <2>1. PICK j : j = [job[r] EXCEPT !.at = "save"] OBVIOUS
  <2>2. job' = [job EXCEPT ![r] = j] BY <1>2, <1>5, <2>1 DEF Goto
  <2>3. j \in Job /\ j.at = "save" /\ j.op = job[r].op BY <1>2, <2>1 DEF Job
  <2>4. JobKnows(j) BY <1>1, <1>2, <1>5, <2>1 DEF JobKnows, Called, Job
  <2> QED BY <1>1, <1>5, <2>2, <2>3, <2>4, OnlyGoesOn
<1>6. ASSUME job[r].op = "createImportedOrder", Goto(r, "resolve") PROVE ApiInv'
  <2>1. PICK j : j = [job[r] EXCEPT !.at = "resolve"] OBVIOUS
  <2>2. job' = [job EXCEPT ![r] = j] BY <1>2, <1>6, <2>1 DEF Goto
  <2>3. j \in Job /\ j.at = "resolve" BY <1>2, <2>1 DEF Job
  <2>4. JobKnows(j) BY <1>1, <1>2, <1>6, <2>1 DEF JobKnows, Called, Job
  <2> QED BY <1>1, <2>2, <2>3, <2>4, OnlyGoesOn
<1> QED BY <1>3, <1>4, <1>5, <1>6 DEF enter

(* resolveOrder goes on with the store's own products only.                *)
LEMMA ResolveKeeps ==
  ASSUME ApiAssumption, ApiInv, NEW r \in Req, resolveOrder(r)
  PROVE  ApiInv'
<1>1. job[r].at = "resolve" /\ UNCHANGED <<World, Data, keys, closed>> BY DEF resolveOrder
<1>2. job \in [Req -> Job] /\ job[r] \in Job /\ JobKnows(job[r])
  BY DEF ApiInv, TypeOK, JobsKnow
<1>3. ASSUME Return(r) PROVE ApiInv' BY <1>1, <1>3, ReturnKeeps
<1>4. ASSUME resolveVariant(job[r].s, job[r].v), Goto(r, "insert") PROVE ApiInv'
  <2>1. PICK j : j = [job[r] EXCEPT !.at = "insert"] OBVIOUS
  <2>2. job' = [job EXCEPT ![r] = j] BY <1>2, <1>4, <2>1 DEF Goto
  <2>3. j \in Job /\ j.at = "insert" BY <1>2, <2>1 DEF Job
  <2>4. JobKnows(j) BY <1>1, <1>2, <1>4, <2>1 DEF JobKnows, Called, Job, resolveVariant
  <2> QED BY <1>1, <2>2, <2>3, <2>4, OnlyGoesOn
<1> QED BY <1>3, <1>4 DEF resolveOrder

(* A step on the customers alone keeps the rest; that no row's origin was  *)
(* changed once it had one is what a row in flight relies on.              *)
LEMMA CustomersMove ==
  ASSUME ApiInv, customers' \in [Phone -> Customer], job' \in [Req -> Job],
         \A q \in Req : job'[q] = job[q] \/ job'[q] = Idle,
         \A p \in Phone : customers[p].source # "none" => customers'[p].source = customers[p].source,
         UNCHANGED <<World, keys, addresses, orders, closed>>
  PROVE  ApiInv'
<1>1. UNCHANGED <<approved, access, toggles>> BY DEF World
<1>2. TypeOK' BY <1>1 DEF ApiInv, TypeOK
<1>3. \A q \in Req : job'[q] = job[q] \/ job'[q].at = "idle" BY IdleIsJob
<1>4. JobsKnow' BY <1>3 DEF ApiInv, JobsKnow, JobKnows, Called
<1>5. ClosedExist' /\ RevokedKeysStayOut' BY <1>3 DEF ApiInv, ClosedExist, RevokedKeysStayOut
<1>6. RowKnowsSource'
  <2> SUFFICES ASSUME NEW q \in Req, job'[q].at = "save", job'[q].op = "createImportedCustomer"
               PROVE  job'[q].row.source \in {"none", customers'[job'[q].p].source}
    BY DEF RowKnowsSource
  <2>1. job'[q] = job[q] BY <1>3
  <2>2. job[q].p \in Phone BY <2>1 DEF ApiInv, JobsKnow, JobKnows, Called
  <2>3. job[q].row.source \in {"none", customers[job[q].p].source}
    BY <2>1 DEF ApiInv, RowKnowsSource
  <2> QED BY <2>1, <2>2, <2>3
<1>7. OrdersAreOwn' BY DEF ApiInv, OrdersAreOwn
<1> QED BY <1>2, <1>4, <1>5, <1>6, <1>7 DEF ApiInv

(* What createImportedCustomer writes keeps the origin of a customer who   *)
(* has one.                                                                *)
LEMMA SaveCustomerKeeps ==
  ASSUME ApiAssumption, ApiInv, NEW r \in Req, SaveCustomer(r)
  PROVE  /\ ApiInv'
         /\ \A p \in Phone : customers[p].source # "none" => customers'[p].source = customers[p].source
<1>1. PICK p : p = job[r].p OBVIOUS
<1>2. PICK u : u = Upsert(job[r].row, job[r].s) OBVIOUS
<1>3. /\ job[r].at = "save" /\ job[r].op = "createImportedCustomer"
      /\ job' = [job EXCEPT ![r] = Idle] /\ UNCHANGED <<World, keys, addresses, orders, closed>>
  BY DEF SaveCustomer, Return
<1>4. /\ job \in [Req -> Job] /\ job[r] \in Job /\ JobKnows(job[r])
      /\ customers \in [Phone -> Customer]
  BY DEF ApiInv, TypeOK, JobsKnow
<1>5. p \in Phone /\ job[r].s \in Store BY <1>1, <1>3, <1>4 DEF JobKnows, Called
<1>6. u \in Customer /\ u.source = (IF job[r].row.source = "platform" THEN "platform" ELSE "vendor_import")
  BY <1>2, <1>4, <1>5 DEF Upsert, Customer, Job
<1>7. job[r].row.source \in {"none", customers[p].source} BY <1>1, <1>3 DEF ApiInv, RowKnowsSource
<1>8. job' \in [Req -> Job] /\ \A q \in Req : job'[q] = job[q] \/ job'[q] = Idle
  BY <1>3, <1>4, IdleIsJob
<1>9. CASE /\ job[r].row.source # "none" \/ customers[p].source = "none"
           /\ customers' = [customers EXCEPT ![p] = u]
  <2>1. customers' \in [Phone -> Customer] BY <1>4, <1>6, <1>9
  <2>2. customers[p].source # "none" => u.source = customers[p].source
    BY <1>4, <1>5, <1>6, <1>7, <1>9 DEF Customer
  <2>3. \A t \in Phone : customers[t].source # "none" => customers'[t].source = customers[t].source
    BY <1>4, <1>5, <1>9, <2>2
  <2> QED BY <1>3, <1>8, <2>1, <2>3, CustomersMove
<1>10. CASE UNCHANGED customers
  BY <1>3, <1>4, <1>8, <1>10, CustomersMove
<1> QED BY <1>1, <1>2, <1>9, <1>10 DEF SaveCustomer

(* A customer signs up, or gives a name: the origin of a known one stays.  *)
LEMMA SignUpKeeps ==
  ASSUME ApiAssumption, ApiInv, NEW r \in Req, NEW p \in Phone, signUp(r, p) \/ updateProfile(r, p)
  PROVE  /\ ApiInv'
         /\ \A t \in Phone : customers[t].source # "none" => customers'[t].source = customers[t].source
<1>1. UNCHANGED <<World, keys, addresses, orders, closed, job>> BY DEF signUp, updateProfile
<1>2. customers \in [Phone -> Customer] /\ job \in [Req -> Job] BY DEF ApiInv, TypeOK
<1>3. /\ customers' \in [Phone -> Customer]
      /\ \A t \in Phone : customers[t].source # "none" => customers'[t].source = customers[t].source
  BY <1>2 DEF signUp, updateProfile, Customer
<1> QED BY <1>1, <1>2, <1>3, CustomersMove

(* createImportedAddress adds an address.                                  *)
LEMMA SaveAddressKeeps ==
  ASSUME ApiAssumption, ApiInv, NEW r \in Req, SaveAddress(r)
  PROVE  ApiInv'
<1>1. /\ job[r].at = "save" /\ job[r].op = "createImportedAddress"
      /\ addresses' = addresses \cup {job[r].p} /\ job' = [job EXCEPT ![r] = Idle]
      /\ UNCHANGED <<approved, access, toggles, keys, customers, orders, closed>>
  BY DEF SaveAddress, Return, World
<1>2. job \in [Req -> Job] /\ job[r].p \in Phone
  BY <1>1 DEF ApiInv, TypeOK, JobsKnow, JobKnows, Called
<1>3. job' \in [Req -> Job] /\ \A q \in Req : job'[q] = job[q] \/ job'[q].at = "idle"
  BY <1>1, <1>2, IdleIsJob
<1>4. TypeOK' BY <1>1, <1>2, <1>3 DEF ApiInv, TypeOK
<1>5. JobsKnow' BY <1>1, <1>3 DEF ApiInv, JobsKnow, JobKnows, Called
<1>6. ClosedExist' /\ RevokedKeysStayOut' /\ RowKnowsSource'
  BY <1>1, <1>3 DEF ApiInv, ClosedExist, RevokedKeysStayOut, RowKnowsSource
<1>7. OrdersAreOwn' BY <1>1 DEF ApiInv, OrdersAreOwn
<1> QED BY <1>4, <1>5, <1>6, <1>7 DEF ApiInv

(* The index lets in a number that is free, with the lines of its store.   *)
LEMMA InsertKeeps ==
  ASSUME ApiAssumption, ApiInv, NEW r \in Req, InsertOrder(r)
  PROVE  ApiInv'
<1>1. PICK n : n = buildImportOrderNumber(job[r].s, job[r].e) OBVIOUS
<1>2. PICK o : o = [id |-> Cardinality(orders) + 1, number |-> n, line |-> job[r].v,
                    customer |-> job[r].p, address |-> job[r].p \in addresses]
  OBVIOUS
<1>3. /\ job[r].at = "insert" /\ job' = [job EXCEPT ![r] = Idle]
      /\ UNCHANGED <<approved, access, toggles, keys, customers, addresses, closed>>
      /\ \/ NumberIsFree(n) /\ Cardinality(orders) < MaxOrders /\ orders' = orders \cup {o}
         \/ UNCHANGED orders
  BY <1>1, <1>2 DEF InsertOrder, Return, World, IndexAllows
<1>4. /\ job \in [Req -> Job] /\ job[r] \in Job /\ job[r].s \in Store /\ job[r].v = job[r].s
      /\ job[r].e \in External
  BY <1>3 DEF ApiInv, TypeOK, JobsKnow, JobKnows, Called
<1>5. job' \in [Req -> Job] /\ \A q \in Req : job'[q] = job[q] \/ job'[q].at = "idle"
  BY <1>3, <1>4, IdleIsJob
<1>6. n = <<job[r].s, Short[job[r].e]>> BY <1>1 DEF buildImportOrderNumber
<1>7. o.number = n /\ o.line = job[r].v /\ n[1] = job[r].s BY <1>2, <1>6
<1>8. ASSUME Cardinality(orders) < MaxOrders PROVE o \in OrderRow
  <2>1. Cardinality(orders) \in Nat BY FS_CardinalityType DEF ApiInv, OrdersAreOwn
  <2>2. Cardinality(orders) + 1 \in 1..MaxOrders BY <1>8, <2>1 DEF ApiAssumption
  <2>3. n \in Store \X {Short[e] : e \in External} BY <1>4, <1>6
  <2>4. job[r].p \in Phone \cup {None} BY <1>4 DEF Job
  <2> HIDE DEF None
  <2> QED BY <1>2, <1>4, <2>2, <2>3, <2>4 DEF OrderRow
<1>9. TypeOK' BY <1>3, <1>5, <1>8 DEF ApiInv, TypeOK
<1>10. JobsKnow' BY <1>3, <1>5 DEF ApiInv, JobsKnow, JobKnows, Called
<1>11. ClosedExist' /\ RevokedKeysStayOut' /\ RowKnowsSource'
  BY <1>3, <1>5 DEF ApiInv, ClosedExist, RevokedKeysStayOut, RowKnowsSource
<1>12. OrdersAreOwn'
  <2>1. CASE NumberIsFree(n) /\ orders' = orders \cup {o}
    <3>1. IsFiniteSet(orders') BY <2>1, FS_AddElement DEF ApiInv, OrdersAreOwn
    <3>2. \A q \in orders : q.number # o.number BY <1>7, <2>1 DEF NumberIsFree
    <3>3. \A a, b \in orders' : a.number = b.number => a = b
      BY <2>1, <3>2 DEF ApiInv, OrdersAreOwn
    <3>4. \A a \in orders' : a.number[1] = a.line
      BY <1>4, <1>7, <2>1 DEF ApiInv, OrdersAreOwn
    <3> QED BY <3>1, <3>3, <3>4 DEF OrdersAreOwn
  <2>2. CASE UNCHANGED orders BY <2>2 DEF ApiInv, OrdersAreOwn
  <2> QED BY <1>3, <2>1, <2>2
<1> QED BY <1>9, <1>10, <1>11, <1>12 DEF ApiInv

(* A store is suspended or approved, a team changes.                       *)
LEMMA ToggleKeeps ==
  ASSUME ApiAssumption, ApiInv, NEW s \in Store, Toggle(s)
  PROVE  ApiInv'
<1>1. UNCHANGED <<customers, addresses, orders, keys, closed, job>> BY DEF Toggle, Data
<1>2. approved \subseteq Store /\ access \subseteq Store /\ toggles \in 0..MaxToggles
  BY DEF ApiInv, TypeOK
<1>3. approved' \subseteq Store /\ access' \subseteq Store BY <1>2 DEF Toggle
<1>4. toggles' \in 0..MaxToggles BY <1>2 DEF Toggle, ApiAssumption
<1>5. TypeOK' BY <1>1, <1>3, <1>4 DEF ApiInv, TypeOK
<1>6. JobsKnow' /\ ClosedExist' /\ RevokedKeysStayOut' /\ RowKnowsSource'
  BY <1>1 DEF ApiInv, JobsKnow, JobKnows, ClosedExist, RevokedKeysStayOut, RowKnowsSource
<1>7. OrdersAreOwn' BY <1>1 DEF ApiInv, OrdersAreOwn
<1> QED BY <1>5, <1>6, <1>7 DEF ApiInv

(* Every step keeps the invariant, and the origin of every customer who    *)
(* has one.                                                                *)
LEMMA ApiNext ==
  ASSUME ApiAssumption, ApiInv, [Next]_vars
  PROVE  /\ ApiInv'
         /\ \A t \in Phone : customers[t].source # "none" => customers'[t].source = customers[t].source
<1> DEFINE OriginStays ==
      \A t \in Phone : customers[t].source # "none" => customers'[t].source = customers[t].source
<1>1. ASSUME NEW r \in Req, NEW k \in Key, revoke(r, k) PROVE ApiInv' /\ OriginStays
  BY <1>1, RevokeKeeps DEF revoke, Data
<1>2. ASSUME NEW r \in Req, NEW k \in Key, NEW s \in Store, create(r, k, s)
      PROVE  ApiInv' /\ OriginStays
  BY <1>2, CreateKeeps DEF create, Data
<1>3. ASSUME NEW r \in Req, NEW k \in Key, NEW s \in Store, Calls(r, k, s)
      PROVE  ApiInv' /\ OriginStays
  <2>1. ASSUME NEW p \in Phone,
               \/ call(r, "createImportedCustomer", k, s, p, None, None)
               \/ call(r, "createImportedAddress", k, s, p, None, None)
        PROVE  ApiInv' /\ OriginStays
    <3>1. UNCHANGED customers BY <2>1 DEF call, Data
    <3>2. CASE call(r, "createImportedCustomer", k, s, p, None, None) BY <3>1, <3>2, CallKeeps
    <3>3. CASE call(r, "createImportedAddress", k, s, p, None, None) BY <3>1, <3>3, CallKeeps
    <3> QED BY <2>1, <3>2, <3>3
  <2>2. ASSUME NEW p \in Phone \cup {None}, NEW e \in External, NEW v \in Store,
               call(r, "createImportedOrder", k, s, p, e, v)
        PROVE  ApiInv' /\ OriginStays
    BY <2>2, CallKeeps DEF call, Data
  <2> QED BY <1>3, <2>1, <2>2 DEF Calls
<1>4. ASSUME NEW r \in Req, NEW p \in Phone, signUp(r, p) \/ updateProfile(r, p)
      PROVE  ApiInv' /\ OriginStays
  BY <1>4, SignUpKeeps
<1>5. ASSUME NEW r \in Req,
             \/ SaveRevoked(r) \/ verifyAndAuthenticate(r) \/ StampKey(r) \/ enter(r)
             \/ SaveAddress(r) \/ resolveOrder(r) \/ InsertOrder(r)
      PROVE  ApiInv' /\ OriginStays
  <2>1. UNCHANGED customers
    BY <1>5 DEF SaveRevoked, verifyAndAuthenticate, StampKey, enter, SaveAddress, resolveOrder,
         InsertOrder, Data
  <2>2. ApiInv'
    BY <1>5, SaveRevokedKeeps, VerifyKeeps, StampKeeps, EnterKeeps, SaveAddressKeeps, ResolveKeeps,
         InsertKeeps
  <2> QED BY <2>1, <2>2
<1>6. ASSUME NEW r \in Req, SaveCustomer(r) PROVE ApiInv' /\ OriginStays
  BY <1>6, SaveCustomerKeeps
<1>7. ASSUME NEW s \in Store, Toggle(s) PROVE ApiInv' /\ OriginStays
  BY <1>7, ToggleKeeps DEF Toggle, Data
<1>8. ASSUME UNCHANGED vars PROVE ApiInv' /\ OriginStays
  BY <1>8 DEF vars, ApiInv, TypeOK, JobsKnow, JobKnows, ClosedExist, RevokedKeysStayOut,
       RowKnowsSource, OrdersAreOwn
<1> QED BY <1>1, <1>2, <1>3, <1>4, <1>5, <1>6, <1>7, <1>8 DEF Next

(* The invariant gives what partners rely on.                              *)
LEMMA ApiServes == ASSUME ApiInv PROVE OneOrderPerNumber
  BY DEF ApiInv, OrdersAreOwn, OneOrderPerNumber, listImportedOrders

-----------------------------------------------------------------------------
(* However many calls overlap: a key that was revoked while no call was    *)
(* between its lookup and its save lets no call in again.                  *)
THEOREM RevocationLasts == ASSUME ApiAssumption PROVE Spec => []RevokedKeysStayOut
<1>1. Init => ApiInv BY ApiInit
<1>2. ApiInv /\ [Next]_vars => ApiInv' BY ApiNext
<1>3. ApiInv => RevokedKeysStayOut BY DEF ApiInv
<1> QED BY <1>1, <1>2, <1>3, PTL DEF Spec

(* However many calls bring one order, and however they overlap, it is     *)
(* imported once, as an order of the store that sent it.                   *)
THEOREM ImportedOnce == ASSUME ApiAssumption PROVE Spec => []OneOrderPerNumber
<1>1. Init => ApiInv BY ApiInit
<1>2. ApiInv /\ [Next]_vars => ApiInv' BY ApiNext
<1>3. ApiInv => OneOrderPerNumber BY ApiServes
<1> QED BY <1>1, <1>2, <1>3, PTL DEF Spec

(* No import, however late it saves the row it loaded, makes a vendor's of *)
(* a customer who signed up.                                               *)
THEOREM SignUpLasts == ASSUME ApiAssumption PROVE Spec => [][SignedUpStays]_vars
<1>1. Init => ApiInv BY ApiInit
<1>2. ApiInv /\ [Next]_vars => ApiInv' BY ApiNext
<1>3. ApiInv /\ [Next]_vars => [SignedUpStays]_vars BY ApiNext DEF SignedUpStays
<1> QED BY <1>1, <1>2, <1>3, PTL DEF Spec

-----------------------------------------------------------------------------
(* The limit on partners' calls, and on signing in: RateLimiter is a       *)
(* component of its own, and job is here its requests in flight.           *)

CONSTANTS Proc, Limit, MemLimit, MaxCalls, MaxFaults
VARIABLES available, counter, bucket, passed, early, faults

Limiter == INSTANCE RateLimiter

(* What passed has its type.                                               *)
PassedTypeOK == passed \in [redis : Nat, memory : [Proc -> Nat]]

(* A process lets through what it counts.                                  *)
BucketsCount == passed.memory = bucket

(* What Redis' window let through was counted, within the limit; only a    *)
(* key that exists expires.                                                *)
KeyCounts ==
    /\ passed.redis <= counter.count /\ passed.redis <= Limit
    /\ counter.expires => counter.count > 0

(* One request at most is about to give the key its time to live: it has   *)
(* none yet, so its window cannot end, and that request is counted but not *)
(* yet let through.                                                        *)
OneMadeTheKey ==
    /\ \A r, s \in Req : job[r].at = "expire" /\ job[s].at = "expire" => r = s
    /\ \A r \in Req : job[r].at = "expire" =>
          ~counter.expires /\ passed.redis < counter.count /\ passed.redis < Limit

LimiterInv == Limiter!TypeOK /\ PassedTypeOK /\ BucketsCount /\ KeyCounts /\ OneMadeTheKey /\ ~early

-----------------------------------------------------------------------------
(* The first window is empty.                                              *)
LEMMA LimiterInit == ASSUME Limiter!LimiterAssumption PROVE Limiter!Init => LimiterInv
<1> SUFFICES ASSUME Limiter!Init PROVE LimiterInv OBVIOUS
<1>0. MaxCalls \in Nat /\ MemLimit \in Nat /\ MaxFaults \in Nat
  BY DEF Limiter!LimiterAssumption
<1>1. Limiter!TypeOK
  <2>1. bucket \in [Proc -> 0..MemLimit]
    BY <1>0 DEF Limiter!Init
  <2>4. available \in [Proc -> BOOLEAN] /\ early \in BOOLEAN
    BY Zenon DEF Limiter!Init
  <2>2. counter \in [count : 0..MaxCalls, expires : BOOLEAN] /\ faults \in 0..MaxFaults
    BY <1>0 DEF Limiter!Init, Limiter!NoKey
  <2>3. job \in [Req -> [at : {"idle", "incr", "expire"}, p : Proc \cup {"none"}]]
    BY DEF Limiter!Init, Limiter!Idle
  <2> QED BY <2>1, <2>2, <2>3, <2>4 DEF Limiter!TypeOK
<1>2. PassedTypeOK /\ BucketsCount /\ ~early
  BY DEF Limiter!Init, PassedTypeOK, BucketsCount
<1>3. KeyCounts /\ OneMadeTheKey
  BY DEF Limiter!LimiterAssumption, Limiter!Init, KeyCounts, OneMadeTheKey,
       Limiter!NoKey, Limiter!Idle
<1> QED BY <1>1, <1>2, <1>3 DEF LimiterInv

(* The invariant bounds every window.                                      *)
LEMMA LimiterBounds == ASSUME Limiter!LimiterAssumption, LimiterInv PROVE Limiter!WindowIsBounded
<1>1. \A p \in Proc : bucket[p] <= MemLimit
  BY DEF LimiterInv, Limiter!TypeOK, Limiter!LimiterAssumption
<1>2. passed.memory = bucket BY DEF LimiterInv, BucketsCount
<1>3. \A p \in Proc : passed.memory[p] <= MemLimit BY ONLY <1>1, <1>2
<1> QED BY <1>3 DEF LimiterInv, KeyCounts, Limiter!WindowIsBounded

(* Every step, of a request, of the clock or of a failing process, keeps   *)
(* the invariant.                                                          *)
LEMMA LimiterNext ==
  ASSUME Limiter!LimiterAssumption, LimiterInv, [Limiter!Next]_(Limiter!vars)
  PROVE  LimiterInv'
<1> USE DEF Limiter!LimiterAssumption
<1> DEFINE Goal == LimiterInv'
<1>1. ASSUME NEW r \in Req, NEW p \in Proc, Limiter!canActivate(r, p) PROVE Goal
  <2>1. CASE available[p]
    <3>1. /\ job' = [job EXCEPT ![r] = [at |-> "incr", p |-> p]]
          /\ UNCHANGED <<bucket, passed, early, available, counter, faults>>
      BY <1>1, <2>1 DEF Limiter!canActivate
    <3> QED
      BY <3>1 DEF LimiterInv, Limiter!TypeOK, PassedTypeOK, BucketsCount, KeyCounts, OneMadeTheKey
  <2>2. CASE ~available[p]
    <3>1. Limiter!enforceInMemoryLimit(p) /\ UNCHANGED <<job, available, counter, faults>>
      BY <1>1, <2>2 DEF Limiter!canActivate
    <3> QED
      BY <3>1 DEF Limiter!enforceInMemoryLimit, Limiter!OverMemLimit, LimiterInv,
           Limiter!TypeOK, PassedTypeOK, BucketsCount, KeyCounts, OneMadeTheKey
  <2> QED BY <2>1, <2>2
<1>2. ASSUME NEW r \in Req, Limiter!incr(r) PROVE Goal
  <2>1. /\ counter.count \in Nat /\ passed.redis \in Nat /\ passed.redis <= counter.count
        /\ passed.redis <= Limit
    BY DEF LimiterInv, Limiter!TypeOK, PassedTypeOK, KeyCounts
  <2>2. /\ counter' = [counter EXCEPT !.count = counter.count + 1]
        /\ counter.count + 1 <= MaxCalls
        /\ UNCHANGED <<available, bucket, faults>>
    BY <1>2 DEF Limiter!incr
  <2>3. CASE counter.count = 0
    <3>1. job' = [job EXCEPT ![r].at = "expire"] /\ UNCHANGED <<passed, early>>
      BY <1>2, <2>3 DEF Limiter!incr
    <3>2. \A s \in Req : job[s].at # "expire"
      BY <2>1, <2>3 DEF LimiterInv, OneMadeTheKey
    <3>3. counter.expires' = counter.expires /\ counter.count' = 1
      BY <2>2, <2>3 DEF LimiterInv, Limiter!TypeOK
    <3> QED
      BY <2>1, <2>2, <2>3, <3>1, <3>2, <3>3 DEF LimiterInv, Limiter!TypeOK,
           PassedTypeOK, BucketsCount, KeyCounts, OneMadeTheKey
  <2>4. CASE counter.count # 0 /\ ~Limiter!OverLimit(counter.count + 1)
    <3>1. job' = [job EXCEPT ![r] = Limiter!Idle] /\ passed' = [passed EXCEPT !.redis = @ + 1] /\ UNCHANGED early
      BY <1>2, <2>1, <2>4 DEF Limiter!incr
    <3> QED
      BY <2>1, <2>2, <2>4, <3>1 DEF Limiter!OverLimit, Limiter!Idle, LimiterInv,
           Limiter!TypeOK, PassedTypeOK, BucketsCount, KeyCounts, OneMadeTheKey
  <2>5. CASE counter.count # 0 /\ Limiter!OverLimit(counter.count + 1)
    <3>1. /\ job' = [job EXCEPT ![r] = Limiter!Idle] /\ UNCHANGED passed
          /\ early' = (early \/ counter.count < Limit)
      BY <1>2, <2>1, <2>5 DEF Limiter!incr
    <3> QED
      BY <2>1, <2>2, <2>5, <3>1 DEF Limiter!OverLimit, Limiter!Idle, LimiterInv,
           Limiter!TypeOK, PassedTypeOK, BucketsCount, KeyCounts, OneMadeTheKey
  <2> QED BY <2>3, <2>4, <2>5
<1>3. ASSUME NEW r \in Req, Limiter!expire(r) PROVE Goal
  <2>1. /\ job[r].at = "expire" /\ counter' = [counter EXCEPT !.expires = TRUE]
        /\ passed' = [passed EXCEPT !.redis = @ + 1] /\ job' = [job EXCEPT ![r] = Limiter!Idle]
        /\ UNCHANGED <<available, bucket, early, faults>>
    BY <1>3 DEF Limiter!expire
  <2>2. Limiter!TypeOK'
    BY <2>1 DEF Limiter!Idle, LimiterInv, Limiter!TypeOK
  <2>5. PassedTypeOK' /\ BucketsCount' /\ ~early'
    BY <2>1 DEF LimiterInv, PassedTypeOK, BucketsCount
  <2>3. KeyCounts'
    BY <2>1 DEF LimiterInv, Limiter!TypeOK, PassedTypeOK, KeyCounts, OneMadeTheKey
  <2>4. \A s \in Req : job[s]'.at # "expire"
    BY <2>1 DEF LimiterInv, Limiter!TypeOK, OneMadeTheKey, Limiter!Idle
  <2> QED BY <2>2, <2>3, <2>4, <2>5 DEF LimiterInv, OneMadeTheKey
<1>4. ASSUME Limiter!WindowEnds PROVE Goal
  BY <1>4 DEF Limiter!WindowEnds, Limiter!NoKey, LimiterInv, Limiter!TypeOK,
       PassedTypeOK, BucketsCount, KeyCounts, OneMadeTheKey
<1>5. ASSUME NEW p \in Proc, Limiter!BucketEnds(p) PROVE Goal
  BY <1>5 DEF Limiter!BucketEnds, LimiterInv, Limiter!TypeOK, PassedTypeOK,
       BucketsCount, KeyCounts, OneMadeTheKey
<1>6. ASSUME NEW p \in Proc, Limiter!Disconnect(p) PROVE Goal
  BY <1>6 DEF Limiter!Disconnect, Limiter!Fault, Limiter!Idle, LimiterInv,
       Limiter!TypeOK, PassedTypeOK, BucketsCount, KeyCounts, OneMadeTheKey
<1>7. ASSUME NEW p \in Proc, Limiter!Reconnect(p) PROVE Goal
  BY <1>7 DEF Limiter!Reconnect, LimiterInv, Limiter!TypeOK, PassedTypeOK,
       BucketsCount, KeyCounts, OneMadeTheKey
<1>8. ASSUME NEW p \in Proc, Limiter!Crash(p) PROVE Goal
  BY <1>8 DEF Limiter!Crash, Limiter!Fault, Limiter!Idle, LimiterInv,
       Limiter!TypeOK, PassedTypeOK, BucketsCount, KeyCounts, OneMadeTheKey
<1>9. ASSUME UNCHANGED Limiter!vars PROVE Goal
  BY <1>9 DEF Limiter!vars, LimiterInv, Limiter!TypeOK, PassedTypeOK, BucketsCount,
       KeyCounts, OneMadeTheKey
<1> QED BY <1>1, <1>2, <1>3, <1>4, <1>5, <1>6, <1>7, <1>8, <1>9 DEF Limiter!Next

(* For every limit, any number of requests and processes and however often *)
(* connections are lost: no window of the guards lets through more than    *)
(* its limit, and none refuses before it is used up.                       *)
THEOREM LimitHolds ==
  ASSUME Limiter!LimiterAssumption
  PROVE  Limiter!Spec => [](Limiter!TypeOK /\ Limiter!WindowIsBounded)
<1>1. Limiter!Init => LimiterInv BY LimiterInit
<1>2. LimiterInv /\ [Limiter!Next]_(Limiter!vars) => LimiterInv' BY LimiterNext
<1>3. LimiterInv => Limiter!TypeOK /\ Limiter!WindowIsBounded BY LimiterBounds DEF
     LimiterInv
<1> QED BY <1>1, <1>2, <1>3, PTL DEF Limiter!Spec
=============================================================================
