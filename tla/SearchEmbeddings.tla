--------------------------- MODULE SearchEmbeddings ----------------------------
(***************************************************************************)
(* The vectors of the smart search: every change of a published product's  *)
(* text puts a job into a queue, and a worker has the text embedded by a   *)
(* provider and stores the vector.  SearchEmbeddingQueueService,           *)
(* SearchEmbeddingProcessor, EmbeddingService and the callers in           *)
(* ProductsService and TaxonomyService.                                    *)
(*                                                                         *)
(* The queue (BullMQ) is external: the id of a job is the product's, a job *)
(* whose id is taken is not added, a job that fails is tried again up to   *)
(* MaxAttempts times and then kept, a job that completes is removed.       *)
(***************************************************************************)
EXTENDS Integers

CONSTANTS
    Req,          \* slots: handlers and workers that may be in flight at once
    Handlers,     \* the handlers that run in this instance
    Product,
    MaxText,      \* bound: changes of a product's text
    MaxAttempts,  \* attempts of a job (3)
    Faults        \* what may fail: "enqueue", "provider", "database"

AllHandlers == {"update", "publish", "publishMany", "deleteCategory", "process"}

EmbeddingAssumption ==
    /\ Handlers \subseteq AllHandlers
    /\ Faults \subseteq {"enqueue", "provider", "database"}
    /\ MaxText \in Nat /\ MaxAttempts \in Nat \ {0}

VARIABLES
    products,   \* status, and the number of its text
    queue,      \* the product's job
    vector,     \* the text whose vector is stored, or None
    job         \* handlers and workers in flight

vars == <<products, queue, vector, job>>

None == -1
ProductRow == [status : {"draft", "published"}, text : 0 .. MaxText]
QueueJob == [state : {"none", "waiting", "active", "failed"}, attempts : 0 .. MaxAttempts]
NoJob == [state |-> "none", attempts |-> 0]
Idle == [at |-> "idle", ids |-> {}, seen |-> {}, text |-> None]
Job == [at : {"idle", "save", "enqueue", "embed", "store"}, ids : SUBSET Product, seen : SUBSET Product,
        text : None .. MaxText]

Init ==
    /\ products = [p \in Product |-> [status |-> "draft", text |-> 0]]
    /\ queue = [p \in Product |-> NoJob]
    /\ vector = [p \in Product |-> None]
    /\ job = [r \in Req |-> Idle]

Free(r, op) == op \in Handlers /\ job[r].at = "idle"
Goto(r, at, ids, text) == job' = [job EXCEPT ![r] = [Idle EXCEPT !.at = at, !.ids = ids, !.text = text]]
Return(r) == job' = [job EXCEPT ![r] = Idle]
Published(ids) == {p \in ids : products[p].status = "published"}

-----------------------------------------------------------------------------
(* What changes a product's text                                           *)

shouldReembedAfterUpdate(before, after, material) ==
    after = "published" /\ (before # "published" \/ material)

update(r, p, status, material) ==
    LET again == shouldReembedAfterUpdate(products[p].status, status, material)
    IN
    /\ Free(r, "update")
    /\ material => products[p].text < MaxText
    /\ products' = [products EXCEPT ![p] = [status |-> status, text |-> IF material THEN @.text + 1 ELSE @.text]]
    /\ IF again THEN Goto(r, "enqueue", {p}, None) ELSE UNCHANGED job
    /\ UNCHANGED <<queue, vector>>

publish(r, p) ==
    /\ Free(r, "publish")
    /\ products' = [products EXCEPT ![p].status = "published"]
    /\ Goto(r, "enqueue", {p}, None)
    /\ UNCHANGED <<queue, vector>>

(* Only the products this call publishes are queued.                       *)
publishMany(r, ids) ==
    LET drafts == ids \ Published(ids)
    IN
    /\ Free(r, "publishMany")
    /\ drafts # {}
    /\ products' = [p \in Product |-> IF p \in drafts THEN [products[p] EXCEPT !.status = "published"] ELSE products[p]]
    /\ Goto(r, "enqueue", drafts, None)
    /\ UNCHANGED <<queue, vector>>

(* The category of some products is replaced; the published ones, as they  *)
(* were read before the transaction, are queued.                           *)
deleteCategory(r, ids) ==
    /\ Free(r, "deleteCategory")
    /\ ids # {}
    /\ job' = [job EXCEPT ![r] = [Idle EXCEPT !.at = "save", !.ids = ids, !.seen = Published(ids)]]
    /\ UNCHANGED <<products, queue, vector>>

Reassign(r) ==
    LET ids == job[r].ids
    IN
    /\ job[r].at = "save"
    /\ \A p \in ids : products[p].text < MaxText
    /\ products' = [p \in Product |-> IF p \in ids THEN [products[p] EXCEPT !.text = @ + 1] ELSE products[p]]
    /\ IF job[r].seen = {} THEN Return(r) ELSE Goto(r, "enqueue", job[r].seen, None)
    /\ UNCHANGED <<queue, vector>>

enqueueProductEmbeddings(ids) ==
    [p \in Product |->
        IF p \in ids /\ queue[p].state = "none" THEN [state |-> "waiting", attempts |-> 0] ELSE queue[p]]

Enqueue(r) ==
    /\ job[r].at = "enqueue"
    /\ \/ queue' = enqueueProductEmbeddings(job[r].ids)
       \/ "enqueue" \in Faults /\ UNCHANGED queue
    /\ Return(r)
    /\ UNCHANGED <<products, vector>>

-----------------------------------------------------------------------------
(* The worker                                                              *)

Complete(r, p) == queue' = [queue EXCEPT ![p] = NoJob] /\ Return(r)

AfterFailure(p) ==
    LET tried == queue[p].attempts + 1
    IN [state |-> IF tried < MaxAttempts THEN "waiting" ELSE "failed", attempts |-> tried]

(* The product is read when the job starts; one that is not published      *)
(* ends the job.                                                           *)
process(r, p) ==
    /\ Free(r, "process")
    /\ queue[p].state = "waiting"
    /\ queue' = [queue EXCEPT ![p] = IF products[p].status = "published" THEN [@ EXCEPT !.state = "active"] ELSE NoJob]
    /\ IF products[p].status = "published" THEN Goto(r, "embed", {p}, products[p].text) ELSE UNCHANGED job
    /\ UNCHANGED <<products, vector>>

(* An error of the provider is logged and ends the job as a success.       *)
embedText(r) ==
    /\ job[r].at = "embed"
    /\ \/ Goto(r, "store", job[r].ids, job[r].text) /\ UNCHANGED queue
       \/ "provider" \in Faults /\ \E p \in job[r].ids : Complete(r, p)
    /\ UNCHANGED <<products, vector>>

StoreVector(r) ==
    \E p \in job[r].ids :
        /\ job[r].at = "store"
        /\ \/ vector' = [vector EXCEPT ![p] = job[r].text] /\ Complete(r, p)
           \/ /\ "database" \in Faults
              /\ queue' = [queue EXCEPT ![p] = AfterFailure(p)]
              /\ Return(r)
              /\ UNCHANGED vector
        /\ UNCHANGED products

-----------------------------------------------------------------------------
Work(r) == (\E p \in Product : process(r, p)) \/ embedText(r) \/ StoreVector(r)

Next ==
    \E r \in Req :
        \/ \E p \in Product, status \in {"draft", "published"}, material \in BOOLEAN : update(r, p, status, material)
        \/ \E p \in Product : publish(r, p)
        \/ \E ids \in SUBSET Product : publishMany(r, ids) \/ deleteCategory(r, ids)
        \/ Reassign(r)
        \/ Enqueue(r)
        \/ Work(r)

Spec == Init /\ [][Next]_vars

-----------------------------------------------------------------------------
TypeOK ==
    /\ products \in [Product -> ProductRow]
    /\ queue \in [Product -> QueueJob]
    /\ vector \in [Product -> None .. MaxText]
    /\ job \in [Req -> Job]

(* A published product without a job has the vector of its present text.   *)
IndexFollows ==
    \A p \in Product :
        /\ products[p].status = "published"
        /\ queue[p].state = "none"
        /\ \A r \in Req : job[r] = Idle
        => vector[p] = products[p].text

(* A vector is of a text the product had while it was published, never of  *)
(* one it has not reached yet, and a later vector is of a later text.      *)
VectorsMoveForward == \A p \in Product : vector'[p] >= vector[p]

(* A job that will come to an end: the vector is stored, the product is no *)
(* longer published, or the attempts are used up.                          *)
Underway(p) == queue[p].state \in {"waiting", "active"}
=============================================================================
