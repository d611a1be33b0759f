------------------------------- MODULE Reviews -------------------------------
(***************************************************************************)
(* The reviews of one product: ReviewsService. A customer reviews what was *)
(* delivered, a vendor imports reviews that an administrator approves or   *)
(* rejects, and the product carries the count and the average of the       *)
(* approved ones, recomputed by the handler that changed them. No handler  *)
(* runs in a transaction, and nothing but the code keeps one review per    *)
(* order.                                                                  *)
(***************************************************************************)
EXTENDS Integers, Sequences, FiniteSets, SequencesExt

CONSTANTS
    Req,        \* slots: requests that may be in flight at once
    Handlers,   \* the handlers that run in this instance
    MaxReviews, \* bounds: reviews ever made, the clock
    MaxTime,
    Order,      \* orders of one customer that hold the product
    Lines,      \* lines of the product in an order
    WindowDays, \* REVIEW_WINDOW_DAYS
    PublicMax   \* PUBLIC_REVIEW_LIST_MAX_LIMIT

CustomerHandlers == {"createReview"}
VendorHandlers == {"createReviewReply", "updateReviewReply", "createImported", "deleteImported", "backfill"}
AdminHandlers == {"approveReview", "approveReviews", "rejectReview"}

ReviewsAssumption ==
    /\ Handlers \subseteq CustomerHandlers \cup VendorHandlers \cup AdminHandlers
    /\ MaxReviews \in Nat /\ MaxTime \in Nat /\ Lines \in Nat \ {0} /\ WindowDays \in Nat /\ PublicMax \in Nat \ {0}

VARIABLES
    orders,   \* delivered orders and when their lines were delivered
    reviews,  \* reviews, numbered as they are made
    replies,  \* review_replies by review: the text, 0 for none
    stats,    \* products.review_count and average_rating, in hundredths
    now,      \* days
    job       \* requests in flight

vars == <<orders, reviews, replies, stats, now, job>>

None == "none"
Id == 1 .. MaxReviews
Time == 0 .. MaxTime
Rating == {1, 4}
Image == {"no image", "remote", "stored"}
Review == [state : {"none", "live", "deleted"}, source : {"customer", "import"}, order : Order \cup {None},
           status : {"pending", "approved", "rejected"}, rating : Rating, image : Image]
NoReview == [state |-> "none", source |-> "customer", order |-> None, status |-> "pending", rating |-> 1, image |-> "no image"]
Never == -1
OrderRow == [delivered : BOOLEAN, item : [1 .. Lines -> {0, 1, Never}], history : {0, 1, Never}, updated : {0, 1}]
Stats == [count : 0 .. MaxReviews, average : 0 .. 500]
NoStats == [count |-> 0, average |-> 0]
Body == {1, 2}
Idle == [at |-> "idle", ids |-> {}, row |-> NoReview, body |-> 1, stats |-> NoStats]

(* Lines carry their times or, in an order from before there were any,     *)
(* none does; the order was last written with the last of them.            *)
Consistent(o) ==
    /\ (\A l \in 1 .. Lines : o.item[l] # Never) \/ (\A l \in 1 .. Lines : o.item[l] = Never)
    /\ \A l \in 1 .. Lines : o.item[l] <= o.updated /\ (o.history # Never => o.item[l] <= o.history)

Init ==
    /\ orders \in [Order -> {o \in OrderRow : Consistent(o)}]
    /\ reviews = [c \in Id |-> NoReview]
    /\ replies = [c \in Id |-> 0]
    /\ stats = NoStats
    /\ now = 1
    /\ job = [r \in Req |-> Idle]

Live == {c \in Id : reviews[c].state = "live"}
Approved == {c \in Live : reviews[c].status = "approved"}
AtRest == \A r \in Req : job[r].at = "idle"
Goto(r, at) == job' = [job EXCEPT ![r].at = at]
Return(r) == job' = [job EXCEPT ![r] = Idle]

Enter(r, op, j) ==
    /\ op \in Handlers /\ job[r].at = "idle"
    /\ job' = [job EXCEPT ![r] = j]
    /\ UNCHANGED <<orders, reviews, replies, stats, now>>
Start(r, op, at, ids, row) == Enter(r, op, [Idle EXCEPT !.at = at, !.ids = ids, !.row = row])

(* The next row of the table.                                              *)
Fresh(c) == reviews[c].state = "none" /\ \A d \in Id : d < c => reviews[d].state # "none"

-----------------------------------------------------------------------------
(* What a customer may review                                              *)

(* The line's own time, else the latest in the history, else the order's.  *)
resolveItemDeliveredAt(o, l) ==
    CASE orders[o].item[l] # Never -> orders[o].item[l]
      [] orders[o].item[l] = Never /\ orders[o].history # Never -> orders[o].history
      [] OTHER -> orders[o].updated

Reviewed(o) == \E c \in Live : reviews[c].order = o

(* The query behind the customer's list of items to review.                *)
findReviewableItemsForCustomer(o, l) ==
    orders[o].delivered /\ ~Reviewed(o) /\ resolveItemDeliveredAt(o, l) + WindowDays >= now

(* The checks of create: of the lines of the product, the first one.       *)
Reviewable(o) == orders[o].delivered /\ ~Reviewed(o) /\ ~(resolveItemDeliveredAt(o, 1) + WindowDays < now)

create(r, o, rating, image) ==
    /\ Reviewable(o)
    /\ Start(r, "createReview", "insert", {},
             [state |-> "live", source |-> "customer", order |-> o, status |-> "approved", rating |-> rating, image |-> image])

(* createImportedForPublicApi: the images come into the storage first; one *)
(* that cannot be fetched ends the request.                                *)
ImportedRow(rating, image) ==
    [state |-> "live", source |-> "import", order |-> None, status |-> "pending", rating |-> rating,
     image |-> IF image = "no image" THEN image ELSE "stored"]

createImported(r, rating, image) == Start(r, "createImported", "insert", {}, ImportedRow(rating, image))

(* The row, and then its images.                                           *)
InsertReview(r, c) ==
    /\ job[r].at = "insert" /\ Fresh(c)
    /\ reviews' = [reviews EXCEPT ![c] = [job[r].row EXCEPT !.image = "no image"]]
    /\ job' = [job EXCEPT ![r].at = "images", ![r].ids = {c}]
    /\ UNCHANGED <<orders, replies, stats, now>>

InsertImages(r) ==
    LET j == job[r]
    IN
    /\ j.at = "images"
    /\ reviews' = [c \in Id |-> IF c \in j.ids THEN [reviews[c] EXCEPT !.image = j.row.image] ELSE reviews[c]]
    /\ IF j.row.source = "customer" THEN Goto(r, "readStats") ELSE Return(r)
    /\ UNCHANGED <<orders, replies, stats, now>>

-----------------------------------------------------------------------------
(* Moderation                                                              *)

(* approveReview, rejectReview: decided on the row as it was read.         *)
approveReview(r, c) ==
    /\ c \in Live /\ reviews[c].status = "pending"
    /\ Start(r, "approveReview", "save", {c}, [reviews[c] EXCEPT !.status = "approved"])

rejectReview(r, c) ==
    /\ c \in Live /\ reviews[c].status = "pending"
    /\ Start(r, "rejectReview", "save", {c}, [reviews[c] EXCEPT !.status = "rejected"])

(* The whole row goes back; of a deleted one, or it fails.                 *)
SaveReview(r) ==
    LET j == job[r]
    IN
    /\ j.at = "save"
    /\ \/ /\ reviews' = [c \in Id |-> IF c \in j.ids THEN j.row ELSE reviews[c]]
          /\ IF j.row.status = "approved" THEN Goto(r, "readStats") ELSE Return(r)
       \/ \E c \in j.ids : reviews[c].state = "deleted" /\ Return(r) /\ UNCHANGED reviews
    /\ UNCHANGED <<orders, replies, stats, now>>

(* approveMany: those of the given ids that were pending when read.        *)
approveMany(r, ids) ==
    LET toApprove == {c \in ids \cap Live : reviews[c].status = "pending"}
    IN
    /\ ids # {} /\ toApprove # {}
    /\ Start(r, "approveReviews", "bulk", toApprove, NoReview)

BulkApprove(r) ==
    /\ job[r].at = "bulk"
    /\ reviews' = [c \in Id |-> IF c \in job[r].ids THEN [reviews[c] EXCEPT !.status = "approved"] ELSE reviews[c]]
    /\ Goto(r, "readStats")
    /\ UNCHANGED <<orders, replies, stats, now>>

(* softDeleteImportedForPublicApi; whether it counted is what was read.    *)
deleteImported(r, c) ==
    /\ c \in Live /\ reviews[c].source = "import"
    /\ Start(r, "deleteImported", "softDelete", {c}, reviews[c])

(* Mutant: the statistics are left.                                        *)
DeleteOnly(r) ==
    /\ job[r].at = "softDelete"
    /\ reviews' = [c \in Id |-> IF c \in job[r].ids THEN [reviews[c] EXCEPT !.state = "deleted"] ELSE reviews[c]]
    /\ Return(r)
    /\ UNCHANGED <<orders, replies, stats, now>>

SoftDelete(r) ==
    LET j == job[r]
    IN
    /\ j.at = "softDelete"
    /\ reviews' = [c \in Id |-> IF c \in j.ids THEN [reviews[c] EXCEPT !.state = "deleted"] ELSE reviews[c]]
    /\ IF j.row.status = "approved" THEN Goto(r, "readStats") ELSE Return(r)
    /\ UNCHANGED <<orders, replies, stats, now>>

-----------------------------------------------------------------------------
(* Statistics                                                              *)

RatingSum(C) == FoldSet(LAMBDA c, acc : reviews[c].rating + acc, 0, C)

(* Rounded to hundredths, half up.                                         *)
Average(C) == IF C = {} THEN 0 ELSE (200 * RatingSum(C) + Cardinality(C)) \div (2 * Cardinality(C))

(* syncProductReviewStats: one query, and one update.                      *)
ReadStats(r) ==
    /\ job[r].at = "readStats"
    /\ job' = [job EXCEPT ![r].at = "writeStats",
                          ![r].stats = [count |-> Cardinality(Approved), average |-> Average(Approved)]]
    /\ UNCHANGED <<orders, reviews, replies, stats, now>>

WriteStats(r) ==
    /\ job[r].at = "writeStats"
    /\ stats' = job[r].stats
    /\ Return(r)
    /\ UNCHANGED <<orders, reviews, replies, now>>

(* What the store's page counts.                                           *)
getStoreReviewSummary == [total |-> Cardinality(Approved),
                          rating |-> [n \in Rating |-> Cardinality({c \in Approved : reviews[c].rating = n})]]

-----------------------------------------------------------------------------
(* Replies and images                                                      *)

createReviewReply(r, c, body) ==
    /\ c \in Approved /\ replies[c] = 0
    /\ Enter(r, "createReviewReply", [Idle EXCEPT !.at = "insertReply", !.ids = {c}, !.body = body])

(* The unique index turns a second reply away.                             *)
InsertReply(r) ==
    LET j == job[r]
    IN
    /\ j.at = "insertReply"
    /\ \E c \in j.ids : \/ replies[c] = 0 /\ replies' = [replies EXCEPT ![c] = j.body]
                        \/ replies[c] # 0 /\ UNCHANGED replies
    /\ Return(r)
    /\ UNCHANGED <<orders, reviews, stats, now>>

updateReviewReply(r, c, body) ==
    /\ "updateReviewReply" \in Handlers /\ job[r].at = "idle"
    /\ c \in Approved /\ replies[c] # 0
    /\ replies' = [replies EXCEPT ![c] = body]
    /\ UNCHANGED <<orders, reviews, stats, now, job>>

(* backfillRemoteReviewImagesToStorage: one image; one that cannot be      *)
(* fetched is left as it is.                                               *)
backfill(r, c) ==
    /\ "backfill" \in Handlers /\ job[r].at = "idle"
    /\ reviews[c].image = "remote"
    /\ reviews' = [reviews EXCEPT ![c].image = "stored"]
    /\ UNCHANGED <<orders, replies, stats, now, job>>

-----------------------------------------------------------------------------
(* Pages                                                                   *)

clampPublicReviewList(page, limit) ==
    LET up == IF limit < 1 THEN 1 ELSE limit
        safe == IF up < PublicMax THEN up ELSE PublicMax
    IN  [limit |-> safe, skip |-> ((IF page < 1 THEN 1 ELSE page) - 1) * safe]

(* findByProduct, findByStore: approved ones, the newest first.            *)
PageOf(page, limit) ==
    LET list == SortSeq(SetToSeq(Approved), >)
        clamp == clampPublicReviewList(page, limit)
        last == clamp.skip + clamp.limit
    IN  SubSeq(list, clamp.skip + 1, IF last < Len(list) THEN last ELSE Len(list))

-----------------------------------------------------------------------------
Deliver(o) ==
    /\ ~orders[o].delivered
    /\ orders' = [orders EXCEPT ![o].delivered = TRUE]
    /\ UNCHANGED <<reviews, replies, stats, now, job>>

Tick ==
    /\ now < MaxTime
    /\ now' = now + 1
    /\ UNCHANGED <<orders, reviews, replies, stats, job>>

Step(r) ==
    \/ InsertImages(r) \/ SaveReview(r) \/ BulkApprove(r) \/ SoftDelete(r)
    \/ ReadStats(r) \/ WriteStats(r) \/ InsertReply(r)
    \/ \E c \in Id : InsertReview(r, c)

Next ==
    \/ Tick
    \/ \E o \in Order : Deliver(o)
    \/ \E r \in Req :
          \/ Step(r)
          \/ \E rating \in Rating, image \in Image \ {"stored"} :
                (\E o \in Order : create(r, o, rating, image)) \/ createImported(r, rating, image)
          \/ \E c \in Id : \/ approveReview(r, c) \/ rejectReview(r, c) \/ deleteImported(r, c) \/ backfill(r, c)
                           \/ \E body \in Body : createReviewReply(r, c, body) \/ updateReviewReply(r, c, body)
          \/ \E ids \in SUBSET Id : approveMany(r, ids)

Spec == Init /\ [][Next]_vars

-----------------------------------------------------------------------------
(* Properties                                                              *)

(* Every variable has its type, and only a review that is shown has a      *)
(* reply.                                                                  *)
TypeOK ==
    /\ orders \in [Order -> OrderRow]
    /\ reviews \in [Id -> Review]
    /\ replies \in [Id -> Body \cup {0}]
    /\ stats \in Stats
    /\ now \in Time
    /\ \A c \in Id : replies[c] # 0 => reviews[c].status = "approved"

(* At rest the product carries the count and the average of the reviews    *)
(* that its page shows.                                                    *)
StatsMatch ==
    AtRest => LET sum == getStoreReviewSummary
                  exact == 100 * (sum.rating[1] + 4 * sum.rating[4])
                  d == stats.average * sum.total - exact
              IN  /\ stats.count = sum.total
                  /\ sum.total = 0 => stats.average = 0
                  /\ -sum.total <= 2 * d /\ 2 * d <= sum.total

(* A customer reviews the product of an order once.                        *)
OneReviewPerOrder == \A c, d \in Live : reviews[c].order # None /\ reviews[c].order = reviews[d].order => c = d

(* What was approved is never rejected, and the other way round.           *)
DecisionIsFinal ==
    \A c \in Id : reviews[c].status # "pending" /\ reviews[c].state # "none" =>
       reviews'[c].status = reviews[c].status

(* No imported review links to somebody else's server.                     *)
ImportsAreStored == \A c \in Id : reviews[c].source = "import" => reviews[c].image # "remote"

(* Every item on the customer's list can be reviewed, until the last       *)
(* moment, and none that can be is missing.                                *)
ListedCanBeReviewed == \A o \in Order, l \in 1 .. Lines : findReviewableItemsForCustomer(o, l) = Reviewable(o)

(* The pages of a list hold each review once, whatever page size is asked. *)
PagesCoverTheList ==
    \A limit \in -1 .. MaxReviews + 1 :
        LET pages == [p \in 1 .. MaxReviews |-> PageOf(p, limit)]
            at(c) == {place \in (1 .. MaxReviews) \X (1 .. MaxReviews) :
                         place[2] <= Len(pages[place[1]]) /\ pages[place[1]][place[2]] = c}
        IN  /\ \A c \in Approved : Cardinality(at(c)) = 1
            /\ \A p \in 1 .. MaxReviews : Len(pages[p]) <= PublicMax
=============================================================================
