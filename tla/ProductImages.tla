---------------------------- MODULE ProductImages ----------------------------
(***************************************************************************)
(* The images of one product and its thumbnail: the image handlers of      *)
(* ProductsService.  Nothing in the schema says that a product has one     *)
(* thumbnail; every handler clears, saves and then promotes an image, in   *)
(* separate statements, to keep it so.                                     *)
(***************************************************************************)
EXTENDS Integers, FiniteSets, FiniteSetsExt, Functions

CONSTANTS
    Req,        \* slots: requests that may be in flight at once
    Handlers,   \* the handlers that run in this instance
    MaxImages   \* bound: rows ever made

ProductsResolver == {"addImage", "updateImage", "setProductThumbnail", "reorderImages", "removeImage"}
PublicApi == {"replaceImages"}
Faults == {"fail"}    \* the database connection is lost between two statements
AllHandlers == ProductsResolver \cup PublicApi \cup Faults

ImagesAssumption ==
    /\ Handlers \subseteq AllHandlers
    /\ MaxImages \in Nat \ {0}

Image == 1 .. MaxImages    \* in the order of their creation
Order == 0 .. MaxImages - 1

VARIABLES
    images,   \* product_images
    made,     \* rows made so far
    job       \* requests in flight

vars == <<images, made, job>>

ImageRow == [there : BOOLEAN, order : Order, thumb : BOOLEAN]
NoImage == [there |-> FALSE, order |-> 0, thumb |-> FALSE]

(* What a request says of the thumbnail: yes, no, or nothing.              *)
Wish == {"yes", "no", "unsaid"}

Idle == [at |-> "idle", op |-> "none", img |-> 0, row |-> NoImage]
Job == [at : {"idle", "clear", "save", "delete", "ensure", "promote"},
        op : {"none", "addImage", "updateImage", "setProductThumbnail", "removeImage"},
        img : 0 .. MaxImages, row : ImageRow]

Init ==
    /\ images = [i \in Image |-> NoImage]
    /\ made = 0
    /\ job = [r \in Req |-> Idle]

There(t) == {i \in Image : t[i].there}
Thumbs(t) == {i \in There(t) : t[i].thumb}

Free(r, op) == op \in Handlers /\ job[r].at = "idle"
Start(r, op, at, i, row) ==
    /\ Free(r, op)
    /\ job' = [job EXCEPT ![r] = [at |-> at, op |-> op, img |-> i, row |-> row]]
    /\ UNCHANGED <<images, made>>
At(r, at) == job[r].at = at
Goto(r, at) == job' = [job EXCEPT ![r].at = at]
Return(r) == job' = [job EXCEPT ![r] = Idle]

-----------------------------------------------------------------------------
(* The handlers, up to their first write                                   *)

addImage(r, order, wish) ==
    LET thumb == (wish = "yes" \/ Thumbs(images) = {}) /\ wish # "no"
    IN Start(r, "addImage", IF thumb THEN "clear" ELSE "save", 0, [there |-> TRUE, order |-> order, thumb |-> thumb])

updateImage(r, i, order, wish) ==
    LET row == [images[i] EXCEPT !.order = order,
                                 !.thumb = wish = "yes" \/ (@ /\ wish = "unsaid")]
    IN /\ images[i].there
       /\ Start(r, "updateImage", IF wish = "yes" THEN "clear" ELSE "save", i, row)

setProductThumbnail(r, i) ==
    /\ images[i].there
    /\ Start(r, "setProductThumbnail", "clear", i, [images[i] EXCEPT !.thumb = TRUE])

removeImage(r, i) ==
    /\ images[i].there
    /\ Start(r, "removeImage", "delete", i, images[i])

Places(S) == Bijection(S, 0 .. Cardinality(S) - 1)

(* One transaction: the images named get their places in the list.         *)
reorderImages(r, place) ==
    /\ Free(r, "reorderImages")
    /\ DOMAIN place \subseteq There(images)
    /\ images' = [i \in Image |-> IF i \in DOMAIN place THEN [images[i] EXCEPT !.order = place[i]] ELSE images[i]]
    /\ UNCHANGED <<made, job>>

(* One transaction: all rows are deleted, n new ones made, the first of    *)
(* them the thumbnail.                                                     *)
replaceProductImagesWithStorageUrls(r, n) ==
    /\ Free(r, "replaceImages")
    /\ made + n <= MaxImages
    /\ images' = [i \in Image |-> IF i \in made + 1 .. made + n
                                    THEN [there |-> TRUE, order |-> i - made - 1, thumb |-> i = made + 1]
                                    ELSE NoImage]
    /\ made' = made + n
    /\ UNCHANGED job

-----------------------------------------------------------------------------
(* Their writes                                                            *)

clearThumbnails(r) ==
    /\ At(r, "clear")
    /\ images' = [i \in Image |-> IF i = job[r].img THEN images[i] ELSE [images[i] EXCEPT !.thumb = FALSE]]
    /\ Goto(r, "save")
    /\ UNCHANGED made

(* Saving an image that is gone meanwhile inserts it again.                *)
SaveImage(r) ==
    LET i == IF job[r].op = "addImage" THEN made + 1 ELSE job[r].img
    IN
    /\ At(r, "save")
    /\ i <= MaxImages
    /\ images' = [images EXCEPT ![i] = job[r].row]
    /\ made' = Max({made, i})
    /\ IF job[r].op = "setProductThumbnail" THEN Return(r) ELSE Goto(r, "ensure")

DeleteImage(r) ==
    /\ At(r, "delete")
    /\ images' = [images EXCEPT ![job[r].img] = NoImage]
    /\ IF job[r].row.thumb THEN Goto(r, "ensure") ELSE Return(r)
    /\ UNCHANGED made

(* By sort order, then by age.                                             *)
First(t) ==
    CHOOSE i \in There(t) : \A k \in There(t) \ {i} : t[i].order < t[k].order \/ (t[i].order = t[k].order /\ i < k)

ensureThumbnail(r) ==
    /\ At(r, "ensure")
    /\ IF There(images) = {} \/ Thumbs(images) # {}
         THEN Return(r)
         ELSE job' = [job EXCEPT ![r].at = "promote", ![r].img = First(images),
                                 ![r].row = [images[First(images)] EXCEPT !.thumb = TRUE]]
    /\ UNCHANGED <<images, made>>

PromoteFirst(r) ==
    /\ At(r, "promote")
    /\ images' = [images EXCEPT ![job[r].img] = job[r].row]
    /\ Return(r)
    /\ UNCHANGED made

Fail(r) ==
    /\ "fail" \in Handlers
    /\ job[r].at # "idle"
    /\ Return(r)
    /\ UNCHANGED <<images, made>>

Next ==
    \E r \in Req :
        \/ \E o \in Order, w \in Wish : addImage(r, o, w) \/ \E i \in Image : updateImage(r, i, o, w)
        \/ \E i \in Image : setProductThumbnail(r, i) \/ removeImage(r, i)
        \/ \E S \in SUBSET Image : \E place \in Places(S) : reorderImages(r, place)
        \/ \E n \in 0 .. MaxImages : replaceProductImagesWithStorageUrls(r, n)
        \/ clearThumbnails(r) \/ SaveImage(r) \/ DeleteImage(r) \/ ensureThumbnail(r) \/ PromoteFirst(r)
        \/ Fail(r)

Spec == Init /\ [][Next]_vars

-----------------------------------------------------------------------------
(* Properties                                                              *)

(* Every variable has its type.                                            *)
TypeOK ==
    /\ images \in [Image -> ImageRow]
    /\ made \in 0 .. MaxImages
    /\ job \in [Req -> Job]

(* When no request is under way, a product with images has exactly one     *)
(* thumbnail, whatever was asked of it (addImage with isThumbnail false,   *)
(* the thumbnail removed or unset, the image set replaced).                *)
OneThumbnail ==
    (\A r \in Req : At(r, "idle")) /\ There(images) # {} => Cardinality(Thumbs(images)) = 1

(* A request cut off between two statements may leave the product without  *)
(* a thumbnail, but never with two (clearing comes before saving).         *)
AtMostOneThumbnail == Cardinality(Thumbs(images)) <= 1
=============================================================================
