--------------------------- MODULE PlatformShowcase ---------------------------
(***************************************************************************)
(* What the storefront shows around its products: banners and sponsors in  *)
(* the order administrators give them, and the one ad that is switched on. *)
(* Reordering is a transaction that takes the rows' locks in the order of  *)
(* its list; everything else loads a row and saves it.                     *)
(***************************************************************************)
EXTENDS Integers, FiniteSets, Sequences

CONSTANTS
    Req,         \* slots: requests that may be in flight at once
    Handlers,    \* the handlers that run in this instance
    Banner,      \* banners, or sponsors, that may ever be made
    Ad,
    MaxOrder     \* largest sortOrder a request gives

BannerHandlers == {"createBanner", "updateBanner", "deleteBanner", "reorderBanners"}
AdHandlers == {"createAd", "updateAd", "deleteAd"}

ShowcaseAssumption ==
    /\ Handlers \subseteq BannerHandlers \cup AdHandlers
    /\ MaxOrder \in Nat

VARIABLES
    item,     \* platform_banners, platform_sponsors, platform_ads
    made,     \* the banners, in the order of their createdAt
    asked,    \* the list of the last reordering that was committed
    job       \* requests in flight

vars == <<item, made, asked, job>>

Item == Banner \cup Ad
Row == [state : {"none", "live", "deleted"}, active : BOOLEAN, sortOrder : 0..MaxOrder]
NoRow == [state |-> "none", active |-> FALSE, sortOrder |-> 0]

(* Lists without repetitions, complete or not.                             *)
Lists == {s \in UNION {[1..n -> Banner] : n \in 1..Cardinality(Banner)} : \A i, j \in DOMAIN s : s[i] = s[j] => i = j}

Idle == [at |-> "idle", i |-> "none", row |-> NoRow, ids |-> <<>>, done |-> 0, held |-> {}]
Job == [at : {"idle", "deactivate", "save", "softRemove", "reorder"}, i : Item \cup {"none"}, row : Row,
        ids : Lists \cup {<<>>}, done : 0..Cardinality(Banner), held : SUBSET Banner]

Init ==
    /\ item = [i \in Item |-> NoRow]
    /\ made = <<>>
    /\ asked = <<>>
    /\ job = [r \in Req |-> Idle]

Live == {i \in Item : item[i].state = "live"}
ActiveAds == {i \in Ad \cap Live : item[i].active}

(* No other transaction has updated the row and not ended yet.             *)
Free(r, i) == \A q \in Req \ {r} : i \notin job[q].held

Start(r, op, at, i, row) ==
    /\ op \in Handlers
    /\ job[r].at = "idle"
    /\ job' = [job EXCEPT ![r] = [Idle EXCEPT !.at = at, !.i = i, !.row = row]]
    /\ UNCHANGED <<item, made, asked>>
Return(r) == job' = [job EXCEPT ![r] = Idle]

New(i) == item[i].state = "none" /\ \A q \in Req : job[q].i # i

-----------------------------------------------------------------------------
(* createBanner, createSponsor.                                            *)
createBanner(r, i, active, sortOrder) ==
    /\ New(i)
    /\ Start(r, "createBanner", "save", i, [state |-> "live", active |-> active, sortOrder |-> sortOrder])

(* updateBanner, updateSponsor, with any of the fields.                    *)
updateBanner(r, i, active, sortOrder) ==
    /\ i \in Live
    /\ Start(r, "updateBanner", "save", i, [item[i] EXCEPT !.active = active, !.sortOrder = sortOrder])

(* deleteBanner, deleteSponsor, deleteAd.                                  *)
deleteItem(r, i) ==
    /\ i \in Live
    /\ Start(r, IF i \in Ad THEN "deleteAd" ELSE "deleteBanner", "softRemove", i, item[i])

(* The client's sortOrder is dropped; an ad that is on goes through        *)
(* deactivateOtherAds before it is saved.                                  *)
createAd(r, i, active) ==
    /\ New(i)
    /\ Start(r, "createAd", IF active THEN "deactivate" ELSE "save", i, [state |-> "live", active |-> active, sortOrder |-> 0])

updateAd(r, i, active) ==
    /\ i \in Live
    /\ Start(r, "updateAd", IF active THEN "deactivate" ELSE "save", i, [item[i] EXCEPT !.active = active])

(* One statement over the other ads that are on.                           *)
deactivateOtherAds(r) ==
    /\ job[r].at = "deactivate"
    /\ item' = [i \in Item |-> IF i \in ActiveAds \ {job[r].i} THEN [item[i] EXCEPT !.active = FALSE] ELSE item[i]]
    /\ job' = [job EXCEPT ![r].at = "save"]
    /\ UNCHANGED <<made, asked>>

(* The row as it was loaded, with the changes; it waits for a reordering   *)
(* that has the row. Of a row removed since, the save either fails or      *)
(* brings it back. A position given by hand is no longer the list's.       *)
Save(r) ==
    LET j == job[r]
    IN
    /\ j.at = "save"
    /\ Free(r, j.i)
    /\ \/ /\ item' = [item EXCEPT ![j.i] = j.row]
          /\ made' = IF item[j.i].state = "none" /\ j.i \in Banner THEN Append(made, j.i) ELSE made
          /\ asked' = SelectSeq(asked, LAMBDA b : b # j.i)
       \/ item[j.i].state = "deleted" /\ UNCHANGED <<item, made, asked>>
    /\ Return(r)

SoftRemove(r) ==
    /\ job[r].at = "softRemove"
    /\ Free(r, job[r].i)
    /\ item' = [item EXCEPT ![job[r].i].state = "deleted"]
    /\ Return(r)
    /\ UNCHANGED <<made, asked>>

-----------------------------------------------------------------------------
(* reorderBanners, reorderSponsors                                         *)

reorder(r, ids) ==
    /\ "reorderBanners" \in Handlers
    /\ job[r].at = "idle"
    /\ job' = [job EXCEPT ![r] = [Idle EXCEPT !.at = "reorder", !.ids = ids]]
    /\ UNCHANGED <<item, made, asked>>

Waits(r) == job[r].at = "reorder" /\ job[r].done < Len(job[r].ids) /\ ~Free(r, job[r].ids[job[r].done + 1])

(* The next row of the list, once no other transaction has it. A removed   *)
(* row matches nothing and is not locked.                                  *)
UpdateNext(r) ==
    /\ job[r].at = "reorder" /\ job[r].done < Len(job[r].ids)
    /\ ~Waits(r)
    /\ job' = [job EXCEPT ![r].done = @ + 1, ![r].held = @ \cup ({job[r].ids[job[r].done + 1]} \cap Live)]
    /\ UNCHANGED <<item, made, asked>>

(* The positions take effect together: nobody sees a part of the list.     *)
Commit(r) ==
    LET ids == job[r].ids
    IN
    /\ job[r].at = "reorder" /\ job[r].done = Len(ids)
    /\ item' = [i \in Item |-> IF i \in job[r].held THEN [item[i] EXCEPT !.sortOrder = (CHOOSE n \in DOMAIN ids : ids[n] = i) - 1]
                                                ELSE item[i]]
    /\ asked' = SelectSeq(ids, LAMBDA b : b \in job[r].held)
    /\ Return(r)
    /\ UNCHANGED made

(* PostgreSQL ends one of two transactions that wait for each other.       *)
Abort(r) ==
    /\ Waits(r)
    /\ \E q \in Req \ {r} : Waits(q) /\ job[r].ids[job[r].done + 1] \in job[q].held /\ job[q].ids[job[q].done + 1] \in job[r].held
    /\ Return(r)
    /\ UNCHANGED <<item, made, asked>>

-----------------------------------------------------------------------------
(* getAllBanners, getAllSponsors: by sortOrder, then by createdAt.         *)
Created(i) == CHOOSE n \in DOMAIN made : made[n] = i
Before(i, j) == item[i].sortOrder < item[j].sortOrder \/ (item[i].sortOrder = item[j].sortOrder /\ Created(i) < Created(j))

(* What a request does by itself, and what waits for a row.                *)
Continue(r) == deactivateOtherAds(r) \/ Commit(r) \/ Abort(r)
TakeRow(r) == Save(r) \/ SoftRemove(r) \/ UpdateNext(r)

Next ==
    \E r \in Req :
        \/ \E i \in Banner, active \in BOOLEAN, n \in 0..MaxOrder : createBanner(r, i, active, n) \/ updateBanner(r, i, active, n)
        \/ \E i \in Ad, active \in BOOLEAN : createAd(r, i, active) \/ updateAd(r, i, active)
        \/ \E i \in Item : deleteItem(r, i)
        \/ \E ids \in Lists : reorder(r, ids)
        \/ Continue(r) \/ TakeRow(r)

Spec == Init /\ [][Next]_vars

(* A reordering is under way.                                              *)
Reordering(r) == job[r].at = "reorder"

-----------------------------------------------------------------------------
(* Properties                                                              *)

(* Every variable has its type.                                            *)
TypeOK ==
    /\ item \in [Item -> Row]
    /\ job \in [Req -> Job]
    /\ asked \in Lists \cup {<<>>} /\ made \in Lists \cup {<<>>}

(* Of two lists sent at once, complete or not and whatever is removed      *)
(* meanwhile, the one committed last is the order visitors see: rows of    *)
(* two lists are never mixed.                                              *)
LastListStands ==
    \A m, n \in DOMAIN asked : m < n /\ {asked[m], asked[n]} \subseteq Live => Before(asked[m], asked[n])

(* One request at a time, at most one ad is on, however it was switched on *)
(* and whatever was removed.                                               *)
OneActiveAd == Cardinality(ActiveAds) <= 1
=============================================================================
