------------------------------ MODULE Promotions ------------------------------
(***************************************************************************)
(* The promotions administrators and vendors keep: PromotionsService's     *)
(* create, update, toggle and softDelete, the lists the storefront shows,  *)
(* and the usages checkout writes. Every change loads the row, checks the  *)
(* changed row and saves the whole of it.                                  *)
(***************************************************************************)
EXTENDS Integers, FiniteSets

CONSTANTS
    Req,          \* slots: requests that may be in flight at once
    Handlers,     \* the handlers that run in this instance
    Promotion,    \* promotions that may ever be made
    Code,
    Values,       \* discount values
    MaxTime,      \* bounds: the clock and the orders placed
    MaxOrders

Resolver == {"createPromotion", "updatePromotion", "togglePromotion", "deletePromotion"}
PromotionsAssumption ==
    /\ Handlers \subseteq Resolver \cup {"order"}
    /\ MaxTime \in Nat /\ MaxOrders \in Nat
    /\ Values \subseteq Nat

VARIABLES
    promos,   \* promotions
    usages,   \* promotion_usages, by promotion
    now,
    job       \* requests in flight

vars == <<promos, usages, now, job>>

Time == 0 .. MaxTime
PromotionRow == [state : {"none", "live", "deleted"}, code : Code, type : {"percentage", "fixed"}, value : Values,
                 starts : Time, expires : Time, active : BOOLEAN, usageCount : 0 .. MaxOrders]
NoRow == [state |-> "none", code |-> CHOOSE c \in Code : TRUE, type |-> "fixed", value |-> CHOOSE v \in Values : TRUE,
          starts |-> 0, expires |-> MaxTime, active |-> FALSE, usageCount |-> 0]
Idle == [at |-> "idle", p |-> CHOOSE p \in Promotion : TRUE, row |-> NoRow]
Job == [at : {"idle", "save", "softRemove", "commit"}, p : Promotion, row : PromotionRow]

Init ==
    /\ promos = [p \in Promotion |-> NoRow]
    /\ usages = [p \in Promotion |-> 0]
    /\ now = 0
    /\ job = [r \in Req |-> Idle]

Live == {p \in Promotion : promos[p].state = "live"}

Start(r, op, at, p, row) ==
    /\ op \in Handlers
    /\ job[r].at = "idle"
    /\ job' = [job EXCEPT ![r] = [at |-> at, p |-> p, row |-> row]]
    /\ UNCHANGED <<promos, usages, now>>
Return(r) == job' = [job EXCEPT ![r] = Idle]

-----------------------------------------------------------------------------

assertDiscountBounds(type, value) == type = "percentage" => value <= 100

assertValidDateRange(starts, expires) == starts < expires

(* The identifier is a new one.                                            *)
create(r, p, code, type, value, starts, expires) ==
    /\ promos[p].state = "none"
    /\ \A q \in Req : job[q].at = "idle" \/ job[q].p # p
    /\ assertDiscountBounds(type, value)
    /\ assertValidDateRange(starts, expires)
    /\ Start(r, "createPromotion", "save", p,
             [state |-> "live", code |-> code, type |-> type, value |-> value, starts |-> starts,
              expires |-> expires, active |-> TRUE, usageCount |-> 0])

(* update: the type, the value, the code or a date; the checks see the     *)
(* changed row.                                                            *)
update(r, p, row) ==
    /\ p \in Live
    /\ assertDiscountBounds(row.type, row.value)
    /\ assertValidDateRange(row.starts, row.expires)
    /\ Start(r, "updatePromotion", "save", p, row)

Changes(p) ==
    {[promos[p] EXCEPT !.type = t] : t \in {"percentage", "fixed"}} \cup {[promos[p] EXCEPT !.value = v] : v \in Values}
      \cup {[promos[p] EXCEPT !.code = c] : c \in Code} \cup {[promos[p] EXCEPT !.starts = t] : t \in Time}
      \cup {[promos[p] EXCEPT !.expires = t] : t \in Time}

toggle(r, p, active) ==
    /\ p \in Live
    /\ Start(r, "togglePromotion", "save", p, [promos[p] EXCEPT !.active = active])

softDelete(r, p) ==
    /\ p \in Live
    /\ Start(r, "deletePromotion", "softRemove", p, promos[p])

CodeIsFree(p, code) == \A q \in Live \ {p} : promos[q].code # code

(* The whole row as it was loaded. The index on the codes of rows that are *)
(* not deleted refuses a second one; of a row deleted since, the save      *)
(* either fails or brings it back.                                         *)
Save(r) ==
    LET p == job[r].p
    IN
    /\ job[r].at = "save"
    /\ \/ CodeIsFree(p, job[r].row.code) /\ promos' = [promos EXCEPT ![p] = job[r].row]
       \/ ~CodeIsFree(p, job[r].row.code) /\ UNCHANGED promos
       \/ promos[p].state = "deleted" /\ UNCHANGED promos
    /\ Return(r)
    /\ UNCHANGED <<usages, now>>

SoftRemove(r) ==
    /\ job[r].at = "softRemove"
    /\ promos' = [promos EXCEPT ![job[r].p].state = "deleted"]
    /\ Return(r)
    /\ UNCHANGED <<usages, now>>

-----------------------------------------------------------------------------
(* Checkout and lists                                                      *)

(* validateCode's checks of the row itself.                                *)
Usable(p) == p \in Live /\ promos[p].active /\ ~(promos[p].starts > now) /\ ~(promos[p].expires < now)

(* findActive, findActiveForStore: the query the storefront's lists run.   *)
findActive == {p \in Live : promos[p].active /\ promos[p].starts <= now /\ promos[p].expires >= now}

order(r, p) ==
    /\ usages[p] < MaxOrders
    /\ Usable(p)
    /\ Start(r, "order", "commit", p, promos[p])

(* A row of usage and an increment, in the order's transaction.            *)
Commit(r) ==
    /\ job[r].at = "commit"
    /\ usages[job[r].p] < MaxOrders
    /\ usages' = [usages EXCEPT ![job[r].p] = @ + 1]
    /\ promos' = [promos EXCEPT ![job[r].p].usageCount = @ + 1]
    /\ Return(r)
    /\ UNCHANGED now

Tick ==
    /\ now < MaxTime
    /\ now' = now + 1
    /\ UNCHANGED <<promos, usages, job>>

Next ==
    \/ Tick
    \/ \E r \in Req :
          \/ \E p \in Promotion :
                \/ \E c \in Code, t \in {"percentage", "fixed"}, v \in Values, s \in Time, e \in Time :
                       create(r, p, c, t, v, s, e)
                \/ \E row \in Changes(p) : update(r, p, row)
                \/ \E a \in BOOLEAN : toggle(r, p, a)
                \/ softDelete(r, p) \/ order(r, p)
          \/ Save(r) \/ SoftRemove(r) \/ Commit(r)

Spec == Init /\ [][Next]_vars

-----------------------------------------------------------------------------
(* Properties                                                              *)

(* Every variable has its type.                                            *)
TypeOK ==
    /\ promos \in [Promotion -> PromotionRow]
    /\ usages \in [Promotion -> 0 .. MaxOrders]
    /\ now \in Time
    /\ job \in [Req -> Job]

(* No sequence or overlap of changes leaves a percentage above 100 or a    *)
(* range of dates that never begins.                                       *)
RowsAreValid ==
    \A p \in Live : /\ promos[p].type = "percentage" => promos[p].value <= 100
                    /\ promos[p].starts < promos[p].expires

(* A code names one promotion.                                             *)
CodesAreUnique == \A p \in Live : CodeIsFree(p, promos[p].code)

(* The storefront lists what checkout takes, at the very moments a         *)
(* promotion begins and ends too.                                          *)
ListedIsUsable == findActive = {p \in Promotion : Usable(p)}

(* The count that the usage limit is compared with is the number of orders *)
(* that used the promotion.                                                *)
UsageIsCounted == \A p \in Promotion : promos[p].usageCount = usages[p]
=============================================================================
