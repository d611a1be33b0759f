---------------------------- MODULE SaleCampaigns ----------------------------
(***************************************************************************)
(* A store's sale campaigns and the price they give its products:          *)
(* SaleCampaignsService, SaleCampaignPricingService and the functions of   *)
(* sale-campaign-pricing.ts. One product with its variants; money counts   *)
(* the smallest coin.                                                      *)
(*                                                                         *)
(* The campaign's row is saved before its items are checked, the items are *)
(* deleted and inserted in two steps, and a save of the row writes the     *)
(* items loaded with it back (cascade).                                    *)
(***************************************************************************)
EXTENDS Integers, Sequences, FiniteSets, SequencesExt

CONSTANTS
    Req,          \* slots: requests that may be in flight at once
    Handlers,     \* the handlers that run in this instance
    MaxCampaigns, \* bounds: campaigns, sets of items ever given, the clock
    MaxEdits,
    MaxTime,
    Variant,
    Percent,      \* discounts an item may give
    Catalog       \* prices in the catalog, for the pricing properties

Resolver == {"createSaleCampaign", "updateSaleCampaign", "toggleSaleCampaign", "deleteSaleCampaign"}
CampaignsAssumption ==
    /\ Handlers \subseteq Resolver
    /\ MaxCampaigns \in Nat /\ MaxEdits \in Nat /\ MaxTime \in Nat
    /\ Percent \subseteq 1 .. 99 /\ Catalog \subseteq Nat

VARIABLES
    campaigns,  \* sale_campaigns, numbered as they are made
    items,      \* sale_campaign_items, by campaign
    edits,      \* sets of items given so far
    now,
    job         \* requests in flight

vars == <<campaigns, items, edits, now, job>>

Campaign == 1 .. MaxCampaigns
Time == 0 .. MaxTime
CampaignRow == [state : {"none", "live", "deleted"}, active : BOOLEAN, priority : 0 .. 1, starts : Time, expires : Time]
NoRow == [state |-> "none", active |-> FALSE, priority |-> 0, starts |-> 0, expires |-> MaxTime]
(* An item for one variant or, with "any", for the product; edit tells     *)
(* which request gave it.                                                  *)
Item == [variant : Variant \cup {"any"}, percent : Percent, edit : 1 .. MaxEdits]
Idle == [at |-> "idle", c |-> 0, row |-> NoRow, loaded |-> {}, given |-> {}, valid |-> TRUE, was |-> NoRow]
Job == [at : {"idle", "save", "deleteItems", "insertItems"}, c : 0 .. MaxCampaigns, row : CampaignRow,
        loaded : SUBSET Item, given : SUBSET Item, valid : BOOLEAN, was : CampaignRow]

Init ==
    /\ campaigns = [c \in Campaign |-> NoRow]
    /\ items = [c \in Campaign |-> {}]
    /\ edits = 0
    /\ now = 0
    /\ job = [r \in Req |-> Idle]

Live == {c \in Campaign : campaigns[c].state = "live"}
AtRest == \A r \in Req : job[r].at = "idle"
Return(r) == job' = [job EXCEPT ![r] = Idle]

(* The items of an input: one for the product or one for each of some      *)
(* variants.                                                               *)
Given(e) == {{[variant |-> v, percent |-> q, edit |-> e] : v \in V} : V \in (SUBSET Variant \ {{}}) \cup {{"any"}}, q \in Percent}

assertValidDateRange(row) == row.starts < row.expires

-----------------------------------------------------------------------------
(* Create and change                                                       *)

Start(r, op, at, c, row, given, valid) ==
    /\ op \in Handlers
    /\ job[r].at = "idle"
    /\ job' = [job EXCEPT ![r] = [at |-> at, c |-> c, row |-> row, loaded |-> items[c], given |-> given,
                                  valid |-> valid, was |-> campaigns[c]]]
    /\ edits' = IF given = {} THEN edits ELSE edits + 1
    /\ UNCHANGED <<campaigns, items, now>>

(* The items are checked before anything is saved.                         *)
create(r, c, row, given) ==
    /\ campaigns[c].state = "none"
    /\ \A d \in Campaign : d < c => campaigns[d].state # "none"
    /\ \A q \in Req : job[q].at = "idle" \/ job[q].c # c
    /\ row.state = "live" /\ assertValidDateRange(row)
    /\ edits < MaxEdits
    /\ Start(r, "createSaleCampaign", "save", c, row, given, TRUE)

update(r, c, row, given, valid) ==
    /\ c \in Live
    /\ row.state = "live" /\ assertValidDateRange(row)
    /\ given # {} => edits < MaxEdits
    /\ given = {} => valid
    /\ Start(r, "updateSaleCampaign", "save", c, row, given, valid)

toggle(r, c, active) ==
    /\ c \in Live
    /\ Start(r, "toggleSaleCampaign", "save", c, [campaigns[c] EXCEPT !.active = active], {}, TRUE)

softDelete(r, c) ==
    /\ "deleteSaleCampaign" \in Handlers /\ job[r].at = "idle"
    /\ c \in Live
    /\ campaigns' = [campaigns EXCEPT ![c].state = "deleted"]
    /\ UNCHANGED <<items, edits, now, job>>

(* The row as loaded, with the changes, and the items loaded with it. What *)
(* was deleted in the meantime stays so, or comes back.                    *)
SaveCampaign(r) ==
    LET j == job[r]
    IN
    /\ j.at = "save"
    /\ \/ /\ campaigns' = [campaigns EXCEPT ![j.c] = j.row]
          /\ items' = [items EXCEPT ![j.c] = @ \cup j.loaded]
       \/ campaigns[j.c].state = "deleted" /\ UNCHANGED <<campaigns, items>>
    /\ IF j.given # {} /\ j.valid THEN job' = [job EXCEPT ![r].at = "deleteItems"] ELSE Return(r)
    /\ UNCHANGED <<edits, now>>

(* replaceItems.                                                           *)
DeleteItems(r) ==
    /\ job[r].at = "deleteItems"
    /\ items' = [items EXCEPT ![job[r].c] = {}]
    /\ job' = [job EXCEPT ![r].at = "insertItems"]
    /\ UNCHANGED <<campaigns, edits, now>>

InsertItems(r) ==
    /\ job[r].at = "insertItems"
    /\ items' = [items EXCEPT ![job[r].c] = @ \cup job[r].given]
    /\ Return(r)
    /\ UNCHANGED <<campaigns, edits, now>>

Tick ==
    /\ now < MaxTime
    /\ now' = now + 1
    /\ UNCHANGED <<campaigns, items, edits, job>>

-----------------------------------------------------------------------------
(* Prices                                                                  *)

isWithinWindow(c) == ~(campaigns[c].starts > now) /\ ~(campaigns[c].expires < now)

(* What the store's page lists.                                            *)
findActiveForStore == {c \in Live : campaigns[c].active /\ isWithinWindow(c)}

(* What prices are computed from.                                          *)
findActiveItemsForProducts == {c \in Live : campaigns[c].active /\ campaigns[c].starts <= now /\ campaigns[c].expires >= now}

(* The active items with their campaigns' rank, best first.                *)
Before(x, y) ==
    \/ campaigns[x.c].priority > campaigns[y.c].priority
    \/ campaigns[x.c].priority = campaigns[y.c].priority /\ x.c > y.c
Ranked == SortSeq(SetToSeq(UNION {{[c |-> c, item |-> i] : i \in items[c]} : c \in findActiveItemsForProducts}), Before)

(* Mutant: the best item of either sort.                                   *)
BestOfAll(v) ==
    LET match == {k \in DOMAIN Ranked : Ranked[k].item.variant \in {v, "any"}}
    IN  IF match = {} THEN <<>> ELSE <<Ranked[CHOOSE k \in match : \A l \in match : k <= l]>>

(* The first that names the variant, else the first for the product.       *)
selectWinningCampaignItem(v) ==
    LET first(K) == <<Ranked[CHOOSE k \in K : \A l \in K : k <= l]>>
        own == {k \in DOMAIN Ranked : Ranked[k].item.variant = v}
        any == {k \in DOMAIN Ranked : Ranked[k].item.variant = "any"}
    IN  CASE own # {} -> first(own)
          [] own = {} /\ any # {} -> first(any)
          [] OTHER -> <<>>

(* roundMoney(catalog * (1 - percent/100)), half up.                       *)
computeSaleUnitPrice(catalog, percent) == (catalog * (100 - percent) + 50) \div 100

(* The price of a variant.                                                 *)
resolveEffectiveUnit(catalog, v) ==
    LET w == selectWinningCampaignItem(v)
    IN  IF w = <<>> THEN catalog ELSE computeSaleUnitPrice(catalog, w[1].item.percent)

(* A campaign's reference price counts only above the catalog's; 0 is none.*)
effectiveCompareAt(catalog, compareAt) == IF compareAt > catalog THEN compareAt ELSE 0

(* The struck-through price beside a price.                                *)
honestDisplayCompareAt(catalog, price, compareAt, static) ==
    CASE effectiveCompareAt(catalog, compareAt) > price -> effectiveCompareAt(catalog, compareAt)
      [] effectiveCompareAt(catalog, compareAt) <= price /\ price < catalog -> catalog
      [] effectiveCompareAt(catalog, compareAt) <= price /\ price >= catalog /\ static > price -> static
      [] OTHER -> 0

-----------------------------------------------------------------------------
Rows == {row \in CampaignRow : row.state = "live"}

Next ==
    \/ Tick
    \/ \E r \in Req :
          \/ \E c \in Campaign :
                \/ \E row \in Rows, given \in Given(edits + 1) : create(r, c, row, given)
                \/ \E row \in Rows, given \in Given(edits + 1) \cup {{}}, valid \in BOOLEAN : update(r, c, row, given, valid)
                \/ \E a \in BOOLEAN : toggle(r, c, a)
                \/ softDelete(r, c)
          \/ SaveCampaign(r) \/ DeleteItems(r) \/ InsertItems(r)

Spec == Init /\ [][Next]_vars

-----------------------------------------------------------------------------
(* Properties                                                              *)

(* Every variable has its type, and items belong to a campaign.            *)
TypeOK ==
    /\ \A c \in Campaign : campaigns[c].state = "none" => items[c] = {}
    /\ campaigns \in [Campaign -> CampaignRow]
    /\ items \in [Campaign -> SUBSET Item]
    /\ edits \in 0 .. MaxEdits
    /\ now \in Time
    /\ job \in [Req -> Job]

(* At rest the items of a campaign are those of one request, never a blend *)
(* of two.                                                                 *)
ItemsAreOneEdit == AtRest => \A c \in Live : Cardinality({i.edit : i \in items[c]}) <= 1

(* The page of a store and the checkout agree on which campaigns run, at   *)
(* the moments they begin and end too.                                     *)
ShownIsCharged == findActiveForStore = findActiveItemsForProducts

(* The winner: an item of the variant before one of the product, then the  *)
(* higher priority, then the newer campaign.  Whichever it is, the price   *)
(* charged is not above the catalog's.                                     *)
WinnerIsBest ==
    AtRest => \A v \in Variant :
        LET w == selectWinningCampaignItem(v)
            rank(x) == (IF x.item.variant = v THEN 100 ELSE 0) + 10 * campaigns[x.c].priority + x.c
            all == {x \in [c : findActiveItemsForProducts, item : Item] :
                        x.item \in items[x.c] /\ x.item.variant \in {v, "any"}}
        IN  /\ (w = <<>>) = (all = {})
            /\ w # <<>> => \A x \in all : rank(w[1]) >= rank(x)
            /\ \A catalog \in Catalog : resolveEffectiveUnit(catalog, v) <= catalog

(* A sale never raises a price, never makes it free while the discounted   *)
(* price is at least half a coin, and is within half a coin of the         *)
(* percentage.                                                             *)
SalePriceIsFair ==
    \A catalog \in Catalog, q \in Percent :
        LET price == computeSaleUnitPrice(catalog, q)
            exact == catalog * (100 - q)
        IN  price <= catalog /\ price * 100 - exact \in -49 .. 50

(* The struck-through price is above the price, and not below what the     *)
(* catalog asked before the sale.                                          *)
WasPriceIsHonest ==
    \A catalog, compareAt, static \in Catalog, q \in Percent \cup {0} :
        LET price == computeSaleUnitPrice(catalog, q)
            was == honestDisplayCompareAt(catalog, price, compareAt, static)
        IN  /\ was # 0 => was > price
            /\ price < catalog => was >= catalog
=============================================================================
