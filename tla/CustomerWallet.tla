---------------------------- MODULE CustomerWallet ----------------------------
(***************************************************************************)
(* The saved addresses and saved cards of one customer: UsersService and   *)
(* the card calls of PaymentsService.  A default is moved in two           *)
(* statements, "clear the others" and "save this one", and no transaction  *)
(* holds them together.  A card is also attached to the customer at Omise. *)
(***************************************************************************)
EXTENDS Naturals, FiniteSets

CONSTANTS
    Req,         \* slots: handlers that may be in flight at once
    Handlers,    \* the handlers that run in this instance
    Address,     \* address rows
    Card         \* payment cards, told apart by fingerprint or printed details

(* An admin may do to a customer's addresses what the customer may do; the *)
(* cards are the customer's alone.                                         *)
CustomersResolver == {"createAddress", "updateAddress", "deleteAddress", "setDefaultAddress"}
AccountResolver == CustomersResolver \cup {"addCard", "deleteCard", "setDefaultCard"}
AllHandlers == AccountResolver
WalletAssumption == Handlers \subseteq AllHandlers

VARIABLES
    address,    \* saved_addresses
    method,     \* saved_payment_methods, at most one row of each card
    omise,      \* cards attached to the customer at Omise
    clock,      \* created_at of the next card row
    job         \* handlers in flight

vars == <<address, method, omise, clock, job>>

SavedAddress == [state : {"none", "saved", "deleted"}, isDefault : BOOLEAN]
SavedPaymentMethod == [state : {"none", "saved", "deleted"}, isDefault : BOOLEAN,
                       createdAt : 0 .. Cardinality(Card)]
NoAddress == [state |-> "none", isDefault |-> FALSE]
NoMethod == [state |-> "none", isDefault |-> FALSE, createdAt |-> 0]

Idle == [at |-> "idle", op |-> "none", id |-> "none", isDefault |-> FALSE, row |-> NoMethod]
Job == [at : {"idle", "clearAddress", "saveAddress", "attach", "recheck", "clearCard", "saveCard",
              "detach", "hide"},
        op : AllHandlers \cup {"none"}, id : Address \cup Card \cup {"none"},
        isDefault : BOOLEAN, row : SavedPaymentMethod]

Init ==
    /\ address = [a \in Address |-> NoAddress]
    /\ method = [c \in Card |-> NoMethod]
    /\ omise = {}
    /\ clock = 0
    /\ job = [r \in Req |-> Idle]

Start(r, op, at, what) ==
    /\ op \in Handlers
    /\ job[r].at = "idle"
    /\ job' = [job EXCEPT ![r] = [what EXCEPT !.at = at, !.op = op]]
At(r, at) == job[r].at = at
Goto(r, at) == job' = [job EXCEPT ![r].at = at]
Return(r) == job' = [job EXCEPT ![r] = Idle]

Cleared(rows) == [x \in DOMAIN rows |-> [rows[x] EXCEPT !.isDefault = FALSE]]

Saved(rows) == {x \in DOMAIN rows : rows[x].state = "saved"}
Defaults(rows) == {x \in Saved(rows) : rows[x].isDefault}

-----------------------------------------------------------------------------
(* Addresses: by the customer, or by an admin for a customer that exists   *)

cards == <<method, omise, clock>>

createAddress(r, a, isDefault) ==
    /\ address[a].state = "none"
    /\ Start(r, "createAddress", IF isDefault THEN "clearAddress" ELSE "saveAddress",
             [Idle EXCEPT !.id = a, !.isDefault = isDefault])
    /\ UNCHANGED <<address, cards>>

(* keep: the input says nothing of isDefault.                              *)
updateAddress(r, a, isDefault, keep) ==
    /\ address[a].state = "saved"
    /\ Start(r, "updateAddress", IF isDefault /\ ~keep THEN "clearAddress" ELSE "saveAddress",
             [Idle EXCEPT !.id = a, !.isDefault = IF keep THEN address[a].isDefault ELSE isDefault])
    /\ UNCHANGED <<address, cards>>

deleteAddress(r, a) ==
    /\ "deleteAddress" \in Handlers
    /\ job[r].at = "idle"
    /\ address[a].state = "saved"
    /\ address' = [address EXCEPT ![a].state = "deleted"]
    /\ UNCHANGED <<cards, job>>

setDefaultAddress(r, a) ==
    /\ address[a].state = "saved"
    /\ Start(r, "setDefaultAddress", "clearAddress", [Idle EXCEPT !.id = a, !.isDefault = TRUE])
    /\ UNCHANGED <<address, cards>>

UnsetDefaultAddresses(r) ==
    /\ At(r, "clearAddress")
    /\ address' = Cleared(address)
    /\ Goto(r, "saveAddress")
    /\ UNCHANGED cards

(* Writes the whole row: deletedAt is null again if it was loaded as null. *)
SaveAddress(r) ==
    /\ At(r, "saveAddress")
    /\ address' = [address EXCEPT ![job[r].id] = [state |-> "saved", isDefault |-> job[r].isDefault]]
    /\ Return(r)
    /\ UNCHANGED cards

-----------------------------------------------------------------------------
(* Cards                                                                   *)

resolveShouldBeDefault(isDefault) ==
    Saved(method) = {} \/ isDefault \/ Defaults(method) = {}

(* The lookups by fingerprint, then by last four digits, brand and expiry: *)
(* a live row of the card, one that can be restored, or none.              *)
findPaymentMethodByDetails(c) == method[c].state

addPaymentMethod(r, c, isDefault) ==
    /\ findPaymentMethodByDetails(c) # "saved"
    /\ Start(r, "addCard", "attach",
             [Idle EXCEPT !.id = c, !.isDefault = resolveShouldBeDefault(isDefault)])
    /\ UNCHANGED <<address, cards>>

(* Omise finds the card with the customer, attaches it, or fails.          *)
saveCustomerCard(r) ==
    /\ At(r, "attach")
    /\ \/ omise' = omise \cup {job[r].id} /\ Goto(r, "recheck")
       \/ Return(r) /\ UNCHANGED omise
    /\ UNCHANGED <<address, method, clock>>

(* The card may have been saved meanwhile; a row of it that was deleted is *)
(* restored.                                                               *)
RestoreOrCreate(r) ==
    LET c == job[r].id
        next == IF job[r].isDefault THEN "clearCard" ELSE "saveCard"
    IN  /\ At(r, "recheck")
        /\ \/ /\ findPaymentMethodByDetails(c) = "saved"
              /\ Return(r)
              /\ UNCHANGED method
           \/ /\ findPaymentMethodByDetails(c) = "deleted"
              /\ method' = [method EXCEPT ![c].state = "saved"]
              /\ job' = [job EXCEPT ![r].at = next, ![r].row = [method[c] EXCEPT !.state = "saved"]]
           \/ /\ findPaymentMethodByDetails(c) = "none"
              /\ job' = [job EXCEPT ![r].at = next]
              /\ UNCHANGED method
        /\ UNCHANGED <<address, omise, clock>>

clearDefaultPaymentMethods(r) ==
    /\ At(r, "clearCard")
    /\ method' = Cleared(method)
    /\ Goto(r, "saveCard")
    /\ UNCHANGED <<address, omise, clock>>

(* A row that was loaded is written back whole; a new one is refused by    *)
(* the unique index when the card has been saved meanwhile.                *)
SaveCard(r) ==
    LET c == job[r].id
    IN  /\ At(r, "saveCard")
        /\ \/ /\ job[r].row # NoMethod
              /\ method' = [method EXCEPT ![c] = [job[r].row EXCEPT !.isDefault = job[r].isDefault]]
              /\ UNCHANGED clock
           \/ /\ job[r].row = NoMethod
              /\ IF method[c].state = "saved" THEN UNCHANGED <<method, clock>>
                 ELSE /\ method' = [method EXCEPT ![c] =
                             [state |-> "saved", isDefault |-> job[r].isDefault, createdAt |-> clock]]
                      /\ clock' = clock + 1
        /\ Return(r)
        /\ UNCHANGED <<address, omise>>

deletePaymentMethod(r, c) ==
    /\ method[c].state = "saved"
    /\ Start(r, "deleteCard", "detach", [Idle EXCEPT !.id = c, !.isDefault = method[c].isDefault])
    /\ UNCHANGED <<address, cards>>

(* Best effort: an error of Omise is logged and the deletion goes on.      *)
deleteOmiseCustomerCard(r) ==
    /\ At(r, "detach")
    /\ omise' \in {omise, omise \ {job[r].id}}
    /\ Goto(r, "hide")
    /\ UNCHANGED <<address, method, clock>>

(* The oldest card that is left becomes the default, if one is needed.     *)
SoftDeleteAndPromote(r) ==
    LET rows == [method EXCEPT ![job[r].id].state = "deleted"]
        left == Saved(rows)
        oldest == CHOOSE c \in left : \A d \in left : rows[c].createdAt <= rows[d].createdAt
    IN  /\ At(r, "hide")
        /\ method' = rows
        /\ IF left # {} /\ (job[r].isDefault \/ Defaults(rows) = {})
           THEN job' = [job EXCEPT ![r].at = "clearCard", ![r].id = oldest,
                                   ![r].isDefault = TRUE, ![r].row = rows[oldest]]
           ELSE Return(r)
        /\ UNCHANGED <<address, omise, clock>>

setDefaultPaymentMethod(r, c) ==
    /\ method[c].state = "saved"
    /\ Start(r, "setDefaultCard", "clearCard",
             [Idle EXCEPT !.id = c, !.isDefault = TRUE, !.row = method[c]])
    /\ UNCHANGED <<address, cards>>

Next ==
    \E r \in Req :
      \/ \E a \in Address, d \in BOOLEAN : createAddress(r, a, d)
      \/ \E a \in Address, d \in BOOLEAN, keep \in BOOLEAN : updateAddress(r, a, d, keep)
      \/ \E a \in Address : deleteAddress(r, a) \/ setDefaultAddress(r, a)
      \/ UnsetDefaultAddresses(r) \/ SaveAddress(r)
      \/ \E c \in Card, d \in BOOLEAN : addPaymentMethod(r, c, d)
      \/ \E c \in Card : deletePaymentMethod(r, c) \/ setDefaultPaymentMethod(r, c)
      \/ saveCustomerCard(r) \/ RestoreOrCreate(r) \/ clearDefaultPaymentMethods(r) \/ SaveCard(r)
      \/ deleteOmiseCustomerCard(r) \/ SoftDeleteAndPromote(r)

Spec == Init /\ [][Next]_vars

-----------------------------------------------------------------------------
(* Properties                                                              *)

(* Every variable holds what its column or its handler may hold.           *)
TypeOK ==
    /\ address \in [Address -> SavedAddress]
    /\ method \in [Card -> SavedPaymentMethod]
    /\ omise \subseteq Card
    /\ clock \in Nat
    /\ job \in [Req -> Job]

(* "If this is set as default, unset other default addresses"              *)
AtMostOneDefaultAddress == Cardinality(Defaults(address)) <= 1

(* Between requests a customer with cards has exactly one default card:    *)
(* the first card becomes it, a deletion hands it on, a restored card does *)
(* not bring an old default back.                                          *)
OneDefaultCard ==
    (\A r \in Req : At(r, "idle")) /\ Saved(method) # {} => Cardinality(Defaults(method)) = 1

(* Between requests every saved card is attached at Omise, so that it can  *)
(* be charged.                                                             *)
SavedCardIsAtOmise == (\A r \in Req : At(r, "idle")) => Saved(method) \subseteq omise
=============================================================================
