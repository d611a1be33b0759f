---------------------------- MODULE ShippingOptions ----------------------------
(***************************************************************************)
(* How a store ships: ShippingOptionsService, and the list of carriers     *)
(* administrators keep, ShippingProvidersService. A store that sells must  *)
(* keep an option customers can choose; the guards count rows before they  *)
(* change one, without a lock.                                             *)
(***************************************************************************)
EXTENDS Integers, FiniteSets

CONSTANTS
    Req,        \* slots: requests that may be in flight at once
    Handlers,   \* the handlers that run in this instance
    Option,     \* options of one store that may ever be made
    Provider

VendorHandlers == {"createShippingOption", "updateShippingOption", "deleteShippingOption"}
AdminHandlers == {"createShippingProvider", "updateShippingProvider", "deleteShippingProvider"}

ShippingAssumption == Handlers \subseteq VendorHandlers \cup AdminHandlers

VARIABLES
    options,     \* store_shipping_options
    providers,   \* shipping_providers
    job          \* requests in flight

vars == <<options, providers, job>>

None == "none"
OptionRow == [state : {"none", "live", "deleted"}, active : BOOLEAN, provider : Provider \cup {None}]
ProviderState == {"none", "active", "inactive"}
Idle == [at |-> "idle", o |-> None, row |-> [state |-> "none", active |-> FALSE, provider |-> None]]
Job == [at : {"idle", "save", "softRemove"}, o : Option \cup {None}, row : OptionRow]

Init ==
    /\ options = [o \in Option |-> Idle.row]
    /\ providers = [p \in Provider |-> "none"]
    /\ job = [r \in Req |-> Idle]

Live == {o \in Option : options[o].state = "live"}
Active == {o \in Live : options[o].active}

(* findByStore with activeOnly, hasShippingOptions: what checkout and the  *)
(* publish checklist see.                                                  *)
hasShippingOptions == Active # {}

Start(r, op, at, o, row) ==
    /\ op \in Handlers
    /\ job[r].at = "idle"
    /\ job' = [job EXCEPT ![r] = [at |-> at, o |-> o, row |-> row]]
    /\ UNCHANGED <<options, providers>>
Return(r) == job' = [job EXCEPT ![r] = Idle]

-----------------------------------------------------------------------------
assertNotLastShippingOption == Cardinality(Live) > 1

assertKeepsAtLeastOneOtherActiveOption(o) == options[o].active => Cardinality(Active) > 1

Referable(p) == p # None => providers[p] # "none"

create(r, o, active, p) ==
    /\ "createShippingOption" \in Handlers
    /\ job[r].at = "idle"
    /\ options[o].state = "none"
    /\ Referable(p)
    /\ options' = [options EXCEPT ![o] = [state |-> "live", active |-> active, provider |-> p]]
    /\ UNCHANGED <<providers, job>>

(* update, adminUpdate: only switching off asks for another active option. *)
update(r, o, active, p) ==
    /\ o \in Live
    /\ ~active => assertKeepsAtLeastOneOtherActiveOption(o)
    /\ Start(r, "updateShippingOption", "save", o, [options[o] EXCEPT !.active = active, !.provider = p])

(* update with the input's isActive left out.                              *)
rename(r, o) ==
    /\ o \in Live
    /\ Start(r, "updateShippingOption", "save", o, options[o])

(* The row as it was loaded, with the changes. The foreign key refuses a   *)
(* carrier that is gone. Of an option removed since, the save either fails *)
(* or brings it back.                                                      *)
Save(r) ==
    /\ job[r].at = "save"
    /\ \/ /\ Referable(job[r].row.provider)
          /\ options' = [options EXCEPT ![job[r].o] = job[r].row]
       \/ /\ ~Referable(job[r].row.provider) \/ options[job[r].o].state = "deleted"
          /\ UNCHANGED options
    /\ Return(r)
    /\ UNCHANGED providers

(* delete, adminDelete.                                                    *)
delete(r, o) ==
    /\ o \in Live
    /\ assertNotLastShippingOption
    /\ assertKeepsAtLeastOneOtherActiveOption(o)
    /\ Start(r, "deleteShippingOption", "softRemove", o, options[o])

SoftRemove(r) ==
    /\ job[r].at = "softRemove"
    /\ options' = [options EXCEPT ![job[r].o].state = "deleted"]
    /\ Return(r)
    /\ UNCHANGED providers

-----------------------------------------------------------------------------
(* ShippingProvidersService                                                *)

createShippingProvider(r, p) ==
    /\ "createShippingProvider" \in Handlers /\ job[r].at = "idle"
    /\ providers[p] = "none"
    /\ providers' = [providers EXCEPT ![p] = "active"]
    /\ UNCHANGED <<options, job>>

updateShippingProvider(r, p, state) ==
    /\ "updateShippingProvider" \in Handlers /\ job[r].at = "idle"
    /\ providers[p] # "none"
    /\ providers' = [providers EXCEPT ![p] = state]
    /\ UNCHANGED <<options, job>>

(* remove; the foreign key is ON DELETE SET NULL.                          *)
deleteShippingProvider(r, p) ==
    /\ "deleteShippingProvider" \in Handlers /\ job[r].at = "idle"
    /\ providers[p] # "none"
    /\ providers' = [providers EXCEPT ![p] = "none"]
    /\ options' = [o \in Option |-> IF options[o].provider = p THEN [options[o] EXCEPT !.provider = None] ELSE options[o]]
    /\ UNCHANGED job

Next ==
    \E r \in Req :
        \/ \E o \in Option :
              \/ \E a \in BOOLEAN, p \in Provider \cup {None} : create(r, o, a, p) \/ update(r, o, a, p)
              \/ rename(r, o) \/ delete(r, o)
        \/ \E p \in Provider :
              \/ createShippingProvider(r, p) \/ deleteShippingProvider(r, p)
              \/ \E state \in {"active", "inactive"} : updateShippingProvider(r, p, state)
        \/ Save(r) \/ SoftRemove(r)

Spec == Init /\ [][Next]_vars

-----------------------------------------------------------------------------
(* Properties                                                              *)

(* Every variable has its type.                                            *)
TypeOK ==
    /\ options \in [Option -> OptionRow]
    /\ providers \in [Provider -> ProviderState]
    /\ job \in [Req -> Job]

(* "leaving isActive:true count at 0 with no code stopping it, silently    *)
(* breaking checkout": a store that can ship stays able to.                *)
StoreKeepsShipping == hasShippingOptions => hasShippingOptions'

(* No option names a carrier that is gone, whichever saves and deletions   *)
(* overlap.                                                                *)
CarrierExists == \A o \in Option : Referable(options[o].provider)
=============================================================================
