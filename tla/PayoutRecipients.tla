--------------------------- MODULE PayoutRecipients ---------------------------
(***************************************************************************)
(* The bank account a store is paid to and the Omise recipient that stands *)
(* for it: StoresService, and PayoutsService before it posts a transfer.   *)
(*                                                                         *)
(* The account is saved here and linked at Omise in a step of its own. The *)
(* store's row keeps the recipient and what Omise last said of it, and     *)
(* every handler saves the row as it loaded it. Omise verifies a recipient *)
(* in its own time and tells by webhook, which may come late or twice.     *)
(***************************************************************************)
EXTENDS Integers, FiniteSets

CONSTANTS
    Req,            \* slots: requests that may be in flight at once
    Handlers,       \* the handlers that run in this instance
    MaxBank,        \* bank accounts, 0 for none
    MaxRecipients,  \* bound on the recipients made at Omise
    Faults          \* whether calls of Omise may fail

Resolver == {"updateStorePayout", "linkStoreOmiseRecipient", "myStore"}
Callers == {"webhook", "payout"}
AllHandlers == Resolver \cup Callers

RecipientsAssumption ==
    /\ Handlers \subseteq AllHandlers
    /\ MaxBank \in Nat /\ MaxRecipients \in Nat
    /\ Faults \in BOOLEAN

Bank == 0 .. MaxBank
Recipient == 1 .. MaxRecipients

VARIABLES
    store,    \* the store's row
    omise,    \* the recipients at Omise
    events,   \* recipient webhooks sent
    job       \* requests in flight

vars == <<store, omise, events, job>>

OmiseRecipientStatus == {"not_connected", "pending", "active", "failed"}
StoreRow == [bank : Bank, status : OmiseRecipientStatus, recipient : 0 .. MaxRecipients]
NoStore == [bank |-> 0, status |-> "not_connected", recipient |-> 0]
Idle == [at |-> "idle", row |-> NoStore]
Job == [at : {"idle", "link", "snapshot", "payoutRefresh", "save"}, row : StoreRow]

Init ==
    /\ store = NoStore
    /\ omise = [c \in Recipient |-> [bank |-> 0, verified |-> FALSE]]
    /\ events = {}
    /\ job = [r \in Req |-> Idle]

Made == {c \in Recipient : omise[c].bank # 0}

Start(r, op, at, row) ==
    /\ op \in Handlers
    /\ job[r].at = "idle"
    /\ job' = [job EXCEPT ![r] = [at |-> at, row |-> row]]
    /\ UNCHANGED <<store, omise, events>>
At(r, at) == job[r].at = at
Keep(r, row) == job' = [job EXCEPT ![r] = [at |-> "save", row |-> row]]
Return(r) == job' = [job EXCEPT ![r] = Idle]

-----------------------------------------------------------------------------
(* The bank account and its link                                           *)

updateStorePayout(r, bank) ==
    Start(r, "updateStorePayout", "save",
          IF bank = store.bank THEN store ELSE [store EXCEPT !.bank = bank, !.status = "not_connected"])

linkStoreOmiseRecipient(r) == Start(r, "linkStoreOmiseRecipient", "link", store)

(* syncOmiseRecipient updates the recipient it has, or makes one.          *)
Target(row) == row.recipient

Answer(c) == IF omise[c].verified THEN "active" ELSE "pending"

(* syncOmiseRecipient: Omise takes the loaded account, unverified unless   *)
(* it is the one it has.                                                   *)
Link(r) ==
    LET row == job[r].row
        c == IF Target(row) # 0 THEN Target(row) ELSE CHOOSE x \in Recipient \ Made : \A y \in Recipient \ Made : x <= y
    IN
    /\ At(r, "link")
    /\ row.bank # 0
    /\ Target(row) # 0 \/ Made # Recipient
    /\ omise' = IF omise[c].bank = row.bank THEN omise ELSE [omise EXCEPT ![c] = [bank |-> row.bank, verified |-> FALSE]]
    /\ Keep(r, [row EXCEPT !.recipient = c,
                           !.status = IF omise[c].bank = row.bank THEN Answer(c) ELSE "pending"])
    /\ UNCHANGED <<store, events>>

LinkNothing(r) ==
    /\ At(r, "link")
    /\ job[r].row.bank = 0
    /\ Keep(r, [job[r].row EXCEPT !.status = "not_connected"])
    /\ UNCHANGED <<store, omise, events>>

LinkFails(r) ==
    /\ Faults
    /\ At(r, "link")
    /\ job[r].row.bank # 0
    /\ Keep(r, [job[r].row EXCEPT !.status = "failed"])
    /\ UNCHANGED <<store, omise, events>>

Save(r) ==
    /\ At(r, "save")
    /\ store' = job[r].row
    /\ Return(r)
    /\ UNCHANGED <<omise, events>>

-----------------------------------------------------------------------------
(* What Omise says of the recipient                                        *)

(* External: Omise verifies the account it has and says so.                *)
Verify(c) ==
    /\ omise[c].bank # 0
    /\ ~omise[c].verified
    /\ omise' = [omise EXCEPT ![c].verified = TRUE]
    /\ events' = events \cup {c}
    /\ UNCHANGED <<store, job>>

(* Nothing is asked for an account that was changed and not linked.        *)
MayRefresh(row) == row.status # "not_connected" /\ row.recipient # 0

refreshOmiseRecipientStatus(r) ==
    /\ MayRefresh(store)
    /\ Start(r, "myStore", "snapshot", store)

handleOmiseRecipientWebhook(r, c) ==
    /\ c \in events
    /\ store.recipient = c
    /\ MayRefresh(store)
    /\ Start(r, "webhook", "snapshot", store)

(* applyOmiseRecipientSnapshot: the live answer, else the webhook's        *)
(* payload, else nothing; either way the row is saved.                     *)
applyOmiseRecipientSnapshot(r) ==
    LET row == job[r].row
    IN
    /\ At(r, "snapshot")
    /\ \/ Keep(r, [row EXCEPT !.status = Answer(row.recipient)])
       \/ Faults /\ Keep(r, row)
       \/ Faults /\ row.recipient \in events /\ Keep(r, [row EXCEPT !.status = "active"])
    /\ UNCHANGED <<store, omise, events>>

(* PayoutsService asks before every transfer.                              *)
createOmisePayout(r) == store.recipient # 0 /\ Start(r, "payout", "payoutRefresh", store)

refreshStoreRecipientStatus(r) ==
    LET row == job[r].row
    IN
    /\ At(r, "payoutRefresh")
    /\ IF Answer(row.recipient) # row.status
         THEN Keep(r, [row EXCEPT !.status = Answer(row.recipient)])
         ELSE Return(r)
    /\ UNCHANGED <<store, omise, events>>

Next ==
    \/ \E c \in Recipient : Verify(c)
    \/ \E r \in Req :
          \/ \E b \in Bank \ {0} : updateStorePayout(r, b)
          \/ linkStoreOmiseRecipient(r) \/ Link(r) \/ LinkNothing(r) \/ LinkFails(r)
          \/ refreshOmiseRecipientStatus(r)
          \/ \E c \in Recipient : handleOmiseRecipientWebhook(r, c)
          \/ applyOmiseRecipientSnapshot(r)
          \/ createOmisePayout(r) \/ refreshStoreRecipientStatus(r)
          \/ Save(r)

(* What a request goes on with once it started.                            *)
Finish(r) == Link(r) \/ applyOmiseRecipientSnapshot(r) \/ Save(r)

Spec == Init /\ [][Next]_vars

-----------------------------------------------------------------------------
(* Properties                                                              *)

(* Every variable has its type.                                            *)
TypeOK ==
    /\ store \in StoreRow
    /\ omise \in [Recipient -> [bank : Bank, verified : BOOLEAN]]
    /\ events \subseteq Recipient
    /\ job \in [Req -> Job]

(* "must not be overwritten by a stale Omise recipient that still reports  *)
(* verified/active for the previous account": a store that is active is    *)
(* paid to the account it has saved.                                       *)
ActiveMatchesBank == store.status = "active" => store.recipient # 0 /\ omise[store.recipient].bank = store.bank

(* "Creates a new recipient (or updates the existing one)": a store has    *)
(* one recipient at Omise at most.                                         *)
OneRecipient == Cardinality(Made) <= 1

(* A linked account is not verified yet: the verdict comes with the        *)
(* webhook even if nobody opens the settings.                              *)
Pending == store.status = "pending"
=============================================================================
