------------------------------ MODULE Payouts -------------------------------
(***************************************************************************)
(* The payouts of one store and its transfers at Omise: PayoutsService,    *)
(* its scheduler and the transfer webhook.  PayoutLedger computes amounts; *)
(* here a rail's lifetime net is a number of units, and a payout takes     *)
(* units of it.                                                            *)
(*                                                                         *)
(* A handler in flight is job[r]: where it stands and what it has read.    *)
(* A transaction is one step: it locks the store row first.  The POST of a *)
(* transfer is a step of its own, between two transactions.                *)
(***************************************************************************)
EXTENDS Integers, FiniteSets, FiniteSetsExt

CONSTANTS
    Req,             \* slots: handlers that may be in flight at once
    Handlers,        \* the handlers that run in this instance
    MinPayout,       \* payout.minPayoutAmount
    MaxEarned,       \* bound: lifetime net of a rail
    MaxPayouts,      \* bound: payout rows
    MaxTransfers,    \* bound: transfers posted to Omise
    MaxFaults        \* bound: handlers that die, answers of Omise that are lost

AllHandlers == {"request", "trigger", "schedule", "requestManual", "settle", "reject", "webhook"}

PayoutsAssumption ==
    /\ Handlers \subseteq AllHandlers
    /\ {MinPayout, MaxEarned, MaxPayouts, MaxTransfers, MaxFaults} \subseteq Nat

PayoutStatus == {"pending", "processing", "completed", "failed"}
PayoutSettlementRail == {"omise", "manual"}
PayoutId == 1 .. MaxPayouts
TransferId == 1 .. MaxTransfers
None == 0    \* null: no transferReference, no payout, no transfer

VARIABLES
    earned,     \* lifetime net of each rail: what its eligible orders sum to
    peak,       \* history: the most a rail's eligible orders ever summed to
    recipient,  \* Omise has verified the store's recipient
    storeRecipient, \* the store's copy: omiseRecipientStatus = ACTIVE
    payout,     \* payout rows in creation order; "none" is no row yet
    transfer,   \* transfers at Omise; "none" is not posted
    job,        \* handlers in flight
    faults

vars == <<earned, peak, recipient, storeRecipient, payout, transfer, job, faults>>

Payout == [status : PayoutStatus \cup {"none"}, settlementRail : PayoutSettlementRail,
           amount : Nat, transferReference : TransferId \cup {None}]
Transfer == [state : {"none", "created", "sent", "paid", "failed"}, payout : PayoutId \cup {None},
             amount : Nat]
Job == [at : {"idle", "summary", "submit", "create", "post", "postSave", "claim", "claimedPost",
              "claimedSave", "manual", "settle", "reject", "refetch", "webhookSave"},
        op : AllHandlers \cup {"none"},
        payout : PayoutId \cup {None}, amount : Nat, row : Payout,
        transfer : TransferId \cup {None}, event : {"none", "create", "send", "pay", "fail"},
        fetched : {"none", "created", "sent", "paid", "failed"}]

NoRow == [status |-> "none", settlementRail |-> "omise", amount |-> 0, transferReference |-> None]
Idle == [at |-> "idle", op |-> "none", payout |-> None, amount |-> 0, row |-> NoRow,
         transfer |-> None, event |-> "none", fetched |-> "none"]

PAID_OUT_STATUSES == {"pending", "processing", "completed"}
PENDING_STATUSES == {"pending", "processing"}

InRail(rail, statuses) ==
    {p \in PayoutId : payout[p].settlementRail = rail /\ payout[p].status \in statuses}
calculateTotalPaidOut(rail) ==
    MapThenSumSet(LAMBDA p : payout[p].amount, InRail(rail, PAID_OUT_STATUSES))
calculatePendingPayoutAmount(rail) ==
    MapThenSumSet(LAMBDA p : payout[p].amount, InRail(rail, PENDING_STATUSES))

(* What the breakdown leaves unpaid: never negative, also when orders that *)
(* were paid out stop counting.                                            *)
AvailableBalance(rail) ==
    LET left == earned[rail] - calculateTotalPaidOut(rail)
    IN  IF left <= 0 THEN 0 ELSE left

IsOldest(p, S) == p \in S /\ \A q \in S : p <= q
Orphans == {p \in InRail("omise", {"pending"}) : payout[p].transferReference = None}

RowsLeft == \E p \in PayoutId : payout[p].status = "none"    \* bound

Init ==
    /\ earned = [rail \in PayoutSettlementRail |-> 0]
    /\ peak = earned
    /\ recipient = FALSE
    /\ storeRecipient = FALSE
    /\ payout = [p \in PayoutId |-> NoRow]
    /\ transfer = [t \in TransferId |-> [state |-> "none", payout |-> None, amount |-> 0]]
    /\ job = [r \in Req |-> Idle]
    /\ faults = 0

Start(r, op, at, what) ==
    /\ op \in Handlers
    /\ job[r].at = "idle"
    /\ job' = [job EXCEPT ![r] = [what EXCEPT !.at = at, !.op = op]]
At(r, at) == job[r].at = at
Goto(r, at) == job' = [job EXCEPT ![r].at = at]
Return(r) == job' = [job EXCEPT ![r] = Idle]

money == <<earned, peak>>
store == <<recipient, storeRecipient>>

-----------------------------------------------------------------------------
(* Omise rail: request, trigger, schedule                                  *)

(* Both prefer to finish an orphan (a pending payout that has no transfer) *)
(* over creating a second payout.                                          *)
FindOrphan(r, op) ==
    /\ \/ \E p \in Orphans : /\ IsOldest(p, Orphans)
                             /\ Start(r, op, "submit", [Idle EXCEPT !.payout = p])
       \/ Orphans = {} /\ Start(r, op, "summary", Idle)
    /\ UNCHANGED <<money, store, payout, transfer, faults>>

requestPayout(r) == FindOrphan(r, "request")
triggerPayout(r) == FindOrphan(r, "trigger")

(* The summary of getPayoutSummary decides: a vendor asks for the whole    *)
(* balance and only if nothing is pending, an admin for any part of it.    *)
(* A refused request ends here.                                            *)
RequestOmise(r) ==
    /\ At(r, "summary")
    /\ job[r].op = "request"
    /\ IF /\ calculatePendingPayoutAmount("omise") = 0
          /\ AvailableBalance("omise") > 0
          /\ AvailableBalance("omise") >= MinPayout
       THEN job' = [job EXCEPT ![r].at = "create", ![r].amount = AvailableBalance("omise")]
       ELSE Return(r)
    /\ UNCHANGED <<money, store, payout, transfer, faults>>

TriggerOmise(r, amount) ==
    /\ At(r, "summary")
    /\ job[r].op = "trigger"
    /\ IF amount > 0 /\ amount <= AvailableBalance("omise")
       THEN job' = [job EXCEPT ![r].at = "create", ![r].amount = amount]
       ELSE Return(r)
    /\ UNCHANGED <<money, store, payout, transfer, faults>>

(* One store of the nightly loop; it does not look for orphans.            *)
runScheduledPayouts(r) ==
    /\ AvailableBalance("omise") >= MinPayout
    /\ calculatePendingPayoutAmount("omise") = 0
    /\ Start(r, "schedule", "create", [Idle EXCEPT !.amount = AvailableBalance("omise")])
    /\ UNCHANGED <<money, store, payout, transfer, faults>>

(* Reads the recipient at Omise, or keeps what the store says when Omise   *)
(* does not answer; the handler ends unless the recipient is active.       *)
refreshStoreRecipientStatus(r, from, to) ==
    /\ At(r, from)
    /\ storeRecipient' \in {recipient, storeRecipient}
    /\ IF storeRecipient' THEN Goto(r, to) ELSE Return(r)
    /\ UNCHANGED <<money, recipient, payout, transfer, faults>>

(* Mutant: the balance is not looked at again under the lock.              *)
InsertUnchecked(r) ==
    LET row == [status |-> "pending", settlementRail |-> "omise", amount |-> job[r].amount,
                transferReference |-> None]
    IN  /\ At(r, "post")
        /\ job[r].payout = None
        /\ \E p \in PayoutId :
              /\ IsOldest(p, {q \in PayoutId : payout[q].status = "none"})
              /\ payout' = [payout EXCEPT ![p] = row]
              /\ job' = [job EXCEPT ![r].payout = p, ![r].row = row]
        /\ UNCHANGED <<money, store, transfer, faults>>

(* The transaction under the store's lock: nothing may be pending on the   *)
(* rail and the amount must still be available.                            *)
InsertOmisePayout(r) ==
    LET row == [status |-> "pending", settlementRail |-> "omise", amount |-> job[r].amount,
                transferReference |-> None]
    IN  /\ At(r, "post")
        /\ job[r].payout = None
        /\ IF /\ RowsLeft
              /\ InRail("omise", PENDING_STATUSES) = {}
              /\ job[r].amount <= AvailableBalance("omise")
           THEN \E p \in PayoutId :
                  /\ IsOldest(p, {q \in PayoutId : payout[q].status = "none"})
                  /\ payout' = [payout EXCEPT ![p] = row]
                  /\ job' = [job EXCEPT ![r].payout = p, ![r].row = row]
           ELSE Return(r) /\ UNCHANGED payout
        /\ UNCHANGED <<money, store, transfer, faults>>

(* applyOmiseTransfer, the call: Omise creates the transfer and answers,   *)
(* or refuses it, or creates it and the answer is lost (15 s timeout).     *)
PostTransfer(r, from, to, refused) ==
    LET p == job[r].payout
    IN  /\ At(r, from)
        /\ p # None
        /\ \/ \E t \in TransferId, state \in {"created", "paid"} :
                /\ IsOldest(t, {u \in TransferId : transfer[u].state = "none"})
                /\ transfer' = [transfer EXCEPT ![t] =
                       [state |-> state, payout |-> p, amount |-> job[r].row.amount]]
                /\ \/ /\ job' = [job EXCEPT ![r].at = to,
                             ![r].row.transferReference = t,
                             ![r].row.status = IF state = "paid" THEN "completed" ELSE "processing"]
                      /\ UNCHANGED faults
                   \/ /\ faults < MaxFaults
                      /\ faults' = faults + 1
                      /\ job' = refused
           \/ job' = refused /\ UNCHANGED <<transfer, faults>>
        /\ UNCHANGED <<money, store, payout>>

(* A new payout whose transfer failed stays as it was inserted: pending    *)
(* without a transfer.                                                     *)
applyOmiseTransfer(r) ==
    PostTransfer(r, "post", "postSave", [job EXCEPT ![r] = Idle])

(* payoutRepository.save(payout): the columns the handler loaded.          *)
SaveOmisePayout(r) ==
    /\ At(r, "postSave") \/ At(r, "claimedSave")
    /\ payout' = [payout EXCEPT ![job[r].payout] = job[r].row]
    /\ Return(r)
    /\ UNCHANGED <<money, store, transfer, faults>>

-----------------------------------------------------------------------------
(* Retrying an orphan                                                      *)

(* Mutant: the row is not looked at again under its lock.                  *)
ClaimUnchecked(r) ==
    /\ At(r, "claim")
    /\ payout' = [payout EXCEPT ![job[r].payout].status = "processing"]
    /\ job' = [job EXCEPT ![r].at = "claimedPost", ![r].row = payout'[job[r].payout]]
    /\ UNCHANGED <<money, store, transfer, faults>>

(* Only the caller that flips the row to PROCESSING goes on.               *)
claimOrphanPayoutForSubmission(r) ==
    LET p == job[r].payout
    IN  /\ At(r, "claim")
        /\ IF payout[p].status = "pending" /\ payout[p].transferReference = None
           THEN /\ payout' = [payout EXCEPT ![p].status = "processing"]
                /\ job' = [job EXCEPT ![r].at = "claimedPost", ![r].row = payout'[p]]
           ELSE Return(r) /\ UNCHANGED payout
        /\ UNCHANGED <<money, store, transfer, faults>>

(* A failed transfer puts the claimed payout back to PENDING.              *)
submitPayoutToOmise(r) ==
    PostTransfer(r, "claimedPost", "claimedSave",
                 [job EXCEPT ![r].at = "claimedSave", ![r].row.status = "pending"])

-----------------------------------------------------------------------------
(* Manual rail                                                             *)

requestManualPayout(r) ==
    /\ calculatePendingPayoutAmount("manual") = 0
    /\ AvailableBalance("manual") > 0
    /\ AvailableBalance("manual") >= MinPayout
    /\ Start(r, "requestManual", "manual", Idle)
    /\ UNCHANGED <<money, store, payout, transfer, faults>>

(* The amount is the balance found under the lock, not the one shown.      *)
InsertManualPayout(r) ==
    /\ At(r, "manual")
    /\ IF RowsLeft /\ InRail("manual", PENDING_STATUSES) = {} /\ AvailableBalance("manual") > 0
       THEN \E p \in PayoutId :
              /\ IsOldest(p, {q \in PayoutId : payout[q].status = "none"})
              /\ payout' = [payout EXCEPT ![p] =
                     [status |-> "pending", settlementRail |-> "manual",
                      amount |-> AvailableBalance("manual"), transferReference |-> None]]
       ELSE UNCHANGED payout
    /\ Return(r)
    /\ UNCHANGED <<money, store, transfer, faults>>

resolvePendingManualPayout(r, op) ==
    /\ \E p \in InRail("manual", {"pending"}) : Start(r, op, op, [Idle EXCEPT !.payout = p])
    /\ UNCHANGED <<money, store, payout, transfer, faults>>

(* Mutant: the payout is not looked at again under the lock.               *)
SettleUnchecked(r) ==
    /\ At(r, "settle")
    /\ payout' = [payout EXCEPT ![job[r].payout].status = "completed"]
    /\ Return(r)
    /\ UNCHANGED <<money, store, transfer, faults>>

DecideManual(r, at, status) ==
    LET p == job[r].payout
    IN  /\ At(r, at)
        /\ payout' = IF payout[p].status = "pending"
                     THEN [payout EXCEPT ![p].status = status] ELSE payout
        /\ Return(r)
        /\ UNCHANGED <<money, store, transfer, faults>>

settleManualPayout(r) == DecideManual(r, "settle", "completed")

rejectManualPayout(r) == DecideManual(r, "reject", "failed")

-----------------------------------------------------------------------------
(* The transfer webhook                                                    *)

(* Events Omise may send about a transfer in a state; any of them may come *)
(* late, twice or never.                                                   *)
TransferEvents(state) ==
    CASE state = "created" -> {"create"}
      [] state = "sent" -> {"create", "send"}
      [] state = "paid" -> {"create", "send", "pay"}
      [] state = "failed" -> {"create", "send", "fail"}
      [] OTHER -> {}

(* A settled payout is left alone.                                         *)
handleOmiseTransferWebhook(r, t, event) ==
    /\ event \in TransferEvents(transfer[t].state)
    /\ \E p \in PayoutId :
          /\ payout[p].transferReference = t
          /\ payout[p].status \notin {"completed", "failed"}
          /\ Start(r, "webhook", "refetch", [Idle EXCEPT
                 !.payout = p, !.row = payout[p], !.transfer = t, !.event = event])
    /\ UNCHANGED <<money, store, payout, transfer, faults>>

(* The event only says where to look: the transfer is fetched again, and   *)
(* when that fails the event is dropped.                                   *)
RefetchTransfer(r) ==
    /\ At(r, "refetch")
    /\ \/ job' = [job EXCEPT ![r].at = "webhookSave",
                             ![r].fetched = transfer[job[r].transfer].state]
       \/ Return(r)
    /\ UNCHANGED <<money, store, payout, transfer, faults>>

(* Mutant: the re-fetched transfer decides nothing, a send ends the case.  *)
OutcomeOfEventOnly(event, fetched) ==
    IF event = "pay" THEN "completed" ELSE IF event = "send" THEN "processing" ELSE "none"

OutcomeOf(event, fetched) ==
    IF event = "pay" \/ fetched = "paid" THEN "completed"
    ELSE IF event = "fail" \/ fetched = "failed" THEN "failed"
    ELSE IF event = "send" \/ fetched = "sent" THEN "processing"
    ELSE "none"

SaveWebhook(r) ==
    LET j == job[r]
        status == OutcomeOf(j.event, j.fetched)
    IN  /\ At(r, "webhookSave")
        /\ payout' = IF status = "none" THEN payout
                     ELSE [payout EXCEPT ![j.payout] = [j.row EXCEPT !.status = status]]
        /\ Return(r)
        /\ UNCHANGED <<money, store, transfer, faults>>

-----------------------------------------------------------------------------
(* The environment                                                         *)

(* Orders are paid and delivered, or leave the sum (processing, refunded). *)
Earn(rail) ==
    /\ \E n \in 0 .. MaxEarned :
          /\ n # earned[rail]
          /\ earned' = [earned EXCEPT ![rail] = n]
          /\ peak' = [peak EXCEPT ![rail] = IF n > @ THEN n ELSE @]
    /\ UNCHANGED <<store, payout, transfer, job, faults>>

VerifyRecipient ==
    /\ ~recipient
    /\ recipient' = TRUE
    /\ UNCHANGED <<money, storeRecipient, payout, transfer, job, faults>>

OmiseMoves(t) ==
    /\ \E s \in {"sent", "paid", "failed"} :
          /\ <<transfer[t].state, s>> \in {<<"created", "sent">>, <<"sent", "paid">>,
                                          <<"sent", "failed">>}
          /\ transfer' = [transfer EXCEPT ![t].state = s]
    /\ UNCHANGED <<money, store, payout, job, faults>>

HandlerDies(r) ==
    /\ job[r].at # "idle"
    /\ faults < MaxFaults
    /\ faults' = faults + 1
    /\ Return(r)
    /\ UNCHANGED <<money, store, payout, transfer>>

Continue(r) ==
    \/ RequestOmise(r)
    \/ \E n \in 0 .. MaxEarned : TriggerOmise(r, n)
    \/ refreshStoreRecipientStatus(r, "create", "post")
    \/ refreshStoreRecipientStatus(r, "submit", "claim")
    \/ InsertOmisePayout(r)
    \/ applyOmiseTransfer(r)
    \/ claimOrphanPayoutForSubmission(r)
    \/ submitPayoutToOmise(r)
    \/ SaveOmisePayout(r)
    \/ InsertManualPayout(r)
    \/ settleManualPayout(r)
    \/ rejectManualPayout(r)
    \/ RefetchTransfer(r)
    \/ SaveWebhook(r)

Next ==
    \/ \E r \in Req :
          \/ requestPayout(r)
          \/ triggerPayout(r)
          \/ runScheduledPayouts(r)
          \/ requestManualPayout(r)
          \/ resolvePendingManualPayout(r, "settle")
          \/ resolvePendingManualPayout(r, "reject")
          \/ \E t \in TransferId, e \in {"create", "send", "pay", "fail"} :
                 handleOmiseTransferWebhook(r, t, e)
          \/ Continue(r)
          \/ HandlerDies(r)
    \/ \E rail \in PayoutSettlementRail : Earn(rail)
    \/ VerifyRecipient
    \/ \E t \in TransferId : OmiseMoves(t)

Spec == Init /\ [][Next]_vars

-----------------------------------------------------------------------------
(* Properties                                                              *)

TypeOK ==
    /\ earned \in [PayoutSettlementRail -> 0 .. MaxEarned]
    /\ peak \in [PayoutSettlementRail -> 0 .. MaxEarned]
    /\ recipient \in BOOLEAN
    /\ storeRecipient \in BOOLEAN
    /\ payout \in [PayoutId -> Payout]
    /\ transfer \in [TransferId -> Transfer]
    /\ job \in [Req -> Job]
    /\ faults \in 0 .. MaxFaults

(* At most one payout of a rail is under way: the check under the store's  *)
(* lock (assertNoConcurrentPendingPayout) is what serialises two requests. *)
OnePendingPayout ==
    \A rail \in PayoutSettlementRail : Cardinality(InRail(rail, PENDING_STATUSES)) <= 1

(* Payout rows never promise more than the store's orders ever came to,    *)
(* whichever requests raced and whatever was refunded in between.          *)
NoOverdraft ==
    \A rail \in PayoutSettlementRail : calculateTotalPaidOut(rail) <= peak[rail]

(* Of the handlers that retry a payout without a transfer, only the one    *)
(* that won the claim calls Omise and saves, also when transfers are       *)
(* refused, answers lost and processes killed: the comments on             *)
(* submitPayoutToOmise and its claim.                                      *)
Claimed(r, p) == job[r].at \in {"claimedPost", "claimedSave"} /\ job[r].payout = p
ClaimIsExclusive == \A p \in PayoutId, r, q \in Req : Claimed(r, p) /\ Claimed(q, p) => r = q

(* The transfers of a payout that Omise has not failed.                    *)
Live(p) == {t \in TransferId : transfer[t].payout = p /\ transfer[t].state # "failed"}

(* A payout is transferred once: what the comments on createOmisePayout    *)
(* (a double click must not pay the store twice) and on submitPayoutToOmise*)
(* (one caller calls Omise) come to. They overlook that the payout is an   *)
(* orphan while createOmisePayout, which claims nothing, posts it.         *)
OneTransferPerPayout == \A p \in PayoutId : Cardinality(Live(p)) <= 1

(* What a settled Omise payout says happened at Omise: completed only if   *)
(* its transfer was paid, failed (money available again) only if it was    *)
(* not.                                                                    *)
SettledOnEvidence ==
    \A p \in PayoutId :
        payout[p].settlementRail = "omise" =>
            /\ payout[p].status = "completed" => transfer[payout[p].transferReference].state = "paid"
            /\ payout[p].status = "failed" => transfer[payout[p].transferReference].state = "failed"

(* A decision on a payout is not taken back: of two administrators who     *)
(* decide at once one finds it settled, and so does a late or repeated     *)
(* event, unless another webhook has loaded the payout and not saved it.   *)
SettledIsFinal ==
    \A p \in PayoutId :
        payout[p].status \in {"completed", "failed"} => payout'[p].status = payout[p].status
=============================================================================
