--------------------------- MODULE CustomerAccounts ---------------------------
(***************************************************************************)
(* Customer accounts: sign-in with a one-time code sent to a phone, change *)
(* of phone, deletion with a grace period, the admin's account handlers,   *)
(* and the guest orders that follow a phone into an account.               *)
(*                                                                         *)
(* A handler in flight is job[r].  It loads rows, decides, and saves what  *)
(* it loaded: the ORM's save writes back every column of the loaded row    *)
(* that differs from the table, so job[r].row is what a save makes the     *)
(* table's row equal to.  Nothing here runs in a transaction.              *)
(***************************************************************************)
EXTENDS Naturals, FiniteSets

CONSTANTS
    Req,               \* slots: handlers that may be in flight at once
    Handlers,          \* the handlers that run in this instance
    Phone,             \* phone numbers, in their one normal form
    GuestOrder,        \* orders placed without an account
    MaxCustomers,      \* bound: customer rows
    MaxOtps,           \* bound: codes sent
    MaxSends,          \* OTP_MAX_REQUESTS_PER_WINDOW
    MaxFailed          \* otp.maxFailedAttempts

(* The mutations and who may call them: AuthResolver and reactivateAccount *)
(* anyone, AccountResolver a signed-in customer for himself,               *)
(* CustomersResolver an admin for any customer.                            *)
AuthResolver == {"sendOtp", "verifyOtp", "reactivate"}
AccountResolver == {"changePhone", "requestDeletion", "updateProfile"}
CustomersResolver == {"adminUpdate", "setActive", "verifyPhone"}
AllHandlers == AuthResolver \cup AccountResolver \cup CustomersResolver

AccountsAssumption ==
    /\ Handlers \subseteq AllHandlers
    /\ {MaxCustomers, MaxOtps} \subseteq Nat
    /\ {MaxSends, MaxFailed} \subseteq Nat \ {0}

None == 0    \* null: no row, no customer, no code
NoPhone == "none"
OtpId == 1 .. MaxOtps
CustomerId == 1 .. MaxCustomers

VARIABLES
    otp,         \* otp_codes rows in creation order
    customer,    \* customers rows
    order,       \* guest orders: phone given at checkout, account they belong to
    session,     \* customers that hold an access token
    token,       \* customers that hold a reactivation token
    job,         \* handlers in flight
    spent,       \* history: how often a code was accepted
    wrong,       \* history: how often a code was refused
    suspended    \* history: the last word of an admin on the account was "inactive"

vars == <<otp, customer, order, session, token, job, spent, wrong, suspended>>
history == <<spent, wrong, suspended>>
access == <<session, token>>

(* expired: older than OTP_TTL_MS, which is also the rate limit's window.  *)
OtpCode == [phone : Phone \cup {NoPhone}, isUsed : BOOLEAN, failedAttempts : 0 .. MaxFailed, expired : BOOLEAN]
Customer == [phone : Phone \cup {NoPhone}, isVerified : BOOLEAN, isActive : BOOLEAN,
             deletionRequestedAt : {"null", "recent", "expired"}, email : BOOLEAN, deleted : BOOLEAN]
NoOtp == [phone |-> NoPhone, isUsed |-> FALSE, failedAttempts |-> 0, expired |-> FALSE]
NoCustomer == [phone |-> NoPhone, isVerified |-> FALSE, isActive |-> TRUE,
               deletionRequestedAt |-> "null", email |-> FALSE, deleted |-> FALSE]

Idle == [at |-> "idle", op |-> "none", phone |-> NoPhone, otp |-> None, code |-> NoOtp,
         customer |-> None, row |-> NoCustomer, old |-> NoPhone]
Job == [at : {"idle", "invalidate", "insert", "refuse", "spend", "account", "finalize", "create",
              "save", "link"},
        op : AllHandlers \cup {"none"}, phone : Phone \cup {NoPhone}, otp : OtpId \cup {None},
        code : OtpCode, customer : CustomerId \cup {None}, row : Customer,
        old : Phone \cup {NoPhone}]

Init ==
    /\ otp = [o \in OtpId |-> NoOtp]
    /\ customer = [c \in CustomerId |-> NoCustomer]
    /\ order = [g \in GuestOrder |-> [phone |-> NoPhone, customer |-> None]]
    /\ session = {} /\ token = {}
    /\ job = [r \in Req |-> Idle]
    /\ spent = [o \in OtpId |-> 0]
    /\ wrong = [o \in OtpId |-> 0]
    /\ suspended = [c \in CustomerId |-> FALSE]

Start(r, op, at, what) ==
    /\ op \in Handlers
    /\ job[r].at = "idle"
    /\ job' = [job EXCEPT ![r] = [what EXCEPT !.at = at, !.op = op]]
At(r, at) == job[r].at = at
Goto(r, at) == job' = [job EXCEPT ![r].at = at]
Return(r) == job' = [job EXCEPT ![r] = Idle]

-----------------------------------------------------------------------------
(* Rows                                                                    *)

Live(c) == customer[c].phone # NoPhone /\ ~customer[c].deleted
findActiveByPhone(phone) == {c \in CustomerId : Live(c) /\ customer[c].phone = phone}
findOtherActiveByPhone(phone, c) == findActiveByPhone(phone) \ {c}

(* The unique index on the phone of the rows that are not deleted.         *)
UniquePhone(rows) ==
    \A c, d \in CustomerId :
       /\ rows[c].phone = rows[d].phone /\ rows[c].phone # NoPhone
       /\ ~rows[c].deleted /\ ~rows[d].deleted
       => c = d

isPendingDeletion(row) == ~row.isActive /\ row.deletionRequestedAt # "null"
isAdminSuspended(row) == ~row.isActive /\ row.deletionRequestedAt = "null"
isDeletionRetentionExpired(row) == row.deletionRequestedAt = "expired"

finalizeCustomerDeletion(rows, c) ==
    [rows EXCEPT ![c].email = FALSE, ![c].deleted = TRUE]

(* What JwtStrategy and CustomerStatusGuard let through; refreshToken      *)
(* renews an access token under the same conditions.                       *)
Authorized(c) == c \in session /\ Live(c) /\ customer[c].isActive

Usable(phone) == {o \in OtpId : otp[o].phone = phone /\ ~otp[o].isUsed /\ ~otp[o].expired}
Newest(S) == CHOOSE o \in S : \A p \in S : p <= o

-----------------------------------------------------------------------------
(* One-time codes                                                          *)

sendOtp(r, phone) ==
    /\ Cardinality({o \in OtpId : otp[o].phone = phone /\ ~otp[o].expired}) < MaxSends
    /\ Start(r, "sendOtp", "invalidate", [Idle EXCEPT !.phone = phone])
    /\ UNCHANGED <<otp, customer, order, access, history>>

InvalidateOtps(r) ==
    /\ At(r, "invalidate")
    /\ otp' = [o \in OtpId |-> IF otp[o].phone = job[r].phone
                               THEN [otp[o] EXCEPT !.isUsed = TRUE] ELSE otp[o]]
    /\ Goto(r, "insert")
    /\ UNCHANGED <<customer, order, access, history>>

(* The code is saved before the SMS goes out; when the SMS fails, the row  *)
(* stays.                                                                  *)
InsertOtp(r) ==
    /\ At(r, "insert")
    /\ \E o \in OtpId :
          /\ otp[o] = NoOtp
          /\ \A p \in OtpId : otp[p] = NoOtp => o <= p
          /\ otp' = [otp EXCEPT ![o].phone = job[r].phone]
    /\ Return(r)
    /\ UNCHANGED <<customer, order, access, history>>

(* The customer types the code of row typed, or something else (None); it  *)
(* is compared with the newest usable code of the phone.                   *)
verifyOtp(r, phone, typed) ==
    LET o == Newest(Usable(phone))
    IN  /\ Usable(phone) # {}
        /\ Start(r, "verifyOtp", IF typed = o THEN "spend" ELSE "refuse",
                 [Idle EXCEPT !.phone = phone, !.otp = o, !.code = otp[o]])
        /\ UNCHANGED <<otp, customer, order, access, history>>

(* Mutant: the failed attempts are counted, the code is never locked.      *)
RefuseUnlocked(r) ==
    /\ At(r, "refuse")
    /\ otp' = [otp EXCEPT ![job[r].otp].failedAttempts = job[r].code.failedAttempts + 1]
    /\ wrong' = [wrong EXCEPT ![job[r].otp] = @ + 1]
    /\ Return(r)
    /\ UNCHANGED <<customer, order, access, spent, suspended>>

RefuseOtp(r) ==
    LET failed == job[r].code.failedAttempts + 1
        o == job[r].otp
    IN  /\ At(r, "refuse")
        /\ otp' = [otp EXCEPT ![o].failedAttempts = failed,
                              ![o].isUsed = job[r].code.isUsed \/ failed >= MaxFailed]
        /\ wrong' = [wrong EXCEPT ![o] = @ + 1]
        /\ Return(r)
        /\ UNCHANGED <<customer, order, access, spent, suspended>>

(* Mutant: an accepted code stays usable.                                  *)
SpendNothing(r) ==
    /\ At(r, "spend")
    /\ spent' = [spent EXCEPT ![job[r].otp] = @ + 1]
    /\ Goto(r, IF job[r].op = "changePhone" THEN "save" ELSE "account")
    /\ UNCHANGED <<otp, customer, order, access, wrong, suspended>>

SpendOtp(r) ==
    LET o == job[r].otp
    IN  /\ At(r, "spend")
        /\ otp' = [otp EXCEPT ![o].failedAttempts = job[r].code.failedAttempts,
                              ![o].isUsed = TRUE]
        /\ spent' = [spent EXCEPT ![o] = @ + 1]
        /\ Goto(r, IF job[r].op = "changePhone" THEN "save" ELSE "account")
        /\ UNCHANGED <<customer, order, access, wrong, suspended>>

-----------------------------------------------------------------------------
(* Sign-in                                                                 *)

(* What verifyOtp does with the account of the phone, if there is one.     *)
FindAccount(r) ==
    LET found == findActiveByPhone(job[r].phone)
    IN  /\ At(r, "account")
        /\ \/ /\ found = {}
              /\ Goto(r, "create")
              /\ UNCHANGED token
           \/ \E c \in found :
                LET row == customer[c]
                IN  \/ /\ isAdminSuspended(row)
                       /\ Return(r)
                       /\ UNCHANGED token
                    \/ /\ isPendingDeletion(row) /\ ~isDeletionRetentionExpired(row)
                       /\ token' = token \cup {c}
                       /\ Return(r)
                    \/ /\ isPendingDeletion(row) /\ isDeletionRetentionExpired(row)
                       /\ job' = [job EXCEPT ![r].at = "finalize", ![r].customer = c]
                       /\ UNCHANGED token
                    \/ /\ row.isActive
                       /\ job' = [job EXCEPT ![r].at = "save", ![r].customer = c,
                                             ![r].row = [row EXCEPT !.isVerified = TRUE]]
                       /\ UNCHANGED token
        /\ UNCHANGED <<otp, customer, order, session, history>>

FinalizeExpired(r) ==
    /\ At(r, "finalize")
    /\ customer' = finalizeCustomerDeletion(customer, job[r].customer)
    /\ IF job[r].op = "verifyOtp"
       THEN job' = [job EXCEPT ![r].at = "create", ![r].customer = None]
       ELSE Return(r)
    /\ UNCHANGED <<otp, order, access, history>>

CreateCustomer(r) ==
    /\ At(r, "create")
    /\ \E c \in CustomerId :
          /\ customer[c] = NoCustomer
          /\ \A d \in CustomerId : customer[d] = NoCustomer => c <= d
          /\ LET rows == [customer EXCEPT ![c].phone = job[r].phone, ![c].isVerified = TRUE]
             IN  IF UniquePhone(rows)
                 THEN /\ customer' = rows
                      /\ session' = session \cup {c}
                      /\ job' = [job EXCEPT ![r].at = "link", ![r].customer = c]
                 ELSE Return(r) /\ UNCHANGED <<customer, session>>
    /\ UNCHANGED <<otp, order, token, history>>

(* Save of a loaded row: a sign-in and a reactivation also issue tokens.   *)
SaveCustomer(r) ==
    LET c == job[r].customer
        rows == [customer EXCEPT ![c] = job[r].row]
        linking == job[r].op = "verifyOtp" \/ job[r].old # NoPhone
    IN  /\ At(r, "save")
        /\ IF UniquePhone(rows)
           THEN /\ customer' = rows
                /\ session' = IF job[r].op \in {"verifyOtp", "reactivate"}
                              THEN session \cup {c} ELSE session
                /\ suspended' = IF job[r].op = "setActive"
                                THEN [suspended EXCEPT ![c] = ~job[r].row.isActive]
                                ELSE suspended
                /\ IF linking THEN Goto(r, "link") ELSE Return(r)
           ELSE Return(r) /\ UNCHANGED <<customer, session, suspended>>
        /\ UNCHANGED <<otp, order, token, spent, wrong>>

(* mergeGuestOrders, for one phone or for the old and the new one.         *)
mergeGuestOrders(orders, c, phones) ==
    [g \in GuestOrder |-> IF orders[g].phone \in phones /\ orders[g].customer = None
                          THEN [orders[g] EXCEPT !.customer = c] ELSE orders[g]]

(* Every guest order carries an e-mail address here.                       *)
backfillCustomerEmailFromOrders(orders, c) ==
    IF Live(c) /\ \E g \in GuestOrder : orders[g].customer = c
    THEN [customer EXCEPT ![c].email = TRUE] ELSE customer

LinkGuestOrders(r) ==
    LET c == job[r].customer
    IN  /\ At(r, "link")
        /\ order' = mergeGuestOrders(order, c, {job[r].phone, job[r].old} \ {NoPhone})
        /\ customer' = backfillCustomerEmailFromOrders(order', c)
        /\ Return(r)
        /\ UNCHANGED <<otp, access, history>>

-----------------------------------------------------------------------------
(* Handlers that load the row, change it and save it                       *)

Load(r, op, at, c, row) ==
    /\ Start(r, op, at, [Idle EXCEPT !.customer = c, !.row = row])
    /\ UNCHANGED <<otp, customer, order, access, history>>

changeCustomerPhone(r, c, phone, typed) ==
    /\ Authorized(c)
    /\ phone # customer[c].phone
    /\ findOtherActiveByPhone(phone, c) = {}
    /\ Usable(phone) # {}
    /\ typed = Newest(Usable(phone))
    /\ Start(r, "changePhone", "spend",
             [Idle EXCEPT !.customer = c, !.row = [customer[c] EXCEPT !.phone = phone],
                          !.phone = phone, !.old = customer[c].phone,
                          !.otp = typed, !.code = otp[typed]])
    /\ UNCHANGED <<otp, customer, order, access, history>>

updateProfile(r, c, email) ==
    /\ Authorized(c)
    /\ Load(r, "updateProfile", "save", c, [customer[c] EXCEPT !.email = email])

requestAccountDeletion(r, c) ==
    /\ Authorized(c)
    /\ customer[c].deletionRequestedAt = "null"
    /\ Load(r, "requestDeletion", "save", c,
            [customer[c] EXCEPT !.isActive = FALSE, !.deletionRequestedAt = "recent"])

reactivateAccount(r, c) ==
    /\ c \in token
    /\ Live(c)
    /\ isPendingDeletion(customer[c])
    /\ IF isDeletionRetentionExpired(customer[c])
       THEN Load(r, "reactivate", "finalize", c, NoCustomer)
       ELSE Load(r, "reactivate", "save", c,
                 [customer[c] EXCEPT !.isActive = TRUE, !.deletionRequestedAt = "null"])

(* An admin edits the account; a new phone has to be verified again.       *)
updateAsAdmin(r, c, phone, email) ==
    /\ Live(c)
    /\ findOtherActiveByPhone(phone, c) = {}
    /\ IF phone = customer[c].phone
       THEN Load(r, "adminUpdate", "save", c, [customer[c] EXCEPT !.email = email])
       ELSE /\ Start(r, "adminUpdate", "save",
                     [Idle EXCEPT !.customer = c, !.phone = phone, !.old = customer[c].phone,
                                  !.row = [customer[c] EXCEPT !.phone = phone, !.email = email,
                                                              !.isVerified = FALSE]])
            /\ UNCHANGED <<otp, customer, order, access, history>>

setActive(r, c, isActive) ==
    /\ Live(c)
    /\ Load(r, "setActive", "save", c, [customer[c] EXCEPT !.isActive = isActive])

verifyPhoneAsAdmin(r, c) ==
    /\ Live(c)
    /\ ~customer[c].isVerified
    /\ Load(r, "verifyPhone", "save", c, [customer[c] EXCEPT !.isVerified = TRUE])

-----------------------------------------------------------------------------
(* The world around                                                        *)

GuestCheckout(g, phone) ==
    /\ order[g].phone = NoPhone
    /\ order' = [order EXCEPT ![g].phone = phone]
    /\ UNCHANGED <<otp, customer, access, job, history>>

(* Five minutes pass for a code, the grace period for a deletion.  Access  *)
(* and reactivation tokens run out too: that only takes steps away, as the *)
(* holder of a token need not use it, so it is no step of its own.         *)
OtpExpires(o) ==
    /\ otp[o].phone # NoPhone /\ ~otp[o].expired
    /\ \A p \in OtpId : p < o => otp[p].expired
    /\ otp' = [otp EXCEPT ![o].expired = TRUE]
    /\ UNCHANGED <<customer, order, access, job, history>>
RetentionExpires(c) ==
    /\ customer[c].deletionRequestedAt = "recent"
    /\ customer' = [customer EXCEPT ![c].deletionRequestedAt = "expired"]
    /\ UNCHANGED <<otp, order, access, job, history>>

Next ==
    \/ \E r \in Req :
         \/ \E phone \in Phone : sendOtp(r, phone)
         \/ InvalidateOtps(r) \/ InsertOtp(r) \/ RefuseOtp(r) \/ SpendOtp(r)
         \/ \E phone \in Phone, typed \in OtpId \cup {None} : verifyOtp(r, phone, typed)
         \/ FindAccount(r) \/ FinalizeExpired(r) \/ CreateCustomer(r)
         \/ SaveCustomer(r) \/ LinkGuestOrders(r)
         \/ \E c \in CustomerId :
              \/ requestAccountDeletion(r, c) \/ reactivateAccount(r, c)
              \/ verifyPhoneAsAdmin(r, c)
              \/ \E b \in BOOLEAN : updateProfile(r, c, b) \/ setActive(r, c, b)
              \/ \E phone \in Phone, b \in BOOLEAN : updateAsAdmin(r, c, phone, b)
              \/ \E phone \in Phone, typed \in OtpId : changeCustomerPhone(r, c, phone, typed)
    \/ \E g \in GuestOrder, phone \in Phone : GuestCheckout(g, phone)
    \/ \E o \in OtpId : OtpExpires(o)
    \/ \E c \in CustomerId : RetentionExpires(c)

Spec == Init /\ [][Next]_vars

-----------------------------------------------------------------------------
(* Properties                                                              *)

(* Every variable holds what its column or its handler may hold.           *)
TypeOK ==
    /\ otp \in [OtpId -> OtpCode]
    /\ customer \in [CustomerId -> Customer]
    /\ order \in [GuestOrder -> [phone : Phone \cup {NoPhone}, customer : CustomerId \cup {None}]]
    /\ session \subseteq CustomerId /\ token \subseteq CustomerId
    /\ job \in [Req -> Job]
    /\ spent \in [OtpId -> Nat] /\ wrong \in [OtpId -> Nat]
    /\ suspended \in [CustomerId -> BOOLEAN]

(* Only the newest code of a phone can be accepted (sendOtp marks the      *)
(* older ones used).                                                       *)
OnlyLatestOtpWorks ==
    \A o, p \in OtpId :
       otp[o].phone # NoPhone /\ otp[o].phone = otp[p].phone /\ o < p
         => otp[o].isUsed \/ otp[o].expired

(* A code signs in, or changes a phone, once.                              *)
OtpIsSpentOnce == \A o \in OtpId : spent[o] <= 1

(* After maxFailedAttempts wrong answers a code is not even compared.      *)
WrongAnswersAreBounded == \A o \in OtpId : wrong[o] <= MaxFailed

(* Two sign-ins with a phone that has no account both try to create one:   *)
(* one account is left, whatever the interleaving.                         *)
OneAccountPerPhone ==
    \A c, d \in CustomerId :
       Live(c) /\ Live(d) /\ customer[c].phone = customer[d].phone => c = d

(* An account that was finalized keeps no personal data, whatever is done  *)
(* with the phone and its orders afterwards.                               *)
DeletedIsAnonymous == \A c \in CustomerId : customer[c].deleted => ~customer[c].email

(* An order that belongs to an account is never moved to another, though   *)
(* phones are given up and taken by other accounts.                        *)
LinkedOrderStays ==
    \A g \in GuestOrder :
      order[g].customer # None => order'[g].customer = order[g].customer
=============================================================================
