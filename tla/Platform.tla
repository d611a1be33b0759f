------------------------------ MODULE Platform ------------------------------
(***************************************************************************)
(* Who uses the shop and what it sends out: customers, staff, teams and    *)
(* stores, payouts and their recipients at Omise, mail, notifications,     *)
(* vendor webhooks, the search index, the settings of the platform, its    *)
(* rate limits and the API of its partners.                                *)
(*                                                                         *)
(* As in Shop, a behaviour is one component's, named by part, with x1, x2  *)
(* ... for its variables.  Queues, Omise, endpoints and processes may fail *)
(* here; that what was started ends is Progress.                           *)
(*                                                                         *)
(* A component with theorems is instantiated from the module that proves   *)
(* them (it extends the component's), so that PlatformProofs can cite      *)
(* their lemmas of the instance. PublicApiProofs and EmailCmsProofs are    *)
(* about two components each: what names the other one gets values that do *)
(* not matter.                                                             *)
(***************************************************************************)
EXTENDS Integers, FiniteSets

VARIABLES
    part,    \* the component this behaviour is about
    x1, x2, x3, x4, x5, x6, x7, x8, x9    \* its variables, in the order of its vars

vars == <<part, x1, x2, x3, x4, x5, x6, x7, x8, x9>>

OneSlot == {"r1"}
TwoSlots == {"r1", "r2"}

(* CustomerAccounts: signing in and changing the phone by code.            *)
Codes == INSTANCE CustomerAccounts WITH
    Req <- OneSlot, Handlers <- {"sendOtp", "verifyOtp", "changePhone"}, Phone <- {"p1", "p2"},
    GuestOrder <- {"g1"}, MaxCustomers <- 2, MaxOtps <- 2, MaxSends <- 2, MaxFailed <- 2,
    otp <- x1, customer <- x2, order <- x3, session <- x4, token <- x5, job <- x6, spent <- x7,
    wrong <- x8, suspended <- x9

(* Deletion, reactivation and suspension of an account.                    *)
Deletion == INSTANCE CustomerAccounts WITH
    Req <- OneSlot,
    Handlers <- {"sendOtp", "verifyOtp", "requestDeletion", "reactivate", "setActive",
        "updateProfile"}, Phone <- {"p1"}, GuestOrder <- {"g1"}, MaxCustomers <- 2,
    MaxOtps <- 2, MaxSends <- 2, MaxFailed <- 1, otp <- x1, customer <- x2, order <- x3,
    session <- x4, token <- x5, job <- x6, spent <- x7, wrong <- x8, suspended <- x9

(* Phones given up and taken by another account.                           *)
Phones == INSTANCE CustomerAccounts WITH
    Req <- OneSlot,
    Handlers <- {"sendOtp", "verifyOtp", "adminUpdate", "changePhone", "verifyPhone"},
    Phone <- {"p1", "p2"}, GuestOrder <- {"g1"}, MaxCustomers <- 2, MaxOtps <- 2, MaxSends <- 2,
    MaxFailed <- 1, otp <- x1, customer <- x2, order <- x3, session <- x4, token <- x5,
    job <- x6, spent <- x7, wrong <- x8, suspended <- x9

(* Two sign-ins with one phone.                                            *)
AccountsRace == INSTANCE CustomerAccounts WITH
    Req <- TwoSlots, Handlers <- {"sendOtp", "verifyOtp", "adminUpdate"}, Phone <- {"p1"},
    GuestOrder <- {}, MaxCustomers <- 2, MaxOtps <- 2, MaxSends <- 2, MaxFailed <- 1, otp <- x1,
    customer <- x2, order <- x3, session <- x4, token <- x5, job <- x6, spent <- x7,
    wrong <- x8, suspended <- x9

(* CustomerWallet.                                                         *)
Wallet == INSTANCE CustomerWallet WITH
    Req <- OneSlot,
    Handlers <- {"createAddress", "updateAddress", "deleteAddress", "setDefaultAddress",
        "addCard", "deleteCard", "setDefaultCard"}, Address <- {"a1", "a2"},
    Card <- {"c1", "c2"}, address <- x1, method <- x2, omise <- x3, clock <- x4, job <- x5

(* One card saved and deleted by two requests.                             *)
WalletRace == INSTANCE CustomerWallet WITH
    Req <- TwoSlots, Handlers <- {"addCard", "deleteCard"}, Address <- {}, Card <- {"c1"},
    address <- x1, method <- x2, omise <- x3, clock <- x4, job <- x5

(* StaffAccounts: passwords, sessions and reset links.                     *)
Staff == INSTANCE StaffAccountsProofs WITH
    Req <- OneSlot,
    Handlers <- {"login", "changePassword", "requestReset", "resetPassword", "updateVendor"},
    Email <- {"e1", "e2"}, FirstEmail <- "e1", MaxChanges <- 2, MaxLinks <- 2, user <- x1,
    session <- x2, reset <- x3, verify <- x4, job <- x5, changes <- x6, resets <- x7,
    proved <- x8

(* Two requests about the address of an account.                           *)
StaffEmail == INSTANCE StaffAccountsProofs WITH
    Req <- TwoSlots,
    Handlers <- {"sendVerification", "verifyEmail", "adminVerify", "updateVendor"},
    Email <- {"e1", "e2"}, FirstEmail <- "e1", MaxChanges <- 0, MaxLinks <- 1, user <- x1,
    session <- x2, reset <- x3, verify <- x4, job <- x5, changes <- x6, resets <- x7,
    proved <- x8

(* TeamInvitations: the three kinds, with processes that die.              *)
Team == INSTANCE TeamInvitations WITH
    Req <- OneSlot,
    Handlers <- {"invite", "acceptNew", "accept", "removeMember", "updateRole", "revoke",
        "decline", "setActive"}, Kinds <- {"store", "admin", "vendor"},
    Email <- {"owner", "root", "ann"}, Owner <- "owner", Root <- "root", MaxInv <- 2,
    MaxCrash <- 1, user <- x1, member <- x2, inv <- x3, job <- x4, crashes <- x5

(* Two requests about one team.                                            *)
TeamRace == INSTANCE TeamInvitations WITH
    Req <- TwoSlots, Handlers <- {"invite", "acceptNew", "accept", "removeMember", "revoke"},
    Kinds <- {"store"}, Email <- {"owner", "root", "ann"}, Owner <- "owner", Root <- "root",
    MaxInv <- 2, MaxCrash <- 0, user <- x1, member <- x2, inv <- x3, job <- x4, crashes <- x5

(* Invitations under fairness.                                             *)
TeamLive == INSTANCE TeamInvitations WITH
    Req <- OneSlot, Handlers <- {"invite", "acceptNew", "accept", "revoke"}, Kinds <- {"store"},
    Email <- {"owner", "root", "ann"}, Owner <- "owner", Root <- "root", MaxInv <- 2,
    MaxCrash <- 1, user <- x1, member <- x2, inv <- x3, job <- x4, crashes <- x5

(* StoreLifecycle: suspension, reactivation and a new owner.               *)
Stores == INSTANCE StoreLifecycle WITH
    Req <- OneSlot,
    Handlers <- {"create", "updateStore", "approveStore", "rejectStore", "suspend",
        "reactivate", "updateStoreAsAdmin", "createStoreAsAdmin", "submitReactivation",
        "approveReactivation", "rejectReactivation"}, Vendor <- {"v1", "v2"},
    AdminStatus <- {"approved", "suspended"}, MaxStores <- 1, MaxRequests <- 0, MaxAppeals <- 2,
    stores <- x1, role <- x2, held <- x3, requests <- x4, appeals <- x5, job <- x6

(* Requests to open a store.                                               *)
StoreRequests == INSTANCE StoreLifecycle WITH
    Req <- OneSlot,
    Handlers <- {"submitStoreRequest", "approveStoreRequest", "rejectStoreRequest",
        "updateStoreAsAdmin"}, Vendor <- {"v1", "v2"}, AdminStatus <- {"approved", "suspended"},
    MaxStores <- 2, MaxRequests <- 3, MaxAppeals <- 0, stores <- x1, role <- x2, held <- x3,
    requests <- x4, appeals <- x5, job <- x6

(* Payouts: every way to ask for one, and its events.                      *)
PayoutsOne == INSTANCE PayoutsProofs WITH
    Req <- OneSlot,
    Handlers <- {"request", "trigger", "schedule", "requestManual", "settle", "reject",
        "webhook"}, MinPayout <- 1, MaxEarned <- 2, MaxPayouts <- 2, MaxTransfers <- 3,
    MaxFaults <- 0, earned <- x1, peak <- x2, recipient <- x3, storeRecipient <- x4,
    payout <- x5, transfer <- x6, job <- x7, faults <- x8

(* A vendor and an administrator ask at once, and once a process dies or   *)
(* an answer of Omise is lost.                                             *)
PayoutsRace == INSTANCE PayoutsProofs WITH
    Req <- TwoSlots, Handlers <- {"request", "trigger"}, MinPayout <- 1, MaxEarned <- 1,
    MaxPayouts <- 2, MaxTransfers <- 2, MaxFaults <- 1, earned <- x1, peak <- x2,
    recipient <- x3, storeRecipient <- x4, payout <- x5, transfer <- x6, job <- x7, faults <- x8

(* Two administrators at the queue of manual payouts.                      *)
PayoutsQueue == INSTANCE PayoutsProofs WITH
    Req <- TwoSlots, Handlers <- {"schedule", "requestManual", "settle", "reject"},
    MinPayout <- 1, MaxEarned <- 1, MaxPayouts <- 2, MaxTransfers <- 2, MaxFaults <- 0,
    earned <- x1, peak <- x2, recipient <- x3, storeRecipient <- x4, payout <- x5,
    transfer <- x6, job <- x7, faults <- x8

(* PayoutRecipients.                                                       *)
Recipients == INSTANCE PayoutRecipients WITH
    Req <- OneSlot,
    Handlers <- {"updateStorePayout", "linkStoreOmiseRecipient", "myStore", "webhook"},
    MaxBank <- 3, MaxRecipients <- 2, Faults <- FALSE, store <- x1, omise <- x2, events <- x3,
    job <- x4

(* With calls to Omise that fail.                                          *)
RecipientFaults == INSTANCE PayoutRecipients WITH
    Req <- OneSlot,
    Handlers <- {"updateStorePayout", "linkStoreOmiseRecipient", "myStore", "webhook",
        "payout"}, MaxBank <- 3, MaxRecipients <- 2, Faults <- TRUE, store <- x1, omise <- x2,
    events <- x3, job <- x4

(* EmailCms: containers, contents and the cache.                           *)
EmailOne == INSTANCE EmailCmsProofs WITH
    Req <- OneSlot,
    Handlers <- {"createContainer", "updateContainer", "setDefault", "updateContent", "send"},
    Container <- {"c1", "c2"}, Key <- {"k1"}, Seeded <- {"k1"}, Required <- {"url"},
    Optional <- {"name"}, Unknown <- {"x"}, containers <- x1, content <- x2, cache <- x3,
    job <- x4, sent <- x5,
    Order <- {}, Guest <- {}, Unmailed <- {}, Store <- {}, Chain <- {}, Admin <- {}, Status <- {},
    MaxEvents <- 0, Faults <- {}, rows <- {}, mails <- {}, ended <- {}, events <- 0

(* Mail sent during an edit, with a process that dies.                     *)
EmailRace == INSTANCE EmailCmsProofs WITH
    Req <- TwoSlots, Handlers <- {"setDefault", "updateContent", "send", "crash"},
    Container <- {"c1", "c2"}, Key <- {"k1", "k2"}, Seeded <- {"k1"}, Required <- {"url"},
    Optional <- {}, Unknown <- {"x"}, containers <- x1, content <- x2, cache <- x3, job <- x4,
    sent <- x5,
    Order <- {}, Guest <- {}, Unmailed <- {}, Store <- {}, Chain <- {}, Admin <- {}, Status <- {},
    MaxEvents <- 0, Faults <- {}, rows <- {}, mails <- {}, ended <- {}, events <- 0

(* SearchEmbeddings.                                                       *)
Embeddings == INSTANCE SearchEmbeddings WITH
    Req <- OneSlot,
    Handlers <- {"update", "publish", "publishMany", "deleteCategory", "process"},
    Product <- {"p1", "p2"}, MaxText <- 2, MaxAttempts <- 3, Faults <- {}, products <- x1,
    queue <- x2, vector <- x3, job <- x4

(* With a queue, a provider and a database that fail.                      *)
EmbeddingsRetry == INSTANCE SearchEmbeddings WITH
    Req <- TwoSlots, Handlers <- {"update", "publish", "process"}, Product <- {"p1"},
    MaxText <- 3, MaxAttempts <- 3, Faults <- {"enqueue", "provider", "database"},
    products <- x1, queue <- x2, vector <- x3, job <- x4

(* Notifications: one event at a time, saves and mails failing.            *)
Notify == INSTANCE EmailCmsProofs WITH
    Req <- OneSlot,
    Handlers <- {"orderPaid", "newOrder", "statusChanged", "hold", "storeRequest",
        "manualPayout", "storeStatus", "requestStatus", "taxonomyDeleted", "markAsRead",
        "markAllAsRead"}, Order <- {"o1"}, Guest <- {}, Unmailed <- {}, Store <- {"s1", "s2"},
    Chain <- {}, Admin <- {"a1", "a2"}, Status <- {"shipped"}, MaxEvents <- 2,
    Faults <- {"save", "mail"}, rows <- x1, mails <- x2, job <- x3, ended <- x4, events <- x5,
    Container <- {}, Key <- {}, Seeded <- {}, Required <- {}, Optional <- {}, Unknown <- {},
    containers <- {}, content <- {}, cache <- {}, sent <- {}

(* Two events at once, two stores of one owner.                            *)
NotifyRace == INSTANCE EmailCmsProofs WITH
    Req <- TwoSlots, Handlers <- {"orderPaid", "newOrder", "hold", "markAsRead"},
    Order <- {"o1", "o2"}, Guest <- {"o2"}, Unmailed <- {"o1"}, Store <- {"s1", "s2"},
    Chain <- {"s1", "s2"}, Admin <- {"a1"}, Status <- {"shipped"}, MaxEvents <- 2,
    Faults <- {"save", "mail"}, rows <- x1, mails <- x2, job <- x3, ended <- x4, events <- x5,
    Container <- {}, Key <- {}, Seeded <- {}, Required <- {}, Optional <- {}, Unknown <- {},
    containers <- {}, content <- {}, cache <- {}, sent <- {}

(* The same for one order, under fairness.                                 *)
NotifyLive == INSTANCE Notifications WITH
    Req <- TwoSlots, Handlers <- {"orderPaid", "newOrder", "hold", "markAsRead"},
    Order <- {"o2"}, Guest <- {"o2"}, Unmailed <- {}, Store <- {"s1", "s2"},
    Chain <- {"s1", "s2"}, Admin <- {"a1"}, Status <- {"shipped"}, MaxEvents <- 2,
    Faults <- {"save", "mail"}, rows <- x1, mails <- x2, job <- x3, ended <- x4, events <- x5

(* VendorWebhooks: settings and events.                                    *)
Webhooks == INSTANCE VendorWebhooks WITH
    Req <- OneSlot,
    Handlers <- {"changeStatus", "orderEvent", "upsertForStore", "deleteForStore",
        "deliverNow"}, Store <- {"s1"}, Status <- {"pending_payment", "paid"}, MaxEvents <- 1,
    MaxSecrets <- 2, MaxAttempts <- 2, HasQueue <- TRUE, Faults <- {}, order <- x1, hooks <- x2,
    shown <- x3, queue <- x4, received <- x5, owed <- x6, job <- x7, secrets <- x8, ids <- x9

(* An endpoint and a queue that fail.                                      *)
WebhooksRetry == INSTANCE VendorWebhooks WITH
    Req <- OneSlot, Handlers <- {"changeStatus", "upsertForStore", "deliverNow"},
    Store <- {"s1"}, Status <- {"pending_payment", "paid"}, MaxEvents <- 2, MaxSecrets <- 1,
    MaxAttempts <- 2, HasQueue <- TRUE, Faults <- {"enqueue", "endpoint"}, order <- x1,
    hooks <- x2, shown <- x3, queue <- x4, received <- x5, owed <- x6, job <- x7, secrets <- x8,
    ids <- x9

(* Without Redis.                                                          *)
WebhooksInline == INSTANCE VendorWebhooks WITH
    Req <- OneSlot, Handlers <- {"changeStatus", "upsertForStore", "deliverNow"},
    Store <- {"s1", "s2"}, Status <- {"pending_payment", "paid"}, MaxEvents <- 1,
    MaxSecrets <- 1, MaxAttempts <- 2, HasQueue <- FALSE, Faults <- {"enqueue"}, order <- x1,
    hooks <- x2, shown <- x3, queue <- x4, received <- x5, owed <- x6, job <- x7, secrets <- x8,
    ids <- x9

(* PlatformSettings: one request at a time.                                *)
Settings == INSTANCE PlatformSettings WITH
    Req <- OneSlot, Setting <- {"bank", "login", "weights", "synonyms"}, MaxTime <- 0,
    MaxUpdates <- 2, MaxFaults <- 0, row <- x1, cache <- x2, now <- x3, word <- x4,
    updates <- x5, faults <- x6, job <- x7

(* The closing of the storefront, one request at a time.                   *)
Closings == INSTANCE PlatformSettings WITH
    Req <- OneSlot, Setting <- {"maintenance"}, MaxTime <- 2, MaxUpdates <- 3, MaxFaults <- 0,
    row <- x1, cache <- x2, now <- x3, word <- x4, updates <- x5, faults <- x6, job <- x7

(* A call to Redis that fails.                                             *)
SettingsFaults == INSTANCE PlatformSettings WITH
    Req <- OneSlot, Setting <- {"login", "weights", "synonyms"}, MaxTime <- 0, MaxUpdates <- 2,
    MaxFaults <- 1, row <- x1, cache <- x2, now <- x3, word <- x4, updates <- x5, faults <- x6,
    job <- x7

(* Two requests about one setting.                                         *)
SettingsRace == INSTANCE PlatformSettings WITH
    Req <- TwoSlots, Setting <- {"login"}, MaxTime <- 0, MaxUpdates <- 2, MaxFaults <- 0,
    row <- x1, cache <- x2, now <- x3, word <- x4, updates <- x5, faults <- x6, job <- x7

(* The storefront closed for a time, under fairness, with a fault.         *)
SettingsLive == INSTANCE PlatformSettings WITH
    Req <- TwoSlots, Setting <- {"maintenance"}, MaxTime <- 1, MaxUpdates <- 1, MaxFaults <- 1,
    row <- x1, cache <- x2, now <- x3, word <- x4, updates <- x5, faults <- x6, job <- x7

(* PlatformShowcase: banners and sponsors.                                 *)
Showcase == INSTANCE PlatformShowcase WITH
    Req <- OneSlot,
    Handlers <- {"createBanner", "updateBanner", "deleteBanner", "reorderBanners"},
    Banner <- {"b1", "b2"}, Ad <- {}, MaxOrder <- 1, item <- x1, made <- x2, asked <- x3,
    job <- x4

(* The ads.                                                                *)
Ads == INSTANCE PlatformShowcase WITH
    Req <- OneSlot, Handlers <- {"createAd", "updateAd", "deleteAd"}, Banner <- {},
    Ad <- {"d1", "d2", "d3"}, MaxOrder <- 1, item <- x1, made <- x2, asked <- x3, job <- x4

(* Two reorderings at once.                                                *)
ShowcaseRace == INSTANCE PlatformShowcase WITH
    Req <- TwoSlots, Handlers <- {"createBanner", "deleteBanner", "reorderBanners"},
    Banner <- {"b1", "b2"}, Ad <- {}, MaxOrder <- 1, item <- x1, made <- x2, asked <- x3,
    job <- x4

(* The same under fairness.                                                *)
ShowcaseLive == INSTANCE PlatformShowcase WITH
    Req <- TwoSlots, Handlers <- {"createBanner", "reorderBanners"}, Banner <- {"b1", "b2"},
    Ad <- {}, MaxOrder <- 1, item <- x1, made <- x2, asked <- x3, job <- x4

(* RateLimiter: two processes, with faults.                                *)
Limits == INSTANCE PublicApiProofs WITH
    Req <- TwoSlots, Proc <- {"n1", "n2"}, Limit <- 2, MemLimit <- 1, MaxCalls <- 4,
    MaxFaults <- 2, available <- x1, counter <- x2, bucket <- x3, passed <- x4, early <- x5,
    faults <- x6, job <- x7,
    Handlers <- {}, Store <- {}, Key <- {}, Phone <- {}, External <- {}, Short <- {},
    MaxOrders <- 0, MaxToggles <- 0, approved <- {}, access <- {}, keys <- {}, customers <- {},
    addresses <- {}, orders <- {}, closed <- {}, toggles <- 0

(* The window under fairness, without faults.                              *)
LimitsLive == INSTANCE RateLimiter WITH
    Req <- TwoSlots, Proc <- {"n1", "n2"}, Limit <- 2, MemLimit <- 1, MaxCalls <- 3,
    MaxFaults <- 0, available <- x1, counter <- x2, bucket <- x3, passed <- x4, early <- x5,
    faults <- x6, job <- x7

(* PublicApi: keys and imports, two numbers that are cut to one.           *)
Partners == INSTANCE PublicApiProofs WITH
    Req <- OneSlot,
    Handlers <- {"createStoreApiKey", "revokeStoreApiKey", "createImportedCustomer",
        "createImportedAddress", "createImportedOrder", "signUp", "updateProfile"},
    Store <- {"s1", "s2"}, Key <- {"k1"}, Phone <- {"p1"}, External <- {"e1", "e2"},
    Short <- [e \in {"e1", "e2"} |-> "x"], MaxOrders <- 2, MaxToggles <- 1, approved <- x1,
    access <- x2, keys <- x3, customers <- x4, addresses <- x5, orders <- x6, closed <- x7,
    toggles <- x8, job <- x9,
    Proc <- {}, Limit <- 0, MemLimit <- 0, MaxCalls <- 0, MaxFaults <- 0, available <- {},
    counter <- {}, bucket <- {}, passed <- {}, early <- {}, faults <- 0

(* An order sent twice at once, a key revoked meanwhile.                   *)
PartnersRace == INSTANCE PublicApiProofs WITH
    Req <- TwoSlots,
    Handlers <- {"createStoreApiKey", "revokeStoreApiKey", "createImportedOrder"},
    Store <- {"s1"}, Key <- {"k1"}, Phone <- {}, External <- {"e1"},
    Short <- [e \in {"e1"} |-> "x"], MaxOrders <- 2, MaxToggles <- 1, approved <- x1,
    access <- x2, keys <- x3, customers <- x4, addresses <- x5, orders <- x6, closed <- x7,
    toggles <- x8, job <- x9,
    Proc <- {}, Limit <- 0, MemLimit <- 0, MaxCalls <- 0, MaxFaults <- 0, available <- {},
    counter <- {}, bucket <- {}, passed <- {}, early <- {}, faults <- 0

(* A customer who signs up during an import.                               *)
PartnersSignUp == INSTANCE PublicApiProofs WITH
    Req <- TwoSlots, Handlers <- {"createStoreApiKey", "createImportedCustomer", "signUp"},
    Store <- {"s1", "s2"}, Key <- {"k1"}, Phone <- {"p1"}, External <- {"e1"},
    Short <- [e \in {"e1"} |-> "x"], MaxOrders <- 1, MaxToggles <- 0, approved <- x1,
    access <- x2, keys <- x3, customers <- x4, addresses <- x5, orders <- x6, closed <- x7,
    toggles <- x8, job <- x9,
    Proc <- {}, Limit <- 0, MemLimit <- 0, MaxCalls <- 0, MaxFaults <- 0, available <- {},
    counter <- {}, bucket <- {}, passed <- {}, early <- {}, faults <- 0

ASSUME InstancesAreLegal ==
    /\ Codes!AccountsAssumption
    /\ Deletion!AccountsAssumption
    /\ Phones!AccountsAssumption
    /\ AccountsRace!AccountsAssumption
    /\ Wallet!WalletAssumption
    /\ WalletRace!WalletAssumption
    /\ Staff!StaffAssumption
    /\ StaffEmail!StaffAssumption
    /\ Team!TeamAssumption
    /\ TeamRace!TeamAssumption
    /\ TeamLive!TeamAssumption
    /\ Stores!LifecycleAssumption
    /\ StoreRequests!LifecycleAssumption
    /\ PayoutsOne!PayoutsAssumption
    /\ PayoutsRace!PayoutsAssumption
    /\ PayoutsQueue!PayoutsAssumption
    /\ Recipients!RecipientsAssumption
    /\ RecipientFaults!RecipientsAssumption
    /\ EmailOne!EmailAssumption
    /\ EmailRace!EmailAssumption
    /\ Embeddings!EmbeddingAssumption
    /\ EmbeddingsRetry!EmbeddingAssumption
    /\ Notify!Notices!NotificationAssumption
    /\ NotifyRace!Notices!NotificationAssumption
    /\ NotifyLive!NotificationAssumption
    /\ Webhooks!WebhookAssumption
    /\ WebhooksRetry!WebhookAssumption
    /\ WebhooksInline!WebhookAssumption
    /\ Settings!SettingsAssumption
    /\ Closings!SettingsAssumption
    /\ SettingsFaults!SettingsAssumption
    /\ SettingsRace!SettingsAssumption
    /\ SettingsLive!SettingsAssumption
    /\ Showcase!ShowcaseAssumption
    /\ Ads!ShowcaseAssumption
    /\ ShowcaseRace!ShowcaseAssumption
    /\ ShowcaseLive!ShowcaseAssumption
    /\ Limits!Limiter!LimiterAssumption
    /\ LimitsLive!LimiterAssumption
    /\ Partners!ApiAssumption
    /\ PartnersRace!ApiAssumption
    /\ PartnersSignUp!ApiAssumption

-----------------------------------------------------------------------------
Free5 == x5 = 0 /\ x6 = 0 /\ x7 = 0 /\ x8 = 0 /\ x9 = 0
Free6 == x6 = 0 /\ x7 = 0 /\ x8 = 0 /\ x9 = 0
Free7 == x7 = 0 /\ x8 = 0 /\ x9 = 0
Free8 == x8 = 0 /\ x9 = 0
Free9 == x9 = 0

rest5 == <<part, x5, x6, x7, x8, x9>>
rest6 == <<part, x6, x7, x8, x9>>
rest7 == <<part, x7, x8, x9>>
rest8 == <<part, x8, x9>>
rest9 == <<part, x9>>
rest10 == <<part>>

Init ==
    \/ part = "codes" /\ Codes!Init
    \/ part = "deletion" /\ Deletion!Init
    \/ part = "phones" /\ Phones!Init
    \/ part = "accountsRace" /\ AccountsRace!Init
    \/ part = "wallet" /\ Wallet!Init /\ Free6
    \/ part = "walletRace" /\ WalletRace!Init /\ Free6
    \/ part = "staff" /\ Staff!Init /\ Free9
    \/ part = "staffEmail" /\ StaffEmail!Init /\ Free9
    \/ part = "team" /\ Team!Init /\ Free6
    \/ part = "teamRace" /\ TeamRace!Init /\ Free6
    \/ part = "teamLive" /\ TeamLive!Init /\ Free6
    \/ part = "stores" /\ Stores!Init /\ Free7
    \/ part = "storeRequests" /\ StoreRequests!Init /\ Free7
    \/ part = "payoutsOne" /\ PayoutsOne!Init /\ Free9
    \/ part = "payoutsRace" /\ PayoutsRace!Init /\ Free9
    \/ part = "payoutsQueue" /\ PayoutsQueue!Init /\ Free9
    \/ part = "recipients" /\ Recipients!Init /\ Free5
    \/ part = "recipientFaults" /\ RecipientFaults!Init /\ Free5
    \/ part = "emailOne" /\ EmailOne!Init /\ Free6
    \/ part = "emailRace" /\ EmailRace!Init /\ Free6
    \/ part = "embeddings" /\ Embeddings!Init /\ Free5
    \/ part = "embeddingsRetry" /\ EmbeddingsRetry!Init /\ Free5
    \/ part = "notify" /\ Notify!Notices!Init /\ Free6
    \/ part = "notifyRace" /\ NotifyRace!Notices!Init /\ Free6
    \/ part = "notifyLive" /\ NotifyLive!Init /\ Free6
    \/ part = "webhooks" /\ Webhooks!Init
    \/ part = "webhooksRetry" /\ WebhooksRetry!Init
    \/ part = "webhooksInline" /\ WebhooksInline!Init
    \/ part = "settings" /\ Settings!Init /\ Free8
    \/ part = "closings" /\ Closings!Init /\ Free8
    \/ part = "settingsFaults" /\ SettingsFaults!Init /\ Free8
    \/ part = "settingsRace" /\ SettingsRace!Init /\ Free8
    \/ part = "settingsLive" /\ SettingsLive!Init /\ Free8
    \/ part = "showcase" /\ Showcase!Init /\ Free5
    \/ part = "ads" /\ Ads!Init /\ Free5
    \/ part = "showcaseRace" /\ ShowcaseRace!Init /\ Free5
    \/ part = "showcaseLive" /\ ShowcaseLive!Init /\ Free5
    \/ part = "limits" /\ Limits!Limiter!Init /\ Free8
    \/ part = "limitsLive" /\ LimitsLive!Init /\ Free8
    \/ part = "partners" /\ Partners!Init
    \/ part = "partnersRace" /\ PartnersRace!Init
    \/ part = "partnersSignUp" /\ PartnersSignUp!Init

CodesNext == part = "codes" /\ Codes!Next /\ UNCHANGED rest10
DeletionNext == part = "deletion" /\ Deletion!Next /\ UNCHANGED rest10
PhonesNext == part = "phones" /\ Phones!Next /\ UNCHANGED rest10
AccountsRaceNext == part = "accountsRace" /\ AccountsRace!Next /\ UNCHANGED rest10
WalletNext == part = "wallet" /\ Wallet!Next /\ UNCHANGED rest6
WalletRaceNext == part = "walletRace" /\ WalletRace!Next /\ UNCHANGED rest6
StaffNext == part = "staff" /\ Staff!Next /\ UNCHANGED rest9
StaffEmailNext == part = "staffEmail" /\ StaffEmail!Next /\ UNCHANGED rest9
TeamNext == part = "team" /\ Team!Next /\ UNCHANGED rest6
TeamRaceNext == part = "teamRace" /\ TeamRace!Next /\ UNCHANGED rest6
TeamLiveNext == part = "teamLive" /\ TeamLive!Next /\ UNCHANGED rest6
StoresNext == part = "stores" /\ Stores!Next /\ UNCHANGED rest7
StoreRequestsNext == part = "storeRequests" /\ StoreRequests!Next /\ UNCHANGED rest7
PayoutsOneNext == part = "payoutsOne" /\ PayoutsOne!Next /\ UNCHANGED rest9
PayoutsRaceNext == part = "payoutsRace" /\ PayoutsRace!Next /\ UNCHANGED rest9
PayoutsQueueNext == part = "payoutsQueue" /\ PayoutsQueue!Next /\ UNCHANGED rest9
RecipientsNext == part = "recipients" /\ Recipients!Next /\ UNCHANGED rest5
RecipientFaultsNext == part = "recipientFaults" /\ RecipientFaults!Next /\ UNCHANGED rest5
EmailOneNext == part = "emailOne" /\ EmailOne!Next /\ UNCHANGED rest6
EmailRaceNext == part = "emailRace" /\ EmailRace!Next /\ UNCHANGED rest6
EmbeddingsNext == part = "embeddings" /\ Embeddings!Next /\ UNCHANGED rest5
EmbeddingsRetryNext == part = "embeddingsRetry" /\ EmbeddingsRetry!Next /\ UNCHANGED rest5
NotifyNext == part = "notify" /\ Notify!Notices!Next /\ UNCHANGED rest6
NotifyRaceNext == part = "notifyRace" /\ NotifyRace!Notices!Next /\ UNCHANGED rest6
NotifyLiveNext == part = "notifyLive" /\ NotifyLive!Next /\ UNCHANGED rest6
WebhooksNext == part = "webhooks" /\ Webhooks!Next /\ UNCHANGED rest10
WebhooksRetryNext == part = "webhooksRetry" /\ WebhooksRetry!Next /\ UNCHANGED rest10
WebhooksInlineNext == part = "webhooksInline" /\ WebhooksInline!Next /\ UNCHANGED rest10
SettingsNext == part = "settings" /\ Settings!Next /\ UNCHANGED rest8
ClosingsNext == part = "closings" /\ Closings!Next /\ UNCHANGED rest8
SettingsFaultsNext == part = "settingsFaults" /\ SettingsFaults!Next /\ UNCHANGED rest8
SettingsRaceNext == part = "settingsRace" /\ SettingsRace!Next /\ UNCHANGED rest8
SettingsLiveNext == part = "settingsLive" /\ SettingsLive!Next /\ UNCHANGED rest8
ShowcaseNext == part = "showcase" /\ Showcase!Next /\ UNCHANGED rest5
AdsNext == part = "ads" /\ Ads!Next /\ UNCHANGED rest5
ShowcaseRaceNext == part = "showcaseRace" /\ ShowcaseRace!Next /\ UNCHANGED rest5
ShowcaseLiveNext == part = "showcaseLive" /\ ShowcaseLive!Next /\ UNCHANGED rest5
LimitsNext == part = "limits" /\ Limits!Limiter!Next /\ UNCHANGED rest8
LimitsLiveNext == part = "limitsLive" /\ LimitsLive!Next /\ UNCHANGED rest8
PartnersNext == part = "partners" /\ Partners!Next /\ UNCHANGED rest10
PartnersRaceNext == part = "partnersRace" /\ PartnersRace!Next /\ UNCHANGED rest10
PartnersSignUpNext == part = "partnersSignUp" /\ PartnersSignUp!Next /\ UNCHANGED rest10

Next ==
    \/ CodesNext \/ DeletionNext \/ PhonesNext \/ AccountsRaceNext
    \/ WalletNext \/ WalletRaceNext \/ StaffNext \/ StaffEmailNext
    \/ TeamNext \/ TeamRaceNext \/ TeamLiveNext \/ StoresNext
    \/ StoreRequestsNext \/ PayoutsOneNext \/ PayoutsRaceNext \/ PayoutsQueueNext
    \/ RecipientsNext \/ RecipientFaultsNext \/ EmailOneNext
    \/ EmailRaceNext \/ EmbeddingsNext \/ EmbeddingsRetryNext \/ NotifyNext
    \/ NotifyRaceNext \/ NotifyLiveNext \/ WebhooksNext \/ WebhooksRetryNext
    \/ WebhooksInlineNext \/ SettingsNext \/ ClosingsNext \/ SettingsFaultsNext
    \/ SettingsRaceNext \/ SettingsLiveNext \/ ShowcaseNext \/ AdsNext
    \/ ShowcaseRaceNext \/ ShowcaseLiveNext \/ LimitsNext \/ LimitsLiveNext
    \/ PartnersNext \/ PartnersRaceNext \/ PartnersSignUpNext

Spec == Init /\ [][Next]_vars


-----------------------------------------------------------------------------
(* Properties                                                              *)

(* Every row of every component holds what its columns may hold.           *)
TypeOK ==
    /\ part = "codes" => Codes!TypeOK
    /\ part = "deletion" => Deletion!TypeOK
    /\ part = "phones" => Phones!TypeOK
    /\ part = "accountsRace" => AccountsRace!TypeOK
    /\ part = "wallet" => Wallet!TypeOK
    /\ part = "walletRace" => WalletRace!TypeOK
    /\ part = "staff" => Staff!TypeOK
    /\ part = "staffEmail" => StaffEmail!TypeOK
    /\ part = "team" => Team!TypeOK
    /\ part = "teamRace" => TeamRace!TypeOK
    /\ part = "stores" => Stores!TypeOK
    /\ part = "storeRequests" => StoreRequests!TypeOK
    /\ part = "payoutsOne" => PayoutsOne!TypeOK
    /\ part = "payoutsRace" => PayoutsRace!TypeOK
    /\ part = "payoutsQueue" => PayoutsQueue!TypeOK
    /\ part = "recipientFaults" => RecipientFaults!TypeOK
    /\ part = "emailOne" => EmailOne!TypeOK
    /\ part = "emailRace" => EmailRace!TypeOK
    /\ part = "embeddingsRetry" => EmbeddingsRetry!TypeOK
    /\ part = "webhooks" => Webhooks!TypeOK
    /\ part = "webhooksInline" => WebhooksInline!TypeOK
    /\ part = "settings" => Settings!TypeOK
    /\ part = "closings" => Closings!TypeOK
    /\ part = "showcase" => Showcase!TypeOK
    /\ part = "ads" => Ads!TypeOK
    /\ part = "limits" => Limits!Limiter!TypeOK
    /\ part = "partners" => Partners!TypeOK

(* A code works once, only the newest one of a phone works, and wrong      *)
(* answers are bounded; two sign-ins never make two accounts of a phone,   *)
(* and a deleted account keeps no personal data. At most one address and,  *)
(* while there are cards, exactly one card is the default, and every saved *)
(* card is attached to the customer at Omise.                              *)
AccountsAreSafe ==
    /\ part = "codes" => Codes!OnlyLatestOtpWorks /\ Codes!OtpIsSpentOnce /\ Codes!WrongAnswersAreBounded
    /\ part = "deletion" => Deletion!DeletedIsAnonymous
    /\ part = "accountsRace" => AccountsRace!OneAccountPerPhone
    /\ part = "wallet" => Wallet!AtMostOneDefaultAddress /\ Wallet!OneDefaultCard /\ Wallet!SavedCardIsAtOmise

(* A session older than the last password is refused, the password that    *)
(* was set last counts, only the newest reset link works and it works      *)
(* once; an address is verified by its link or by an admin alone.          *)
StaffAccessIsCurrent ==
    /\ part = "staff" => /\ Staff!OldSessionsAreRevoked /\ Staff!LastPasswordCounts
                         /\ Staff!OnlyNewestResetLinkWorks /\ Staff!ResetLinkWorksOnce
    /\ part = "staffEmail" => StaffEmail!VerifiedEmailWasProved

(* Exactly the suspended stores have their order lines on hold, a request  *)
(* makes one store when it is approved and none when it is not, a vendor   *)
(* has one request pending and only the owner the owner's role. Two        *)
(* requests never leave two pending invitations of one address, nor a      *)
(* store without its owner. A store has one recipient at Omise, of the     *)
(* bank account it saved.                                                  *)
StoresAreAccounted ==
    /\ part = "stores" => Stores!HoldFollowsStatus /\ Stores!OwnerRoleIsTheOwners
    /\ part = "storeRequests" => StoreRequests!RequestAccountsForStores /\ StoreRequests!OnePendingRequest
    /\ part = "teamRace" => TeamRace!OnePendingInvitation /\ TeamRace!OwnerStays
    /\ part = "recipients" => Recipients!ActiveMatchesBank
    /\ part = "recipientFaults" => RecipientFaults!OneRecipient

(* One handler at a time, a settled payout has its evidence at Omise;      *)
(* however requests race, die or lose an answer, payouts stay within what  *)
(* the store earned and one caller retries a payout that has no transfer;  *)
(* of a store's payouts of a rail one is under way.                        *)
PayoutsAreBacked ==
    /\ part = "payoutsOne" => PayoutsOne!SettledOnEvidence
    /\ part = "payoutsRace" => PayoutsRace!NoOverdraft /\ PayoutsRace!ClaimIsExclusive
    /\ part = "payoutsQueue" => PayoutsQueue!OnePendingPayout /\ PayoutsQueue!SettledOnEvidence

(* One container is the default, the cache is what the database holds once *)
(* an edit ended, a disabled template is not used, and no mail, whatever   *)
(* is edited or dies meanwhile, shows a placeholder.                       *)
MailIsFilledIn ==
    /\ part = "emailOne" => /\ EmailOne!OneDefault /\ EmailOne!CacheIsFresh
                            /\ EmailOne!DisabledForcesFallback /\ EmailOne!NoLiteralPlaceholder
    /\ part = "emailRace" => EmailRace!NoLiteralPlaceholder

(* Everyone an event is for is told, once, and what fails on the way stops *)
(* neither the vendor's hold notice nor the mail about a payment.          *)
NoticesArrive ==
    /\ part = "notify" => /\ Notify!Notices!NoDuplicates /\ Notify!Notices!EveryoneIsTold
                          /\ Notify!Notices!HoldReachesVendor /\ Notify!Notices!PaidIsMailed
    /\ part = "notifyRace" => NotifyRace!Notices!HoldReachesVendor

(* Every subscribed store is sent the event, signed with the secret it was *)
(* shown, with one delivery id over all retries; a published product       *)
(* without a job is indexed with its present text.                         *)
DeliveriesAreFaithful ==
    /\ part = "webhooks" => Webhooks!ShownSecretSigns /\ Webhooks!EveryStoreDispatched
    /\ part = "webhooksRetry" => WebhooksRetry!RetriesRepeatTheId
    /\ part = "webhooksInline" => WebhooksInline!EveryStoreDispatched
    /\ part = "embeddings" => Embeddings!IndexFollows

(* One request at a time, a setting is what the administrators made of it, *)
(* change upon change, at most one ad is on, and the copy in Redis is what *)
(* the row holds; however requests overlap or fail, what is served is      *)
(* whole, and banners stand as the list committed last has them.           *)
SettingsAreCurrent ==
    /\ part = "settings" => Settings!LastWordCounts
    /\ part = "closings" => Closings!LastWordCounts /\ Closings!ServedIsWhole
    /\ part = "settingsFaults" => SettingsFaults!ServedIsWhole
    /\ part = "settingsRace" => SettingsRace!ServedIsWhole
    /\ part = "settingsLive" => SettingsLive!ServedIsWhole
    /\ part = "showcase" => Showcase!LastListStands
    /\ part = "showcaseRace" => ShowcaseRace!LastListStands
    /\ part = "ads" => Ads!OneActiveAd

(* A revoked key stays out, an order a partner sends again, also while the *)
(* first call runs, is in the shop once and as the sender's own, and no    *)
(* window lets through more than the limit or refuses before it is used    *)
(* up, whichever process loses Redis or dies.                              *)
PartnersAreServed ==
    /\ part = "partners" => Partners!RevokedKeysStayOut /\ Partners!OneOrderPerNumber
    /\ part = "partnersRace" => PartnersRace!RevokedKeysStayOut /\ PartnersRace!OneOrderPerNumber
    /\ part = "limits" => Limits!Limiter!WindowIsBounded

(* Steps no handler takes: to move an order from one account to another,   *)
(* to revoke an accepted invitation, to make a member without one, to      *)
(* reopen a settled payout, to read somebody else's notification, to index *)
(* an older text over a newer one, to end a closing before its time, to    *)
(* make a vendor's of who signed up, to replace the name a customer gave.  *)
RecordsStand ==
    [][/\ part = "phones" => Phones!LinkedOrderStays
       /\ part = "team" => Team!RevokedOnlyWhilePending /\ Team!JoinsByInvitation
       /\ part = "payoutsOne" => PayoutsOne!SettledIsFinal
       /\ part = "payoutsQueue" => PayoutsQueue!SettledIsFinal
       /\ part = "notify" => Notify!Notices!OthersStayUnread
       /\ part = "embeddingsRetry" => EmbeddingsRetry!VectorsMoveForward
       /\ part = "closings" => Closings!ReopensInTime
       /\ part = "partnersSignUp" => PartnersSignUp!SignedUpStays
       /\ part = "partners" => Partners!SignedUpStays /\ Partners!OwnNameStays]_vars
=============================================================================
