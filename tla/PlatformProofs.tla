--------------------------- MODULE PlatformProofs ---------------------------
(***************************************************************************)
(* What the theorems of the components say of the behaviours of Platform,  *)
(* whose components are instances of the modules with their proofs.        *)
(***************************************************************************)
EXTENDS Platform, FiniteSetTheorems, TLAPS

(* A step stays with its component, and is one of its own.                 *)
LEMMA StepOfPart ==
  ASSUME [Next]_vars
  PROVE  /\ part' = part
         /\ part = "staff" => StaffNext \/ UNCHANGED vars
         /\ part = "staffEmail" => StaffEmailNext \/ UNCHANGED vars
         /\ part = "limits" => LimitsNext \/ UNCHANGED vars
         /\ part = "partners" => PartnersNext \/ UNCHANGED vars
         /\ part = "partnersRace" => PartnersRaceNext \/ UNCHANGED vars
         /\ part = "emailOne" => EmailOneNext \/ UNCHANGED vars
         /\ part = "emailRace" => EmailRaceNext \/ UNCHANGED vars
         /\ part = "payoutsOne" => PayoutsOneNext \/ UNCHANGED vars
         /\ part = "payoutsRace" => PayoutsRaceNext \/ UNCHANGED vars
         /\ part = "payoutsQueue" => PayoutsQueueNext \/ UNCHANGED vars
         /\ part = "notify" => NotifyNext \/ UNCHANGED vars
         /\ part = "notifyRace" => NotifyRaceNext \/ UNCHANGED vars
  BY DEF Next, vars, rest5, rest6, rest7, rest8, rest9, rest10,
       CodesNext, DeletionNext, PhonesNext, AccountsRaceNext, WalletNext, WalletRaceNext,
       StaffNext, StaffEmailNext, TeamNext, TeamRaceNext, TeamLiveNext, StoresNext,
       StoreRequestsNext, PayoutsOneNext, PayoutsRaceNext, PayoutsQueueNext,
       RecipientsNext, RecipientFaultsNext, EmailOneNext, EmailRaceNext,
       EmbeddingsNext, EmbeddingsRetryNext, NotifyNext, NotifyRaceNext, NotifyLiveNext,
       WebhooksNext, WebhooksRetryNext, WebhooksInlineNext, SettingsNext, ClosingsNext,
       SettingsFaultsNext, SettingsRaceNext, SettingsLiveNext, ShowcaseNext, AdsNext,
       ShowcaseRaceNext, ShowcaseLiveNext, LimitsNext, LimitsLiveNext, PartnersNext,
       PartnersRaceNext, PartnersSignUpNext

(* The constants of the instances.                                         *)
LEMMA InstancesAreSound ==
  /\ Limits!Limiter!LimiterAssumption /\ Partners!ApiAssumption /\ PartnersRace!ApiAssumption
  /\ Staff!StaffAssumption /\ Staff!OneRequest /\ StaffEmail!StaffAssumption
  BY DEF Staff!StaffAssumption, Staff!AllHandlers, Staff!AuthResolver, Staff!StoresResolver,
       StaffEmail!StaffAssumption, StaffEmail!AllHandlers, StaffEmail!AuthResolver,
       StaffEmail!StoresResolver, Staff!OneRequest,
       Limits!Limiter!LimiterAssumption, Partners!ApiAssumption, PartnersRace!ApiAssumption,
       Partners!KeyHandlers, Partners!ImportHandlers, Partners!OwnHandlers, Partners!None,
       PartnersRace!KeyHandlers, PartnersRace!ImportHandlers, PartnersRace!OwnHandlers,
       PartnersRace!None, TwoSlots, OneSlot

-----------------------------------------------------------------------------
(* The inductive invariants of the components that partners use.           *)
PartnersInv ==
    /\ part = "partners" => Partners!ApiInv
    /\ part = "partnersRace" => PartnersRace!ApiInv
    /\ part = "limits" => Limits!LimiterInv

(* Keys stay revoked, orders are imported once and windows are bounded: in *)
(* Platform, from the theorems of PublicApi and RateLimiter.               *)
THEOREM ServesPartners == Spec => []PartnersAreServed
<1>1. Init => PartnersInv
  <2> SUFFICES ASSUME Init PROVE PartnersInv OBVIOUS
  <2>1. CASE part = "partners"
    <3>1. Partners!Init BY <2>1, ZenonT(40) DEF Init
    <3> QED BY <2>1, <3>1, InstancesAreSound, Partners!ApiInit DEF PartnersInv
  <2>2. CASE part = "partnersRace"
    <3>1. PartnersRace!Init BY <2>2, ZenonT(40) DEF Init
    <3> QED BY <2>2, <3>1, InstancesAreSound, PartnersRace!ApiInit DEF PartnersInv
  <2>3. CASE part = "limits"
    <3>1. Limits!Limiter!Init BY <2>3, ZenonT(40) DEF Init
    <3> QED BY <2>3, <3>1, InstancesAreSound, Limits!LimiterInit DEF PartnersInv
  <2> QED BY <2>1, <2>2, <2>3 DEF PartnersInv
<1>2. PartnersInv /\ [Next]_vars => PartnersInv'
  <2> SUFFICES ASSUME PartnersInv, [Next]_vars PROVE PartnersInv' OBVIOUS
  <2>1. CASE part = "partners"
    <3>1. [Partners!Next]_(Partners!vars)
      BY <2>1, StepOfPart DEF PartnersNext, vars, Partners!vars
    <3>2. Partners!ApiInv' BY <2>1, <3>1, InstancesAreSound, Partners!ApiNext DEF PartnersInv
    <3> QED BY <2>1, <3>2, StepOfPart DEF PartnersInv
  <2>2. CASE part = "partnersRace"
    <3>1. [PartnersRace!Next]_(PartnersRace!vars)
      BY <2>2, StepOfPart DEF PartnersRaceNext, vars, PartnersRace!vars
    <3>2. PartnersRace!ApiInv'
      BY <2>2, <3>1, InstancesAreSound, PartnersRace!ApiNext DEF PartnersInv
    <3> QED BY <2>2, <3>2, StepOfPart DEF PartnersInv
  <2>3. CASE part = "limits"
    <3>1. [Limits!Limiter!Next]_(Limits!Limiter!vars)
      BY <2>3, StepOfPart DEF LimitsNext, vars, Limits!Limiter!vars
    <3>2. Limits!LimiterInv' BY <2>3, <3>1, InstancesAreSound, Limits!LimiterNext DEF PartnersInv
    <3> QED BY <2>3, <3>2, StepOfPart DEF PartnersInv
  <2> QED BY <2>1, <2>2, <2>3, StepOfPart DEF PartnersInv
<1>3. PartnersInv => PartnersAreServed
  <2>1. Partners!ApiInv => Partners!RevokedKeysStayOut /\ Partners!OneOrderPerNumber
    BY Partners!ApiServes DEF Partners!ApiInv
  <2>2. PartnersRace!ApiInv => PartnersRace!RevokedKeysStayOut /\ PartnersRace!OneOrderPerNumber
    BY PartnersRace!ApiServes DEF PartnersRace!ApiInv
  <2>3. Limits!LimiterInv => Limits!Limiter!WindowIsBounded BY InstancesAreSound, Limits!LimiterBounds
  <2> QED BY <2>1, <2>2, <2>3 DEF PartnersInv, PartnersAreServed
<1> QED BY <1>1, <1>2, <1>3, PTL DEF Spec

-----------------------------------------------------------------------------
(* The inductive invariants of staff accounts.                             *)
AccessInv ==
    /\ part = "staff" => Staff!StaffInv /\ Staff!OneAtATimeInv
    /\ part = "staffEmail" => StaffEmail!StaffInv

(* Sessions, passwords and reset links are current while one request runs  *)
(* at a time, and a verified address was proved however requests overlap:  *)
(* in Platform, from the theorems of StaffAccounts.                        *)
THEOREM StaffAccess == Spec => []StaffAccessIsCurrent
<1>1. Init => AccessInv
  <2> SUFFICES ASSUME Init PROVE AccessInv OBVIOUS
  <2>1. CASE part = "staff"
    <3>1. Staff!Init BY <2>1, ZenonT(40) DEF Init
    <3>2. Staff!StaffInv /\ Staff!OneAtATimeInv BY <3>1, InstancesAreSound, Staff!StaffInit, Staff!OneInit
    <3> QED BY <2>1, <3>2 DEF AccessInv
  <2>2. CASE part = "staffEmail"
    <3>1. StaffEmail!Init BY <2>2, ZenonT(40) DEF Init
    <3>2. StaffEmail!StaffInv BY <3>1, InstancesAreSound, StaffEmail!StaffInit
    <3> QED BY <2>2, <3>2 DEF AccessInv
  <2> QED BY <2>1, <2>2 DEF AccessInv
<1>2. AccessInv /\ [Next]_vars => AccessInv'
  <2> SUFFICES ASSUME AccessInv, [Next]_vars PROVE AccessInv' OBVIOUS
  <2>1. CASE part = "staff"
    <3>1. [Staff!Next]_(Staff!vars) BY <2>1, StepOfPart DEF StaffNext, vars, Staff!vars
    <3>2. Staff!StaffInv /\ Staff!OneAtATimeInv BY <2>1 DEF AccessInv
    <3>3. Staff!StaffInv' BY <3>1, <3>2, InstancesAreSound, Staff!StaffNext
    <3>4. Staff!OneAtATimeInv' BY <3>1, <3>2, InstancesAreSound, Staff!OneNext
    <3> QED BY <2>1, <3>3, <3>4, StepOfPart DEF AccessInv
  <2>2. CASE part = "staffEmail"
    <3>1. [StaffEmail!Next]_(StaffEmail!vars)
      BY <2>2, StepOfPart DEF StaffEmailNext, vars, StaffEmail!vars
    <3>2. StaffEmail!StaffInv' BY <2>2, <3>1, InstancesAreSound, StaffEmail!StaffNext DEF AccessInv
    <3> QED BY <2>2, <3>2, StepOfPart DEF AccessInv
  <2> QED BY <2>1, <2>2, StepOfPart DEF AccessInv
<1>3. AccessInv => StaffAccessIsCurrent
  <2>1. Staff!OneAtATimeInv => /\ Staff!OldSessionsAreRevoked /\ Staff!LastPasswordCounts
                               /\ Staff!OnlyNewestResetLinkWorks /\ Staff!ResetLinkWorksOnce
    BY Staff!OneGives
  <2>2. StaffEmail!StaffInv => StaffEmail!VerifiedEmailWasProved BY DEF StaffEmail!StaffInv
  <2> QED BY <2>1, <2>2 DEF AccessInv, StaffAccessIsCurrent
<1> QED BY <1>1, <1>2, <1>3, PTL DEF Spec

-----------------------------------------------------------------------------
(* The constants of the mail instances satisfy the assumptions.            *)
LEMMA MailIsSound ==
  /\ EmailOne!EmailAssumption /\ EmailOne!OneRequest /\ EmailRace!EmailAssumption
  /\ "crash" \notin {"createContainer", "updateContainer", "setDefault", "updateContent", "send"}
  BY DEF EmailOne!EmailAssumption, EmailOne!AllHandlers, EmailOne!CmsResolver, EmailOne!OneRequest,
     EmailRace!EmailAssumption, EmailRace!AllHandlers, EmailRace!CmsResolver, OneSlot

(* The inductive invariants of the e-mail templates.                       *)
MailInv ==
    /\ part = "emailOne" => EmailOne!EmailInv /\ EmailOne!FreshInv /\ EmailOne!DefaultInv
    /\ part = "emailRace" => EmailRace!EmailInv

(* One default container, a cache that follows the edits and a disabled    *)
(* template that is not used, one request at a time; no placeholder in a   *)
(* mail however requests overlap and processes die: in Platform, from the  *)
(* theorems of EmailCms.                                                   *)
THEOREM MailsAreFilledIn == Spec => []MailIsFilledIn
<1>1. Init => MailInv
  <2> SUFFICES ASSUME Init PROVE MailInv OBVIOUS
  <2>1. CASE part = "emailOne"
    <3>1. EmailOne!Init BY <2>1, ZenonT(40) DEF Init
    <3>2. EmailOne!EmailInv /\ EmailOne!FreshInv /\ EmailOne!DefaultInv
      BY <3>1, MailIsSound, EmailOne!EmailInit, EmailOne!FreshInit, EmailOne!DefaultInit
    <3> QED BY <2>1, <3>2 DEF MailInv
  <2>2. CASE part = "emailRace"
    <3>1. EmailRace!Init BY <2>2, ZenonT(40) DEF Init
    <3>2. EmailRace!EmailInv BY <3>1, MailIsSound, EmailRace!EmailInit
    <3> QED BY <2>2, <3>2 DEF MailInv
  <2> QED BY <2>1, <2>2 DEF MailInv
<1>2. MailInv /\ [Next]_vars => MailInv'
  <2> SUFFICES ASSUME MailInv, [Next]_vars PROVE MailInv' OBVIOUS
  <2>1. CASE part = "emailOne"
    <3>1. [EmailOne!Next]_(EmailOne!vars) BY <2>1, StepOfPart DEF EmailOneNext, vars, EmailOne!vars
    <3>2. EmailOne!EmailInv /\ EmailOne!FreshInv /\ EmailOne!DefaultInv BY <2>1 DEF MailInv
    <3>3. EmailOne!EmailInv' BY <3>1, <3>2, MailIsSound, EmailOne!EmailNext
    <3>4. EmailOne!FreshInv' BY <3>1, <3>2, MailIsSound, EmailOne!FreshNext
    <3>5. EmailOne!DefaultInv' BY <3>1, <3>2, MailIsSound, EmailOne!DefaultNext
    <3> QED BY <2>1, <3>3, <3>4, <3>5, StepOfPart DEF MailInv
  <2>2. CASE part = "emailRace"
    <3>1. [EmailRace!Next]_(EmailRace!vars)
      BY <2>2, StepOfPart DEF EmailRaceNext, vars, EmailRace!vars
    <3>2. EmailRace!EmailInv' BY <2>2, <3>1, MailIsSound, EmailRace!EmailNext DEF MailInv
    <3> QED BY <2>2, <3>2, StepOfPart DEF MailInv
  <2> QED BY <2>1, <2>2, StepOfPart DEF MailInv
<1>3. MailInv => MailIsFilledIn
  <2>1. EmailOne!FreshInv => EmailOne!CacheIsFresh /\ EmailOne!DisabledForcesFallback
    BY EmailOne!FreshGives
  <2>2. EmailOne!DefaultInv => EmailOne!OneDefault BY MailIsSound, EmailOne!DefaultGives
  <2>3. /\ EmailOne!EmailInv => EmailOne!NoLiteralPlaceholder
        /\ EmailRace!EmailInv => EmailRace!NoLiteralPlaceholder
    BY DEF EmailOne!EmailInv, EmailRace!EmailInv
  <2> QED BY <2>1, <2>2, <2>3 DEF MailInv, MailIsFilledIn
<1> QED BY <1>1, <1>2, <1>3, PTL DEF Spec

-----------------------------------------------------------------------------
(* The constants of the payouts' instances.                                *)
LEMMA PayoutsAreSound ==
  /\ PayoutsOne!PayoutsAssumption
  /\ PayoutsRace!PayoutsAssumption /\ PayoutsRace!NoLateWebhook
  /\ PayoutsQueue!PayoutsAssumption /\ PayoutsQueue!NoRetries
  BY DEF PayoutsOne!PayoutsAssumption, PayoutsOne!AllHandlers,
     PayoutsRace!PayoutsAssumption, PayoutsRace!AllHandlers, PayoutsRace!NoLateWebhook,
     PayoutsQueue!PayoutsAssumption, PayoutsQueue!AllHandlers, PayoutsQueue!NoRetries

(* The inductive invariants of the payouts.                                *)
PayoutsInv ==
    /\ part = "payoutsOne" => PayoutsOne!PayInv
    /\ part = "payoutsRace" => /\ PayoutsRace!PayInv /\ PayoutsRace!MoneyInv
                               /\ PayoutsRace!ClaimInv /\ PayoutsRace!OpsOK
    /\ part = "payoutsQueue" => PayoutsQueue!PayInv /\ PayoutsQueue!PendingInv /\ PayoutsQueue!OpsOK

(* A settled payout has its evidence, whoever asks and however events come;*)
(* no overdraft, and one caller retries, while a vendor and an             *)
(* administrator ask at once, without a webhook beside them, also when a   *)
(* process dies or an answer is lost; one payout of a rail is under way    *)
(* while the scheduler and two administrators at the manual queue overlap: *)
(* in Platform, from the theorems of Payouts.                              *)
THEOREM PayoutsBacked == Spec => []PayoutsAreBacked
<1>1. Init => PayoutsInv
  <2> SUFFICES ASSUME Init PROVE PayoutsInv OBVIOUS
  <2>1. CASE part = "payoutsOne"
    <3>1. PayoutsOne!Init BY <2>1, ZenonT(40) DEF Init
    <3>2. PayoutsOne!PayInv BY <3>1, PayoutsAreSound, PayoutsOne!PayInit
    <3> QED BY <2>1, <3>2 DEF PayoutsInv
  <2>2. CASE part = "payoutsRace"
    <3>1. PayoutsRace!Init BY <2>2, ZenonT(40) DEF Init
    <3>2. PayoutsRace!PayInv /\ PayoutsRace!MoneyInv /\ PayoutsRace!OpsOK
      BY <3>1, PayoutsAreSound, PayoutsRace!PayInit, PayoutsRace!MoneyInit
    <3>3. PayoutsRace!ClaimInv BY <3>1, PayoutsAreSound, PayoutsRace!ClaimInit
    <3> QED BY <2>2, <3>2, <3>3 DEF PayoutsInv
  <2>3. CASE part = "payoutsQueue"
    <3>1. PayoutsQueue!Init BY <2>3, ZenonT(40) DEF Init
    <3>2. PayoutsQueue!PayInv /\ PayoutsQueue!PendingInv /\ PayoutsQueue!OpsOK
      BY <3>1, PayoutsAreSound, PayoutsQueue!PayInit, PayoutsQueue!PendingInit, PayoutsQueue!MoneyInit
    <3> QED BY <2>3, <3>2 DEF PayoutsInv
  <2> QED BY <2>1, <2>2, <2>3 DEF PayoutsInv
<1>2. PayoutsInv /\ [Next]_vars => PayoutsInv'
  <2> SUFFICES ASSUME PayoutsInv, [Next]_vars PROVE PayoutsInv' OBVIOUS
  <2>1. CASE part = "payoutsOne"
    <3>1. [PayoutsOne!Next]_(PayoutsOne!vars)
      BY <2>1, StepOfPart DEF PayoutsOneNext, vars, PayoutsOne!vars
    <3>2. PayoutsOne!PayInv BY <2>1 DEF PayoutsInv
    <3>3. PayoutsOne!PayInv' BY <3>1, <3>2, PayoutsAreSound, PayoutsOne!PayNext
    <3> QED BY <2>1, <3>3, StepOfPart DEF PayoutsInv
  <2>2. CASE part = "payoutsRace"
    <3>1. [PayoutsRace!Next]_(PayoutsRace!vars)
      BY <2>2, StepOfPart DEF PayoutsRaceNext, vars, PayoutsRace!vars
    <3>2. PayoutsRace!PayInv /\ PayoutsRace!MoneyInv /\ PayoutsRace!ClaimInv /\ PayoutsRace!OpsOK
      BY <2>2 DEF PayoutsInv
    <3>3. PayoutsRace!PayInv' BY <3>1, <3>2, PayoutsAreSound, PayoutsRace!PayNext
    <3>4. PayoutsRace!MoneyInv' BY <3>1, <3>2, PayoutsAreSound, PayoutsRace!MoneyNext
    <3>5. PayoutsRace!OpsOK' BY <3>1, <3>2, PayoutsAreSound, PayoutsRace!StepActs
    <3>6. PayoutsRace!ClaimInv' BY <3>1, <3>2, PayoutsAreSound, PayoutsRace!ClaimNext
    <3> QED BY <2>2, <3>3, <3>4, <3>5, <3>6, StepOfPart DEF PayoutsInv
  <2>3. CASE part = "payoutsQueue"
    <3>1. [PayoutsQueue!Next]_(PayoutsQueue!vars)
      BY <2>3, StepOfPart DEF PayoutsQueueNext, vars, PayoutsQueue!vars
    <3>2. PayoutsQueue!PayInv /\ PayoutsQueue!PendingInv /\ PayoutsQueue!OpsOK BY <2>3 DEF PayoutsInv
    <3>3. PayoutsQueue!PayInv' BY <3>1, <3>2, PayoutsAreSound, PayoutsQueue!PayNext
    <3>4. PayoutsQueue!PendingInv' BY <3>1, <3>2, PayoutsAreSound, PayoutsQueue!PendingNext
    <3>5. PayoutsQueue!OpsOK' BY <3>1, <3>2, PayoutsAreSound, PayoutsQueue!StepActs
    <3> QED BY <2>3, <3>3, <3>4, <3>5, StepOfPart DEF PayoutsInv
  <2> QED BY <2>1, <2>2, <2>3, StepOfPart DEF PayoutsInv
<1>3. PayoutsInv => PayoutsAreBacked
  <2>1. PayoutsRace!ClaimInv => PayoutsRace!ClaimIsExclusive BY DEF PayoutsRace!ClaimInv
  <2>2. /\ PayoutsOne!PayInv => PayoutsOne!SettledOnEvidence
        /\ PayoutsQueue!PayInv => PayoutsQueue!SettledOnEvidence
    BY DEF PayoutsOne!PayInv, PayoutsQueue!PayInv
  <2>3. PayoutsRace!MoneyInv => PayoutsRace!NoOverdraft BY DEF PayoutsRace!MoneyInv
  <2>4. PayoutsQueue!PendingInv => PayoutsQueue!OnePendingPayout BY PayoutsQueue!PendingGives
  <2> QED BY <2>1, <2>2, <2>3, <2>4 DEF PayoutsInv, PayoutsAreBacked
<1> QED BY <1>1, <1>2, <1>3, PTL DEF Spec

-----------------------------------------------------------------------------
(* A set of two is finite.                                                 *)
LEMMA PairIsFinite == ASSUME NEW x, NEW y, NEW S, S = {x, y} PROVE IsFiniteSet(S)
<1>1. PICK T : T = {x}
  OBVIOUS
<1>2. IsFiniteSet(T)
  <2>1. \A e : IsFiniteSet({e})
    BY FS_Singleton, Zenon
  <2>2. IsFiniteSet({x})
    BY <2>1, Zenon
  <2> QED BY <1>1, <2>2, Zenon
<1>3. PICK U : U = T \cup {y}
  OBVIOUS
<1>4. IsFiniteSet(U)
  <2>1. IsFiniteSet(T \cup {y})
    BY <1>2, FS_AddElement, Zenon
  <2> QED BY <1>3, <2>1, Zenon
<1>5. S = U
  <2>1. \A e : e \in S <=> e \in U
    BY <1>1, <1>3, Zenon
  <2> QED BY <2>1, Zenon
<1> QED BY <1>4, <1>5, Zenon

(* The constants of the notifications' instances.                          *)
LEMMA NoticesAreSound ==
  /\ Notify!Notices!NotificationAssumption /\ Notify!OneRequest
  /\ NotifyRace!Notices!NotificationAssumption
<1>1. IsFiniteSet({"s1", "s2"}) /\ IsFiniteSet({"a1", "a2"}) /\ IsFiniteSet({"a1"})
  <2>1. IsFiniteSet({"s1", "s2"})
    BY PairIsFinite, Zenon
  <2>2. IsFiniteSet({"a1", "a2"})
    BY PairIsFinite, Zenon
  <2>3. IsFiniteSet({"a1"})
    <3>1. \A e : IsFiniteSet({e})
      BY FS_Singleton, Zenon
    <3> QED BY <3>1, Zenon
  <2> QED BY <2>1, <2>2, <2>3, Zenon
<1>2. /\ Notify!Notices!IsFiniteSet({"s1", "s2"}) /\ Notify!Notices!IsFiniteSet({"a1", "a2"})
      /\ NotifyRace!Notices!IsFiniteSet({"s1", "s2"}) /\ NotifyRace!Notices!IsFiniteSet({"a1"})
  BY <1>1 DEF IsFiniteSet, Notify!Notices!IsFiniteSet, NotifyRace!Notices!IsFiniteSet
<1>3. Notify!Notices!NotificationAssumption
  BY <1>2 DEF Notify!Notices!NotificationAssumption, Notify!Notices!AllHandlers
<1>4. NotifyRace!Notices!NotificationAssumption
  BY <1>2 DEF NotifyRace!Notices!NotificationAssumption, NotifyRace!Notices!AllHandlers
<1> QED BY <1>3, <1>4 DEF Notify!OneRequest, OneSlot

(* The inductive invariants of the notifications.                          *)
NoticesKnown ==
    /\ part = "notify" => Notify!NoticesInv /\ Notify!LookedFirst
    /\ part = "notifyRace" => NotifyRace!NoticesInv

(* Everyone is told, a hold's vendor and a payment's mail whatever failed  *)
(* before, nobody twice one event at a time: in Platform, from the         *)
(* theorems of Notifications.                                              *)
THEOREM NoticesReachAll == Spec => []NoticesArrive
<1>1. Init => NoticesKnown
  <2> SUFFICES ASSUME Init PROVE NoticesKnown OBVIOUS
  <2>1. CASE part = "notify"
    <3>1. Notify!Notices!Init BY <2>1, ZenonT(40) DEF Init
    <3>2. Notify!NoticesInv /\ Notify!LookedFirst BY <3>1, NoticesAreSound, Notify!NoticesInit
    <3> QED BY <2>1, <3>2 DEF NoticesKnown
  <2>2. CASE part = "notifyRace"
    <3>1. NotifyRace!Notices!Init BY <2>2, ZenonT(40) DEF Init
    <3>2. NotifyRace!NoticesInv BY <3>1, NoticesAreSound, NotifyRace!NoticesInit
    <3> QED BY <2>2, <3>2 DEF NoticesKnown
  <2> QED BY <2>1, <2>2 DEF NoticesKnown
<1>2. NoticesKnown /\ [Next]_vars => NoticesKnown'
  <2> SUFFICES ASSUME NoticesKnown, [Next]_vars PROVE NoticesKnown' OBVIOUS
  <2>1. CASE part = "notify"
    <3>1. [Notify!Notices!Next]_(Notify!Notices!vars)
      BY <2>1, StepOfPart DEF NotifyNext, vars, Notify!Notices!vars
    <3>2. Notify!NoticesInv /\ Notify!LookedFirst BY <2>1 DEF NoticesKnown
    <3>3. Notify!NoticesInv' /\ Notify!LookedFirst' BY <3>1, <3>2, NoticesAreSound, Notify!NoticesNext
    <3> QED BY <2>1, <3>3, StepOfPart DEF NoticesKnown
  <2>2. CASE part = "notifyRace"
    <3>1. [NotifyRace!Notices!Next]_(NotifyRace!Notices!vars)
      BY <2>2, StepOfPart DEF NotifyRaceNext, vars, NotifyRace!Notices!vars
    <3>2. NotifyRace!NoticesInv BY <2>2 DEF NoticesKnown
    <3>3. NotifyRace!NoticesInv' BY <3>1, <3>2, NoticesAreSound, NotifyRace!NoticesNext
    <3> QED BY <2>2, <3>3, StepOfPart DEF NoticesKnown
  <2> QED BY <2>1, <2>2, StepOfPart DEF NoticesKnown
<1>3. NoticesKnown => NoticesArrive
  <2>1. Notify!LookedFirst => Notify!Notices!NoDuplicates BY DEF Notify!LookedFirst
  <2>2. /\ Notify!NoticesInv => /\ Notify!Notices!EveryoneIsTold /\ Notify!Notices!HoldReachesVendor
                               /\ Notify!Notices!PaidIsMailed
        /\ NotifyRace!NoticesInv => NotifyRace!Notices!HoldReachesVendor
    BY Notify!NoticesGive, NotifyRace!NoticesGive
  <2> QED BY <2>1, <2>2 DEF NoticesKnown, NoticesArrive
<1> QED BY <1>1, <1>2, <1>3, PTL DEF Spec
=============================================================================
