------------------------- MODULE StaffAccountsProofs -------------------------
(***************************************************************************)
(* Who gets into a vendor's account, for any number of passwords, links    *)
(* and addresses. That a verified address was proved holds however many    *)
(* requests overlap; what passwords, sessions and reset links promise      *)
(* holds while one request runs at a time (OneRequest), because handlers   *)
(* save the whole row that they loaded.                                    *)
(***************************************************************************)
EXTENDS StaffAccounts, WellFoundedInduction, TLAPS

(* What a request carries about an account: a version that was the         *)
(* account's, an address that is proved if it says so, and a link where    *)
(* its next step uses one.                                                 *)
CarriesOK(j) ==
    /\ j.row.tokenVersion <= changes
    /\ j.row.emailVerified => j.row.email \in proved
    /\ j.at \in {"useReset", "useVerify"} => j.link \in Link
    /\ j.at = "passwordSave" /\ j.op = "resetPassword" => j.link \in Link

StaffInv ==
    /\ TypeOK
    /\ user.tokenVersion <= changes
    /\ VerifiedEmailWasProved
    /\ \A r \in Req : CarriesOK(job[r])

-----------------------------------------------------------------------------
(* One handler at a time.                                                  *)
OneRequest == \A r, q \in Req : r = q

Saves == {"loginSave", "passwordSave", "verifySave", "adminSave"}

(* The row in the table, and a row about to be saved, has the password and *)
(* the version of the last change.                                         *)
RowsAreCurrent ==
    /\ user.password = changes /\ user.tokenVersion = changes
    /\ \A r \in Req : job[r].at \in Saves => job[r].row.password = changes /\ job[r].row.tokenVersion = changes
    /\ \A r \in Req : job[r].at = "loginSave" => job[r].changes = changes

(* A token's version is the number of passwords there were.                *)
SessionsAreDated == \A s \in session : s.ver = s.changes

(* Links are filled in order, and a link that was sent has an address.     *)
LinksInOrder ==
    /\ \A l \in Link : reset[l] # NoLink => reset[l].email \in Email
    /\ \A k, l \in Link : reset[l] # NoLink /\ k < l => reset[k] # NoLink

(* Before a new link is inserted those of its address are used.            *)
OthersInvalidated ==
    \A r \in Req : job[r].at = "insert" /\ job[r].op = "requestReset" =>
       \A l \in Link : reset[l].email = job[r].row.email => reset[l].used

(* A link that set a password is used, or about to be.                     *)
SpentIsUsed ==
    /\ \A l \in Link : resets[l] = 0 \/ reset[l].used \/ \E r \in Req : job[r].at = "useReset" /\ job[r].link = l
    /\ \A r \in Req : job[r].at = "passwordSave" /\ job[r].op = "resetPassword" => resets[job[r].link] = 0
    /\ \A r \in Req : job[r].at = "useReset" \/ (job[r].at = "passwordSave" /\ job[r].op = "resetPassword")
          => reset[job[r].link] # NoLink

OneAtATimeInv ==
    /\ RowsAreCurrent /\ SessionsAreDated /\ LinksInOrder /\ OnlyNewestResetLinkWorks
    /\ OthersInvalidated /\ ResetLinkWorksOnce /\ SpentIsUsed

-----------------------------------------------------------------------------
(* An idle request is well formed and carries nothing.                     *)
LEMMA IdleCarries == ASSUME StaffAssumption, TypeOK PROVE Idle \in Job /\ CarriesOK(Idle) /\ Idle.at = "idle"
<1>1. MaxChanges \in Nat /\ MaxLinks \in Nat /\ FirstEmail \in Email BY DEF StaffAssumption
<1>2. FirstUser \in User BY <1>1 DEF FirstUser, User
<1>3. Idle \in Job BY <1>1, <1>2 DEF Idle, Job, None
<1>4. CarriesOK(Idle) BY <1>1 DEF TypeOK, CarriesOK, Idle, FirstUser
<1> QED BY <1>3, <1>4 DEF Idle

(* The account as it is registered.                                        *)
LEMMA StaffInit == ASSUME StaffAssumption PROVE Init => StaffInv
<1> SUFFICES ASSUME Init PROVE StaffInv OBVIOUS
<1>1. MaxChanges \in Nat /\ MaxLinks \in Nat /\ FirstEmail \in Email BY DEF StaffAssumption
<1>2. FirstUser \in User BY <1>1 DEF FirstUser, User
<1>3. Idle \in Job BY <1>1, <1>2 DEF Idle, Job, None
<1>4. NoLink \in Token BY DEF NoLink, Token
<1>5. TypeOK BY <1>1, <1>2, <1>3, <1>4 DEF Init, TypeOK
<1>6. \A r \in Req : CarriesOK(job[r]) BY <1>1, <1>3, <1>5, IdleCarries DEF Init
<1>7. user.tokenVersion <= changes /\ VerifiedEmailWasProved
  BY DEF Init, FirstUser, VerifiedEmailWasProved
<1> QED BY <1>5, <1>6, <1>7 DEF StaffInv

(* A request that goes on with what it may carry: the others carry what    *)
(* they carried, since neither passwords nor proofs are taken back.        *)
LEMMA CarriesOn ==
  ASSUME StaffAssumption, StaffInv, NEW r \in Req, NEW j \in Job, job' = [job EXCEPT ![r] = j],
         changes \in Nat, changes' \in Nat, changes <= changes', proved \subseteq proved', CarriesOK(j)'
  PROVE  job' \in [Req -> Job] /\ \A q \in Req : CarriesOK(job[q])'
<1>1. job \in [Req -> Job] /\ \A q \in Req : CarriesOK(job[q]) BY DEF StaffInv, TypeOK
<1>2. job'[r] = j /\ \A q \in Req \ {r} : job'[q] = job[q] BY <1>1
<1>3. job' \in [Req -> Job] BY <1>1
<1>4. ASSUME NEW q \in Req PROVE CarriesOK(job[q])'
  <2>1. CASE q = r BY <1>2, <2>1 DEF CarriesOK
  <2>2. CASE q # r
    <3>1. job'[q] = job[q] /\ CarriesOK(job[q]) BY <1>1, <1>2, <2>2
    <3>2. job[q].row.tokenVersion \in Nat BY <1>1 DEF Job, User
    <3> QED BY <3>1, <3>2 DEF CarriesOK
  <2> QED BY <2>1, <2>2
<1> QED BY <1>3, <1>4

(* A step that leaves the account alone keeps the invariant if it keeps    *)
(* types.                                                                  *)
LEMMA AccountStays ==
  ASSUME StaffAssumption, StaffInv, NEW r \in Req, NEW j \in Job, job' = [job EXCEPT ![r] = j],
         CarriesOK(j)', proved \subseteq proved', proved' \subseteq Email, UNCHANGED <<user, changes, resets>>,
         session' \subseteq Session, reset' \in [Link -> Token], verify' \in [Link -> Token]
  PROVE  StaffInv'
<1>1. changes \in Nat /\ MaxChanges \in Nat BY DEF StaffInv, TypeOK, StaffAssumption
<1>0. changes' \in Nat /\ changes <= changes' BY <1>1
<1>2. job' \in [Req -> Job] /\ \A q \in Req : CarriesOK(job[q])' BY <1>0, <1>1, CarriesOn
<1>3. TypeOK'
  <2>1. user' \in User /\ changes' \in 0 .. MaxChanges /\ resets' \in [Link -> Nat]
    BY DEF StaffInv, TypeOK
  <2> QED BY <1>2, <2>1 DEF TypeOK
<1>4. VerifiedEmailWasProved' BY DEF StaffInv, VerifiedEmailWasProved
<1> QED BY <1>2, <1>3, <1>4 DEF StaffInv

(* A handler starts: it carries a row of the account's present version,    *)
(* with an address that is proved if it says so.                           *)
LEMMA StartKeeps ==
  ASSUME StaffAssumption, StaffInv, NEW r \in Req, NEW op, NEW at, NEW row \in User,
         NEW l \in Link \cup {None}, NEW c \in 0 .. MaxChanges, NEW w,
         w = [at |-> "idle", op |-> "none", row |-> row, link |-> l, changes |-> c], Start(r, op, at, w),
         at \in {"loginSave", "passwordSave", "invalidate", "insert", "verifySave", "useVerify", "adminSave"},
         op = "resetPassword" \/ at = "useVerify" => l \in Link,
         row.tokenVersion <= changes, row.emailVerified => row.email \in proved',
         proved \subseteq proved', proved' \subseteq Email,
         UNCHANGED <<user, session, links, changes, resets>>
  PROVE  StaffInv'
<1>1. PICK j : j = [w EXCEPT !.at = at, !.op = op] OBVIOUS
<1>2. job' = [job EXCEPT ![r] = j] /\ op \in Handlers BY <1>1 DEF Start
<1>3. op \in AllHandlers BY <1>2 DEF StaffAssumption
<1>4. j = [at |-> at, op |-> op, row |-> row, link |-> l, changes |-> c] BY <1>1
<1>5. j \in Job BY <1>3, <1>4 DEF Job
<1>6. CarriesOK(j)' BY <1>4 DEF CarriesOK
<1>7. session' \subseteq Session /\ reset' \in [Link -> Token] /\ verify' \in [Link -> Token]
  BY DEF StaffInv, TypeOK, links
<1> QED BY <1>2, <1>5, <1>6, <1>7, AccountStays

(* What the account, as it is loaded, says of itself.                      *)
LEMMA AccountIsSound ==
  ASSUME StaffAssumption, StaffInv
  PROVE  /\ user \in User /\ changes \in 0 .. MaxChanges /\ 0 \in 0 .. MaxChanges /\ None \in Link \cup {None}
         /\ user.tokenVersion <= changes /\ (user.emailVerified => user.email \in proved)
         /\ proved \subseteq Email
  BY DEF StaffInv, TypeOK, StaffAssumption, VerifiedEmailWasProved

(* Handlers that load the account and go on with it as it is.              *)
LEMMA LoadKeeps ==
  ASSUME StaffAssumption, StaffInv, NEW r \in Req,
         \/ login(r) \/ changePassword(r) \/ requestPasswordReset(r) \/ resendEmailVerification(r)
         \/ \E l \in Link : resetPassword(r, l)
  PROVE  StaffInv'
<1>1. UNCHANGED <<user, session, links, changes, resets, proved>>
  BY DEF login, changePassword, requestPasswordReset, resetPassword, resendEmailVerification
<1>2. CASE login(r)
  <2>20. PICK w : w = [Idle EXCEPT !.row = user, !.changes = changes] OBVIOUS
  <2>21. w = [at |-> "idle", op |-> "none", row |-> user, link |-> None, changes |-> changes]
    BY <2>20 DEF Idle
  <2>1. Start(r, "login", "loginSave", w)
    BY <2>20, <1>2 DEF login
  <2> QED BY <2>21, <1>1, <2>1, AccountIsSound, StartKeeps
<1>3. CASE changePassword(r)
  <2>20. PICK w : w = [Idle EXCEPT !.row = user] OBVIOUS
  <2>21. w = [at |-> "idle", op |-> "none", row |-> user, link |-> None, changes |-> 0]
    BY <2>20 DEF Idle
  <2>1. Start(r, "changePassword", "passwordSave", w)
    BY <2>20, <1>3 DEF changePassword
  <2> QED BY <2>21, <1>1, <2>1, AccountIsSound, StartKeeps
<1>4. CASE requestPasswordReset(r)
  <2>20. PICK w : w = [Idle EXCEPT !.row = user] OBVIOUS
  <2>21. w = [at |-> "idle", op |-> "none", row |-> user, link |-> None, changes |-> 0]
    BY <2>20 DEF Idle
  <2>1. Start(r, "requestReset", "invalidate", w)
    BY <2>20, <1>4 DEF requestPasswordReset
  <2> QED BY <2>21, <1>1, <2>1, AccountIsSound, StartKeeps
<1>5. CASE resendEmailVerification(r)
  <2>20. PICK w : w = [Idle EXCEPT !.row = user] OBVIOUS
  <2>21. w = [at |-> "idle", op |-> "none", row |-> user, link |-> None, changes |-> 0]
    BY <2>20 DEF Idle
  <2>1. Start(r, "sendVerification", "insert", w)
    BY <2>20, <1>5 DEF resendEmailVerification
  <2> QED BY <2>21, <1>1, <2>1, AccountIsSound, StartKeeps
<1>6. ASSUME NEW l \in Link, resetPassword(r, l) PROVE StaffInv'
  <2>20. PICK w : w = [Idle EXCEPT !.row = user, !.link = l] OBVIOUS
  <2>21. w = [at |-> "idle", op |-> "none", row |-> user, link |-> l, changes |-> 0]
    BY <2>20 DEF Idle
  <2>1. Start(r, "resetPassword", "passwordSave", w)
    BY <2>20, <1>6 DEF resetPassword
  <2> QED BY <2>21, <1>1, <2>1, AccountIsSound, StartKeeps
<1> QED BY <1>2, <1>3, <1>4, <1>5, <1>6

(* Confirming an address and editing the account: the row that will be     *)
(* saved says of its address only what is proved.                          *)
LEMMA EditKeeps ==
  ASSUME StaffAssumption, StaffInv, NEW r \in Req,
         \/ adminVerifyVendorEmail(r) \/ \E l \in Link : verifyEmail(r, l)
         \/ \E email \in Email, b \in BOOLEAN : updateVendorAsAdmin(r, email, b)
  PROVE  StaffInv'
<1>1. UNCHANGED <<user, session, links, changes, resets>>
  BY DEF verifyEmail, adminVerifyVendorEmail, updateVendorAsAdmin
<1>2. PICK row : row = [user EXCEPT !.emailVerified = TRUE] OBVIOUS
<1>3. row \in User /\ row.tokenVersion = user.tokenVersion /\ row.email = user.email
  BY <1>2, AccountIsSound DEF User
<1>4. ASSUME NEW l \in Link, verifyEmail(r, l) PROVE StaffInv'
  <2>1. PICK at : at = IF user.emailVerified THEN "useVerify" ELSE "verifySave" OBVIOUS
  <2>20. PICK w : w = [Idle EXCEPT !.row = row, !.link = l] OBVIOUS
  <2>21. w = [at |-> "idle", op |-> "none", row |-> row, link |-> l, changes |-> 0]
    BY <2>20 DEF Idle
  <2>2. Start(r, "verifyEmail", at, w)
    BY <2>20, <1>2, <1>4, <2>1 DEF verifyEmail
  <2>3. proved' = proved \cup {user.email} BY <1>4 DEF verifyEmail
  <2>4. proved \subseteq proved' /\ proved' \subseteq Email /\ row.email \in proved'
    BY <1>3, <2>3, AccountIsSound DEF User
  <2> QED BY <2>21, <1>1, <1>3, <2>1, <2>2, <2>4, AccountIsSound, StartKeeps
<1>5. CASE adminVerifyVendorEmail(r)
  <2>20. PICK w : w = [Idle EXCEPT !.row = row] OBVIOUS
  <2>21. w = [at |-> "idle", op |-> "none", row |-> row, link |-> None, changes |-> 0]
    BY <2>20 DEF Idle
  <2>2. Start(r, "adminVerify", "verifySave", w)
    BY <2>20, <1>2, <1>5 DEF adminVerifyVendorEmail
  <2>3. proved' = proved \cup {user.email} BY <1>5 DEF adminVerifyVendorEmail
  <2>4. proved \subseteq proved' /\ proved' \subseteq Email /\ row.email \in proved'
    BY <1>3, <2>3, AccountIsSound DEF User
  <2> QED BY <2>21, <1>1, <1>3, <2>2, <2>4, AccountIsSound, StartKeeps
<1>6. ASSUME NEW email \in Email, NEW b \in BOOLEAN, updateVendorAsAdmin(r, email, b) PROVE StaffInv'
  <2>1. PICK v : v = (user.emailVerified /\ email = user.email) OBVIOUS
  <2>2. PICK new : new = [user EXCEPT !.email = email, !.isActive = b, !.emailVerified = v] OBVIOUS
  <2>20. PICK w : w = [Idle EXCEPT !.row = new] OBVIOUS
  <2>21. w = [at |-> "idle", op |-> "none", row |-> new, link |-> None, changes |-> 0]
    BY <2>20 DEF Idle
  <2>3. Start(r, "updateVendor", "adminSave", w)
    BY <2>20, <1>6, <2>1, <2>2 DEF updateVendorAsAdmin
  <2>4. UNCHANGED proved BY <1>6 DEF updateVendorAsAdmin
  <2>5. v \in BOOLEAN BY <2>1
  <2>6. /\ new \in User /\ new.tokenVersion = user.tokenVersion /\ new.email = email
        /\ new.emailVerified = v
    BY <2>2, <2>5, AccountIsSound DEF User
  <2>7. new.emailVerified => new.email \in proved' BY <2>1, <2>4, <2>6, AccountIsSound
  <2> QED BY <2>21, <1>1, <2>3, <2>4, <2>6, <2>7, AccountIsSound, StartKeeps
<1> QED BY <1>4, <1>5, <1>6

(* Going back to idle carries nothing.                                     *)
LEMMA ReturnCarries ==
  ASSUME StaffAssumption, StaffInv, changes' \in Nat
  PROVE  Idle \in Job /\ CarriesOK(Idle)'
<1>1. Idle \in Job BY IdleCarries DEF StaffInv
<1>2. CarriesOK(Idle)' BY DEF CarriesOK, Idle, FirstUser
<1> QED BY <1>1, <1>2

(* The whole row is saved as it was carried.                               *)
LEMMA SaveKeeps ==
  ASSUME StaffAssumption, StaffInv, NEW r \in Req, LoginSave(r) \/ VerifySave(r) \/ AdminSave(r)
  PROVE  StaffInv'
<1>1. /\ job \in [Req -> Job] /\ job[r] \in Job /\ CarriesOK(job[r]) /\ changes \in 0 .. MaxChanges
      /\ MaxChanges \in Nat
  BY DEF StaffInv, TypeOK, StaffAssumption
<1>2. /\ user' = job[r].row /\ UNCHANGED <<reset, verify, changes, resets, proved>>
  BY DEF LoginSave, VerifySave, AdminSave, links
<1>3. user' \in User /\ user'.tokenVersion <= changes' /\ VerifiedEmailWasProved'
  BY <1>1, <1>2 DEF Job, CarriesOK, VerifiedEmailWasProved
<1>4. session' \subseteq Session
  <2>1. [ver |-> job[r].row.tokenVersion, changes |-> job[r].changes] \in Session
    BY <1>1 DEF Job, User, Session
  <2> QED BY <2>1 DEF LoginSave, VerifySave, AdminSave, StaffInv, TypeOK
<1>6. changes' \in Nat /\ changes \in Nat /\ changes <= changes' BY <1>1, <1>2
<1>5. PICK j \in Job : job' = [job EXCEPT ![r] = j] /\ CarriesOK(j)'
  <2>1. CASE Return(r) BY <1>6, <2>1, ReturnCarries DEF Return
  <2>2. CASE VerifySave(r) /\ job[r].link # None
    <3>1. PICK j : j = [job[r] EXCEPT !.at = "useVerify"] OBVIOUS
    <3>2. job' = [job EXCEPT ![r] = j] BY <1>1, <2>2, <3>1 DEF VerifySave, Goto
    <3>3. j \in Job /\ j.at = "useVerify" /\ j.link \in Link /\ j.row = job[r].row
      BY <1>1, <2>2, <3>1 DEF Job
    <3>4. CarriesOK(j)' BY <1>1, <1>2, <3>3 DEF CarriesOK
    <3> QED BY <3>2, <3>3, <3>4
  <2> QED BY <2>1, <2>2 DEF LoginSave, VerifySave, AdminSave
<1>7. job' \in [Req -> Job] /\ \A q \in Req : CarriesOK(job[q])' BY <1>2, <1>5, <1>6, CarriesOn
<1>8. TypeOK' BY <1>1, <1>2, <1>3, <1>4, <1>7 DEF StaffInv, TypeOK
<1> QED BY <1>3, <1>7, <1>8 DEF StaffInv

(* A new password, the next version.                                       *)
LEMMA PasswordKeeps ==
  ASSUME StaffAssumption, StaffInv, NEW r \in Req, PasswordSave(r)
  PROVE  StaffInv'
<1>1. /\ job \in [Req -> Job] /\ job[r] \in Job /\ CarriesOK(job[r]) /\ changes \in 0 .. MaxChanges
      /\ MaxChanges \in Nat
  BY DEF StaffInv, TypeOK, StaffAssumption
<1>2. /\ job[r].at = "passwordSave" /\ changes < MaxChanges
      /\ user' = [job[r].row EXCEPT !.password = changes + 1, !.tokenVersion = @ + 1]
      /\ changes' = changes + 1 /\ UNCHANGED <<session, reset, verify, proved>>
  BY DEF PasswordSave, At, WithNewPassword, links
<1>3. job[r].row \in User /\ job[r].row.tokenVersion <= changes /\ (job[r].row.emailVerified => job[r].row.email \in proved)
  BY <1>1 DEF Job, CarriesOK
<1>4. changes + 1 \in 0 .. MaxChanges /\ job[r].row.tokenVersion + 1 \in 0 .. MaxChanges
      /\ job[r].row.tokenVersion + 1 <= changes + 1
  BY <1>1, <1>2, <1>3 DEF User
<1>5. user' \in User /\ user'.tokenVersion <= changes' /\ user'.email = job[r].row.email
      /\ user'.emailVerified = job[r].row.emailVerified
  BY <1>2, <1>3, <1>4 DEF User
<1>6. VerifiedEmailWasProved' BY <1>2, <1>3, <1>5 DEF VerifiedEmailWasProved
<1>7. resets' \in [Link -> Nat] BY DEF PasswordSave, StaffInv, TypeOK
<1>8. changes' \in Nat /\ changes \in Nat /\ changes <= changes' BY <1>1, <1>2
<1>9. PICK j \in Job : job' = [job EXCEPT ![r] = j] /\ CarriesOK(j)'
  <2>1. CASE job[r].op # "resetPassword"
    <3>1. job' = [job EXCEPT ![r] = Idle] BY <2>1 DEF PasswordSave, Return
    <3> QED BY <1>8, <3>1, ReturnCarries
  <2>2. CASE job[r].op = "resetPassword"
    <3>1. PICK j : j = [job[r] EXCEPT !.at = "useReset"] OBVIOUS
    <3>2. job' = [job EXCEPT ![r] = j] BY <1>1, <2>2, <3>1 DEF PasswordSave, Goto
    <3>3. j \in Job /\ j.at = "useReset" /\ j.link = job[r].link /\ j.row = job[r].row
      BY <1>1, <2>2, <3>1 DEF Job
    <3>4. j.link \in Link BY <1>1, <1>2, <2>2, <3>3 DEF CarriesOK
    <3>5. j.row.tokenVersion \in Nat BY <1>3, <3>3 DEF User
    <3>6. CarriesOK(j)' BY <1>2, <1>3, <1>8, <3>3, <3>4, <3>5 DEF CarriesOK
    <3> QED BY <3>2, <3>3, <3>6
  <2> QED BY <2>1, <2>2
<1>10. job' \in [Req -> Job] /\ \A q \in Req : CarriesOK(job[q])' BY <1>2, <1>8, <1>9, CarriesOn
<1>11. TypeOK' BY <1>2, <1>4, <1>5, <1>7, <1>10 DEF StaffInv, TypeOK
<1> QED BY <1>5, <1>6, <1>10, <1>11 DEF StaffInv

(* Steps on the tables of links.                                           *)
LEMMA LinkStepKeeps ==
  ASSUME StaffAssumption, StaffInv, NEW r \in Req,
         \/ InvalidateLinks(r) \/ createAndSendPasswordResetToken(r) \/ UseReset(r) \/ UseOtherResets(r)
         \/ createAndSendEmailVerificationToken(r) \/ UseVerify(r)
  PROVE  StaffInv'
<1>1. /\ job \in [Req -> Job] /\ job[r] \in Job /\ CarriesOK(job[r]) /\ changes \in 0 .. MaxChanges
      /\ MaxChanges \in Nat /\ reset \in [Link -> Token] /\ verify \in [Link -> Token]
      /\ session \subseteq Session /\ proved \subseteq Email
  BY DEF StaffInv, TypeOK, StaffAssumption
<1>2. UNCHANGED <<user, session, changes, resets, proved>>
  BY DEF InvalidateLinks, createAndSendPasswordResetToken, UseReset, UseOtherResets,
       createAndSendEmailVerificationToken, UseVerify
<1>3. changes' \in Nat BY <1>1, <1>2
<1>4. ASSUME Return(r), reset' \in [Link -> Token], verify' \in [Link -> Token] PROVE StaffInv'
  <2>1. PICK j : j = Idle OBVIOUS
  <2>2. job' = [job EXCEPT ![r] = j] BY <1>4, <2>1 DEF Return
  <2>3. j \in Job /\ CarriesOK(j)' BY <1>3, <2>1, ReturnCarries
  <2> QED BY <1>1, <1>2, <1>4, <2>2, <2>3, AccountStays
<1>5. ASSUME NEW at \in {"insert", "useOthers"}, Goto(r, at), reset' \in [Link -> Token], verify' \in [Link -> Token]
      PROVE  StaffInv'
  <2>1. PICK j : j = [job[r] EXCEPT !.at = at] OBVIOUS
  <2>2. job' = [job EXCEPT ![r] = j] BY <1>1, <1>5, <2>1 DEF Goto
  <2>3. j \in Job /\ j.at = at /\ j.row = job[r].row BY <1>1, <1>5, <2>1 DEF Job
  <2>4. CarriesOK(j)' BY <1>1, <1>2, <2>3 DEF CarriesOK
  <2> QED BY <1>1, <1>2, <1>5, <2>2, <2>3, <2>4, AccountStays
<1>6. \A l \in Link : [reset[l] EXCEPT !.used = TRUE] \in Token BY <1>1 DEF Token
<1>7. CASE InvalidateLinks(r)
  BY <1>1, <1>5, <1>6, <1>7 DEF InvalidateLinks
<1>8. CASE UseOtherResets(r)
  BY <1>1, <1>4, <1>6, <1>8 DEF UseOtherResets
<1>9. CASE UseReset(r)
  <2>1. reset' \in [Link -> Token] BY <1>1, <1>9 DEF UseReset, Token
  <2> QED BY <1>1, <1>5, <1>9, <2>1 DEF UseReset
<1>10. CASE UseVerify(r)
  <2>1. verify' \in [Link -> Token] BY <1>1, <1>10 DEF UseVerify, Token
  <2> QED BY <1>1, <1>4, <1>10, <2>1 DEF UseVerify
<1>11. job[r].row.email \in Email \cup {"none"} BY <1>1 DEF Job, User
<1>12. CASE createAndSendPasswordResetToken(r)
  <2>1. PICK f : f = First(reset) OBVIOUS
  <2>2. reset' = [reset EXCEPT ![f].email = job[r].row.email]
    BY <1>12, <2>1 DEF createAndSendPasswordResetToken
  <2>3. reset' \in [Link -> Token] BY <1>1, <1>11, <2>2 DEF Token
  <2> QED BY <1>1, <1>4, <1>12, <2>3 DEF createAndSendPasswordResetToken
<1>13. CASE createAndSendEmailVerificationToken(r)
  <2>1. PICK f : f = First(verify) OBVIOUS
  <2>2. verify' = [verify EXCEPT ![f].email = job[r].row.email]
    BY <1>13, <2>1 DEF createAndSendEmailVerificationToken
  <2>3. verify' \in [Link -> Token] BY <1>1, <1>11, <2>2 DEF Token
  <2> QED BY <1>1, <1>4, <1>13, <2>3 DEF createAndSendEmailVerificationToken
<1> QED BY <1>7, <1>8, <1>9, <1>10, <1>12, <1>13

(* Steps without a request: a token is renewed, a link expires.            *)
LEMMA AloneKeeps ==
  ASSUME StaffAssumption, StaffInv,
         (\E s \in session : refreshToken(s)) \/ (\E l \in Link : LinkExpires(l)) \/ UNCHANGED vars
  PROVE  StaffInv'
<1>1. UNCHANGED <<user, job, changes, resets, proved>> BY DEF refreshToken, LinkExpires, vars
<1>2. session' \subseteq Session
  <2>1. \A s \in session : [ver |-> user.tokenVersion, changes |-> s.changes] \in Session
    BY DEF StaffInv, TypeOK, User, Session
  <2> QED BY <2>1 DEF refreshToken, LinkExpires, vars, StaffInv, TypeOK
<1>3. reset' \in [Link -> Token] /\ verify' \in [Link -> Token]
  <2>1. \A l \in Link : /\ [reset EXCEPT ![l].expired = TRUE] \in [Link -> Token]
                        /\ [verify EXCEPT ![l].expired = TRUE] \in [Link -> Token]
    BY DEF StaffInv, TypeOK, Token
  <2> QED BY <2>1 DEF refreshToken, LinkExpires, links, vars, StaffInv, TypeOK
<1>4. TypeOK' BY <1>1, <1>2, <1>3 DEF StaffInv, TypeOK
<1>5. VerifiedEmailWasProved' /\ \A r \in Req : CarriesOK(job[r])'
  BY <1>1 DEF StaffInv, VerifiedEmailWasProved, CarriesOK
<1> QED BY <1>1, <1>4, <1>5 DEF StaffInv

(* Every step, in whatever order handlers take them.                       *)
LEMMA StaffNext == ASSUME StaffAssumption, StaffInv, [Next]_vars PROVE StaffInv'
<1>1. ASSUME NEW r \in Req,
             \/ login(r) \/ changePassword(r) \/ requestPasswordReset(r) \/ resendEmailVerification(r)
             \/ \E l \in Link : resetPassword(r, l)
      PROVE  StaffInv'
  BY <1>1, LoadKeeps
<1>2. ASSUME NEW r \in Req,
             \/ adminVerifyVendorEmail(r) \/ \E l \in Link : verifyEmail(r, l)
             \/ \E email \in Email, b \in BOOLEAN : updateVendorAsAdmin(r, email, b)
      PROVE  StaffInv'
  BY <1>2, EditKeeps
<1>3. ASSUME NEW r \in Req, LoginSave(r) \/ VerifySave(r) \/ AdminSave(r) PROVE StaffInv'
  BY <1>3, SaveKeeps
<1>4. ASSUME NEW r \in Req, PasswordSave(r) PROVE StaffInv' BY <1>4, PasswordKeeps
<1>5. ASSUME NEW r \in Req,
             \/ InvalidateLinks(r) \/ createAndSendPasswordResetToken(r) \/ UseReset(r) \/ UseOtherResets(r)
             \/ createAndSendEmailVerificationToken(r) \/ UseVerify(r)
      PROVE  StaffInv'
  BY <1>5, LinkStepKeeps
<1>6. ASSUME (\E s \in session : refreshToken(s)) \/ (\E l \in Link : LinkExpires(l)) \/ UNCHANGED vars
      PROVE  StaffInv'
  BY <1>6, AloneKeeps
<1> QED BY <1>1, <1>2, <1>3, <1>4, <1>5, <1>6 DEF Next

(* However many requests overlap, of vendor and admin: an account counts   *)
(* as verified only with an address that a link or an admin confirmed.     *)
THEOREM VerifiedIsProved == ASSUME StaffAssumption PROVE Spec => []VerifiedEmailWasProved
<1>1. Init => StaffInv BY StaffInit
<1>2. StaffInv /\ [Next]_vars => StaffInv' BY StaffNext
<1>3. StaffInv => VerifiedEmailWasProved BY DEF StaffInv
<1> QED BY <1>1, <1>2, <1>3, PTL DEF Spec

-----------------------------------------------------------------------------
(* One request at a time                                                   *)

(* A set of numbers that is not empty has a least one.                     *)
LEMMA LeastNumber ==
  ASSUME NEW T \in SUBSET Nat, T # {}
  PROVE  \E x \in T : \A y \in T : x <= y
<1>1. PICK R : R = {ss \in Nat \X Nat : ss[1] < ss[2]} OBVIOUS
<1>2. IsWellFoundedOn({ss \in Nat \X Nat : ss[1] < ss[2]}, Nat) BY NatLessThanWellFounded DEF OpToRel
<1>3. IsWellFoundedOn(R, Nat) BY <1>1, <1>2
<1>4. PICK x \in T : \A y \in T : ~(<<y, x>> \in R) BY <1>3, WFMin
<1>5. \A y \in T : ~(y < x) BY <1>1, <1>4
<1> QED BY <1>5

(* The next link is the first that was not sent yet.                       *)
LEMMA FirstIsFree ==
  ASSUME StaffAssumption, NEW table, ~Full(table)
  PROVE  /\ First(table) \in Link /\ table[First(table)] = NoLink
         /\ \A k \in Link : k < First(table) => table[k] # NoLink
<1>1. PICK T : T = {l \in Link : table[l] = NoLink} OBVIOUS
<1>2. T \in SUBSET Nat /\ T # {} BY <1>1 DEF Full, Link, StaffAssumption
<1>3. PICK x \in T : \A y \in T : x <= y BY <1>2, LeastNumber
<1>4. x \in Link /\ table[x] = NoLink /\ \A k \in Link : table[k] = NoLink => x <= k BY <1>1, <1>3
<1>5. /\ First(table) \in Link /\ table[First(table)] = NoLink
      /\ \A k \in Link : table[k] = NoLink => First(table) <= k
  BY <1>4 DEF First
<1> QED BY <1>5 DEF Link, StaffAssumption

(* Initially nothing was sent or set.                                      *)
LEMMA OneInit == ASSUME StaffAssumption PROVE Init => OneAtATimeInv
  BY DEF Init, Idle, FirstUser, NoLink, Saves, OneAtATimeInv, RowsAreCurrent, SessionsAreDated, LinksInOrder,
       OnlyNewestResetLinkWorks, OthersInvalidated, ResetLinkWorksOnce, SpentIsUsed

(* A step that leaves the addresses of links alone and takes no use back.  *)
LEMMA LinksOnlyUsed ==
  ASSUME LinksInOrder, OnlyNewestResetLinkWorks,
         \A l \in Link : /\ reset'[l].email = reset[l].email /\ (reset[l].used => reset'[l].used)
                         /\ reset'[l] # NoLink <=> reset[l] # NoLink
  PROVE  LinksInOrder' /\ OnlyNewestResetLinkWorks'
<1>1. LinksInOrder' BY DEF LinksInOrder
<1>2. OnlyNewestResetLinkWorks' BY DEF OnlyNewestResetLinkWorks
<1> QED BY <1>1, <1>2

(* A handler starts, with the row as it is.                                *)
LEMMA OneStarts ==
  ASSUME StaffAssumption, OneRequest, StaffInv, OneAtATimeInv, NEW r \in Req, NEW j,
         job[r].at = "idle", job'[r] = j, UNCHANGED <<user, session, reset, verify, changes, resets>>,
         j.at \in Saves => j.row.password = changes /\ j.row.tokenVersion = changes,
         j.at = "loginSave" => j.changes = changes,
         j.at = "insert" => j.op # "requestReset", j.at # "useReset",
         j.at = "passwordSave" /\ j.op = "resetPassword" => resets[j.link] = 0 /\ reset[j.link] # NoLink
  PROVE  OneAtATimeInv'
<1>1. \A q \in Req : q = r BY DEF OneRequest
<1>2. RowsAreCurrent' BY <1>1 DEF OneAtATimeInv, RowsAreCurrent
<1>3. SessionsAreDated' /\ LinksInOrder' /\ OnlyNewestResetLinkWorks' /\ ResetLinkWorksOnce'
  BY DEF OneAtATimeInv, SessionsAreDated, LinksInOrder, OnlyNewestResetLinkWorks, ResetLinkWorksOnce
<1>4. OthersInvalidated' BY <1>1 DEF OthersInvalidated
<1>5. SpentIsUsed'
  <2>1. \A l \in Link : resets[l] = 0 \/ reset[l].used BY <1>1 DEF OneAtATimeInv, SpentIsUsed
  <2> QED BY <1>1, <2>1 DEF SpentIsUsed
<1> QED BY <1>2, <1>3, <1>4, <1>5 DEF OneAtATimeInv

(* What a handler that starts carries.                                     *)
LEMMA StartIs ==
  ASSUME StaffInv, NEW r \in Req, NEW op, NEW at, NEW row, NEW l, NEW c, NEW w,
         w = [at |-> "idle", op |-> "none", row |-> row, link |-> l, changes |-> c], Start(r, op, at, w)
  PROVE  job[r].at = "idle" /\ job'[r] = [at |-> at, op |-> op, row |-> row, link |-> l, changes |-> c]
<1>1. PICK j : j = [w EXCEPT !.at = at, !.op = op] OBVIOUS
<1>2. job' = [job EXCEPT ![r] = j] /\ job[r].at = "idle" BY <1>1 DEF Start
<1>3. job'[r] = j BY <1>2 DEF StaffInv, TypeOK
<1>4. j = [at |-> at, op |-> op, row |-> row, link |-> l, changes |-> c] BY <1>1
<1> QED BY <1>2, <1>3, <1>4

(* The handlers that start: what they load is current, and a reset link    *)
(* that is not used has set no password.                                   *)
LEMMA OneStartKeeps ==
  ASSUME StaffAssumption, OneRequest, StaffInv, OneAtATimeInv, NEW r \in Req,
         \/ login(r) \/ changePassword(r) \/ requestPasswordReset(r) \/ resendEmailVerification(r)
         \/ adminVerifyVendorEmail(r)
         \/ \E l \in Link : resetPassword(r, l) \/ verifyEmail(r, l)
         \/ \E email \in Email, b \in BOOLEAN : updateVendorAsAdmin(r, email, b)
  PROVE  OneAtATimeInv'
<1>1. UNCHANGED <<user, session, reset, verify, changes, resets>>
  BY DEF login, changePassword, requestPasswordReset, resendEmailVerification, adminVerifyVendorEmail,
       resetPassword, verifyEmail, updateVendorAsAdmin, links
<1>2. user \in User /\ user.password = changes /\ user.tokenVersion = changes
  BY DEF StaffInv, TypeOK, OneAtATimeInv, RowsAreCurrent
<1>3. PICK row : row = [user EXCEPT !.emailVerified = TRUE] OBVIOUS
<1>4. row.password = changes /\ row.tokenVersion = changes BY <1>2, <1>3 DEF User
<1>5. CASE login(r)
  <2>1. PICK w : w = [Idle EXCEPT !.row = user, !.changes = changes] OBVIOUS
  <2>2. w = [at |-> "idle", op |-> "none", row |-> user, link |-> None, changes |-> changes] BY <2>1 DEF Idle
  <2>3. Start(r, "login", "loginSave", w) BY <1>5, <2>1 DEF login
  <2>4. PICK j : j = [at |-> "loginSave", op |-> "login", row |-> user, link |-> None, changes |-> changes] OBVIOUS
  <2>5. job[r].at = "idle" /\ job'[r] = j BY <2>2, <2>3, <2>4, StartIs
  <2> QED BY <1>1, <1>2, <2>4, <2>5, OneStarts
<1>6. CASE changePassword(r)
  <2>1. PICK w : w = [Idle EXCEPT !.row = user] OBVIOUS
  <2>2. w = [at |-> "idle", op |-> "none", row |-> user, link |-> None, changes |-> 0] BY <2>1 DEF Idle
  <2>3. Start(r, "changePassword", "passwordSave", w) BY <1>6, <2>1 DEF changePassword
  <2>4. PICK j : j = [at |-> "passwordSave", op |-> "changePassword", row |-> user, link |-> None, changes |-> 0] OBVIOUS
  <2>5. job[r].at = "idle" /\ job'[r] = j BY <2>2, <2>3, <2>4, StartIs
  <2> QED BY <1>1, <1>2, <2>4, <2>5, OneStarts
<1>7. CASE requestPasswordReset(r)
  <2>1. PICK w : w = [Idle EXCEPT !.row = user] OBVIOUS
  <2>2. w = [at |-> "idle", op |-> "none", row |-> user, link |-> None, changes |-> 0] BY <2>1 DEF Idle
  <2>3. Start(r, "requestReset", "invalidate", w) BY <1>7, <2>1 DEF requestPasswordReset
  <2>4. PICK j : j = [at |-> "invalidate", op |-> "requestReset", row |-> user, link |-> None, changes |-> 0] OBVIOUS
  <2>5. job[r].at = "idle" /\ job'[r] = j BY <2>2, <2>3, <2>4, StartIs
  <2> QED BY <1>1, <1>2, <2>4, <2>5, OneStarts DEF Saves
<1>8. CASE resendEmailVerification(r)
  <2>1. PICK w : w = [Idle EXCEPT !.row = user] OBVIOUS
  <2>2. w = [at |-> "idle", op |-> "none", row |-> user, link |-> None, changes |-> 0] BY <2>1 DEF Idle
  <2>3. Start(r, "sendVerification", "insert", w) BY <1>8, <2>1 DEF resendEmailVerification
  <2>4. PICK j : j = [at |-> "insert", op |-> "sendVerification", row |-> user, link |-> None, changes |-> 0] OBVIOUS
  <2>5. job[r].at = "idle" /\ job'[r] = j BY <2>2, <2>3, <2>4, StartIs
  <2> QED BY <1>1, <1>2, <2>4, <2>5, OneStarts DEF Saves
<1>9. CASE adminVerifyVendorEmail(r)
  <2>1. PICK w : w = [Idle EXCEPT !.row = row] OBVIOUS
  <2>2. w = [at |-> "idle", op |-> "none", row |-> row, link |-> None, changes |-> 0] BY <2>1 DEF Idle
  <2>3. Start(r, "adminVerify", "verifySave", w) BY <1>3, <1>9, <2>1 DEF adminVerifyVendorEmail
  <2>4. PICK j : j = [at |-> "verifySave", op |-> "adminVerify", row |-> row, link |-> None, changes |-> 0] OBVIOUS
  <2>5. job[r].at = "idle" /\ job'[r] = j BY <2>2, <2>3, <2>4, StartIs
  <2> QED BY <1>1, <1>4, <2>4, <2>5, OneStarts
<1>10. ASSUME NEW l \in Link, resetPassword(r, l) PROVE OneAtATimeInv'
  <2>1. PICK w : w = [Idle EXCEPT !.row = user, !.link = l] OBVIOUS
  <2>2. w = [at |-> "idle", op |-> "none", row |-> user, link |-> l, changes |-> 0] BY <2>1 DEF Idle
  <2>3. Start(r, "resetPassword", "passwordSave", w) BY <1>10, <2>1 DEF resetPassword
  <2>4. PICK j : j = [at |-> "passwordSave", op |-> "resetPassword", row |-> user, link |-> l, changes |-> 0] OBVIOUS
  <2>5. job[r].at = "idle" /\ job'[r] = j BY <2>2, <2>3, <2>4, StartIs
  <2>6. reset[l] # NoLink /\ ~reset[l].used BY <1>10 DEF resetPassword
  <2>7. resets[l] = 0 BY <2>5, <2>6 DEF OneAtATimeInv, SpentIsUsed, OneRequest
  <2> QED BY <1>1, <1>2, <2>4, <2>5, <2>6, <2>7, OneStarts
<1>11. ASSUME NEW l \in Link, verifyEmail(r, l) PROVE OneAtATimeInv'
  <2>1. PICK w : w = [Idle EXCEPT !.row = row, !.link = l] OBVIOUS
  <2>2. w = [at |-> "idle", op |-> "none", row |-> row, link |-> l, changes |-> 0] BY <2>1 DEF Idle
  <2>6. PICK at : at = IF user.emailVerified THEN "useVerify" ELSE "verifySave" OBVIOUS
  <2>3. Start(r, "verifyEmail", at, w) BY <1>3, <1>11, <2>1, <2>6 DEF verifyEmail
  <2>4. PICK j : j = [at |-> at, op |-> "verifyEmail", row |-> row, link |-> l, changes |-> 0] OBVIOUS
  <2>5. job[r].at = "idle" /\ job'[r] = j BY <2>2, <2>3, <2>4, StartIs
  <2> QED BY <1>1, <1>4, <2>4, <2>5, <2>6, OneStarts
<1>12. ASSUME NEW email \in Email, NEW b \in BOOLEAN, updateVendorAsAdmin(r, email, b) PROVE OneAtATimeInv'
  <2>1. PICK v : v = (user.emailVerified /\ email = user.email) OBVIOUS
  <2>2. PICK new : new = [user EXCEPT !.email = email, !.isActive = b, !.emailVerified = v] OBVIOUS
  <2>3. new.password = changes /\ new.tokenVersion = changes BY <1>2, <2>2 DEF User
  <2>4. PICK w : w = [Idle EXCEPT !.row = new] OBVIOUS
  <2>5. w = [at |-> "idle", op |-> "none", row |-> new, link |-> None, changes |-> 0] BY <2>4 DEF Idle
  <2>6. Start(r, "updateVendor", "adminSave", w) BY <1>12, <2>1, <2>2, <2>4 DEF updateVendorAsAdmin
  <2>7. PICK j : j = [at |-> "adminSave", op |-> "updateVendor", row |-> new, link |-> None, changes |-> 0] OBVIOUS
  <2>8. job[r].at = "idle" /\ job'[r] = j BY <2>5, <2>6, <2>7, StartIs
  <2> QED BY <1>1, <2>3, <2>7, <2>8, OneStarts
<1> QED BY <1>5, <1>6, <1>7, <1>8, <1>9, <1>10, <1>11, <1>12

(* A row that is saved is current; a login's token has its version.        *)
LEMMA OneSaveKeeps ==
  ASSUME StaffAssumption, OneRequest, StaffInv, OneAtATimeInv, NEW r \in Req,
         LoginSave(r) \/ VerifySave(r) \/ AdminSave(r)
  PROVE  OneAtATimeInv'
<1>1. \A q \in Req : q = r BY DEF OneRequest
<1>2. /\ user' = job[r].row /\ UNCHANGED <<reset, verify, changes, resets>>
      /\ job[r].at \in Saves \ {"passwordSave"}
  BY DEF LoginSave, VerifySave, AdminSave, links, At, Saves
<1>3. job[r].row.password = changes /\ job[r].row.tokenVersion = changes
  BY <1>2 DEF OneAtATimeInv, RowsAreCurrent
<1>4. job'[r].at \in {"idle", "useVerify"}
  <2>1. job \in [Req -> Job] /\ Idle.at = "idle" BY IdleCarries DEF StaffInv, TypeOK
  <2>2. CASE Return(r) BY <2>1, <2>2 DEF Return
  <2>3. CASE Goto(r, "useVerify") BY <2>1, <2>3 DEF Goto, Job
  <2> QED BY <2>2, <2>3 DEF LoginSave, VerifySave, AdminSave
<1>5. RowsAreCurrent' BY <1>1, <1>2, <1>3, <1>4 DEF RowsAreCurrent, Saves
<1>6. SessionsAreDated'
  <2>1. CASE LoginSave(r)
    <3>1. session' = session \cup {[ver |-> job[r].row.tokenVersion, changes |-> job[r].changes]}
      BY <2>1 DEF LoginSave
    <3>2. job[r].changes = changes BY <2>1 DEF LoginSave, At, OneAtATimeInv, RowsAreCurrent
    <3> QED BY <1>3, <3>1, <3>2 DEF OneAtATimeInv, SessionsAreDated
  <2>2. CASE UNCHANGED session BY <2>2 DEF OneAtATimeInv, SessionsAreDated
  <2> QED BY <2>1, <2>2 DEF VerifySave, AdminSave
<1>7. LinksInOrder' /\ OnlyNewestResetLinkWorks' /\ ResetLinkWorksOnce'
  BY <1>2 DEF OneAtATimeInv, LinksInOrder, OnlyNewestResetLinkWorks, ResetLinkWorksOnce
<1>8. OthersInvalidated' BY <1>1, <1>4 DEF OthersInvalidated
<1>9. SpentIsUsed'
  <2>1. \A l \in Link : resets[l] = 0 \/ reset[l].used BY <1>1, <1>2 DEF OneAtATimeInv, SpentIsUsed, Saves
  <2> QED BY <1>1, <1>2, <1>4, <2>1 DEF SpentIsUsed
<1> QED BY <1>5, <1>6, <1>7, <1>8, <1>9 DEF OneAtATimeInv

(* A new password: the version moves with it, and a link that sets one is  *)
(* about to be used.                                                       *)
LEMMA OnePasswordKeeps ==
  ASSUME StaffAssumption, OneRequest, StaffInv, OneAtATimeInv, NEW r \in Req, PasswordSave(r)
  PROVE  OneAtATimeInv'
<1>1. \A q \in Req : q = r BY DEF OneRequest
<1>2. /\ job \in [Req -> Job] /\ job[r] \in Job /\ Idle.at = "idle" /\ changes \in Nat /\ CarriesOK(job[r])
      /\ resets \in [Link -> Nat]
  BY IdleCarries DEF StaffInv, TypeOK, StaffAssumption
<1>3. /\ job[r].at = "passwordSave" /\ changes' = changes + 1
      /\ user' = [job[r].row EXCEPT !.password = changes + 1, !.tokenVersion = @ + 1]
      /\ UNCHANGED <<session, reset, verify>>
  BY DEF PasswordSave, At, WithNewPassword, links
<1>4. job[r].row.tokenVersion = changes BY <1>3 DEF OneAtATimeInv, RowsAreCurrent, Saves
<1>5. user'.password = changes' /\ user'.tokenVersion = changes' BY <1>2, <1>3, <1>4 DEF Job, User
<1>6. \A l \in Link : resets[l] = 0 \/ reset[l].used BY <1>1, <1>3 DEF OneAtATimeInv, SpentIsUsed
<1>7. SessionsAreDated' /\ LinksInOrder' /\ OnlyNewestResetLinkWorks'
  BY <1>3 DEF OneAtATimeInv, SessionsAreDated, LinksInOrder, OnlyNewestResetLinkWorks
<1>8. CASE job[r].op = "resetPassword"
  <2>1. PICK l : l = job[r].link OBVIOUS
  <2>2. l \in Link /\ resets[l] = 0 /\ reset[l] # NoLink
    BY <1>2, <1>3, <1>8, <2>1 DEF OneAtATimeInv, SpentIsUsed, CarriesOK
  <2>3. resets' = [resets EXCEPT ![l] = @ + 1] /\ job' = [job EXCEPT ![r].at = "useReset"]
    BY <1>8, <2>1 DEF PasswordSave, Goto
  <2>4. job'[r].at = "useReset" /\ job'[r].link = l BY <1>2, <2>1, <2>3 DEF Job
  <2>5. \A k \in Link : resets'[k] = IF k = l THEN 1 ELSE resets[k] BY <1>2, <2>2, <2>3
  <2>6. RowsAreCurrent' BY <1>1, <1>5, <2>4 DEF RowsAreCurrent, Saves
  <2>7. OthersInvalidated' BY <1>1, <2>4 DEF OthersInvalidated
  <2>8. ResetLinkWorksOnce' BY <2>5 DEF OneAtATimeInv, ResetLinkWorksOnce
  <2>9. SpentIsUsed' BY <1>1, <1>3, <1>6, <2>2, <2>4, <2>5 DEF SpentIsUsed
  <2> QED BY <1>7, <2>6, <2>7, <2>8, <2>9 DEF OneAtATimeInv
<1>9. CASE job[r].op # "resetPassword"
  <2>1. job'[r].at = "idle" /\ UNCHANGED resets BY <1>2, <1>9 DEF PasswordSave, Return
  <2>2. RowsAreCurrent' BY <1>1, <1>5, <2>1 DEF RowsAreCurrent, Saves
  <2>3. OthersInvalidated' /\ ResetLinkWorksOnce'
    BY <1>1, <2>1 DEF OthersInvalidated, OneAtATimeInv, ResetLinkWorksOnce
  <2>4. SpentIsUsed' BY <1>1, <1>3, <1>6, <2>1 DEF SpentIsUsed
  <2> QED BY <1>7, <2>2, <2>3, <2>4 DEF OneAtATimeInv
<1> QED BY <1>8, <1>9

(* Steps on links that leave the account, its tokens and passwords alone   *)
(* and end in a state that saves nothing.                                  *)
LEMMA LinksMove ==
  ASSUME OneRequest, OneAtATimeInv, NEW r \in Req, UNCHANGED <<user, session, changes, resets>>,
         job'[r].at \in {"idle", "insert", "useOthers"}, LinksInOrder', OnlyNewestResetLinkWorks',
         job'[r].at = "insert" /\ job'[r].op = "requestReset" =>
            \A l \in Link : reset'[l].email = job'[r].row.email => reset'[l].used,
         \A l \in Link : resets[l] = 0 \/ reset'[l].used
  PROVE  OneAtATimeInv'
<1>1. \A q \in Req : q = r BY DEF OneRequest
<1>2. RowsAreCurrent' BY <1>1 DEF OneAtATimeInv, RowsAreCurrent, Saves
<1>3. SessionsAreDated' /\ ResetLinkWorksOnce' BY DEF OneAtATimeInv, SessionsAreDated, ResetLinkWorksOnce
<1>4. OthersInvalidated' BY <1>1 DEF OthersInvalidated
<1>5. SpentIsUsed' BY <1>1 DEF SpentIsUsed
<1> QED BY <1>2, <1>3, <1>4, <1>5 DEF OneAtATimeInv

(* Every step on links, one request at a time.                             *)
LEMMA OneLinkStepKeeps ==
  ASSUME StaffAssumption, OneRequest, StaffInv, OneAtATimeInv, NEW r \in Req,
         \/ InvalidateLinks(r) \/ createAndSendPasswordResetToken(r) \/ UseReset(r) \/ UseOtherResets(r)
         \/ createAndSendEmailVerificationToken(r) \/ UseVerify(r)
  PROVE  OneAtATimeInv'
<1>1. /\ job \in [Req -> Job] /\ job[r] \in Job /\ Idle.at = "idle" /\ CarriesOK(job[r])
      /\ reset \in [Link -> Token] /\ LinksInOrder /\ OnlyNewestResetLinkWorks
  BY IdleCarries DEF StaffInv, TypeOK, OneAtATimeInv
<1>2. UNCHANGED <<user, session, changes, resets>>
  BY DEF InvalidateLinks, createAndSendPasswordResetToken, UseReset, UseOtherResets,
       createAndSendEmailVerificationToken, UseVerify
<1>3. \A l \in Link : resets[l] = 0 \/ reset[l].used \/ (job[r].at = "useReset" /\ job[r].link = l)
  BY DEF OneAtATimeInv, SpentIsUsed, OneRequest
<1>4. job[r].row.email \in Email /\ job[r].row.email # NoLink.email
  BY <1>1 DEF Job, User, NoLink, StaffAssumption
<1>5. ASSUME Return(r) PROVE job'[r].at = "idle" BY <1>1, <1>5 DEF Return
<1>6. ASSUME NEW S, S = [l \in Link |-> IF reset[l].email = job[r].row.email
                                        THEN [reset[l] EXCEPT !.used = TRUE] ELSE reset[l]], reset' = S
      PROVE  /\ \A l \in Link : /\ reset'[l].email = reset[l].email /\ (reset[l].used => reset'[l].used)
                                /\ reset'[l] # NoLink <=> reset[l] # NoLink
             /\ \A l \in Link : reset'[l].email = job[r].row.email => reset'[l].used
  <2> SUFFICES ASSUME NEW l \in Link
               PROVE  /\ reset'[l].email = reset[l].email /\ (reset[l].used => reset'[l].used)
                      /\ reset'[l] # NoLink <=> reset[l] # NoLink
                      /\ reset'[l].email = job[r].row.email => reset'[l].used
    OBVIOUS
  <2>1. CASE reset[l].email = job[r].row.email
    <3>1. reset'[l] = [reset[l] EXCEPT !.used = TRUE] BY <1>6, <2>1
    <3>2. reset'[l].email = reset[l].email /\ reset'[l].used BY <1>1, <3>1 DEF Token
    <3> QED BY <1>4, <2>1, <3>2
  <2>2. CASE reset[l].email # job[r].row.email
    <3>1. reset'[l] = reset[l] BY <1>6, <2>2
    <3> QED BY <2>2, <3>1
  <2> QED BY <2>1, <2>2
<1>7. CASE InvalidateLinks(r)
  <2>1. job[r].at = "invalidate" /\ job' = [job EXCEPT ![r].at = "insert"] BY <1>7 DEF InvalidateLinks, At, Goto
  <2>2. job'[r].at = "insert" /\ job'[r].row = job[r].row BY <1>1, <2>1 DEF Job
  <2>3. /\ \A l \in Link : /\ reset'[l].email = reset[l].email /\ (reset[l].used => reset'[l].used)
                           /\ reset'[l] # NoLink <=> reset[l] # NoLink
        /\ \A l \in Link : reset'[l].email = job[r].row.email => reset'[l].used
    BY <1>6, <1>7 DEF InvalidateLinks
  <2>4. LinksInOrder' /\ OnlyNewestResetLinkWorks' BY <1>1, <2>3, LinksOnlyUsed
  <2> QED BY <1>2, <1>3, <2>1, <2>2, <2>3, <2>4, LinksMove
<1>8. CASE UseOtherResets(r)
  <2>1. job[r].at = "useOthers" /\ job'[r].at = "idle" BY <1>5, <1>8 DEF UseOtherResets, At
  <2>2. /\ \A l \in Link : /\ reset'[l].email = reset[l].email /\ (reset[l].used => reset'[l].used)
                           /\ reset'[l] # NoLink <=> reset[l] # NoLink
    BY <1>6, <1>8 DEF UseOtherResets
  <2>3. LinksInOrder' /\ OnlyNewestResetLinkWorks' BY <1>1, <2>2, LinksOnlyUsed
  <2> QED BY <1>2, <1>3, <2>1, <2>2, <2>3, LinksMove
<1>9. CASE UseReset(r)
  <2>1. PICK k : k = job[r].link OBVIOUS
  <2>2. /\ job[r].at = "useReset" /\ job' = [job EXCEPT ![r].at = "useOthers"]
        /\ reset' = [reset EXCEPT ![k].used = TRUE]
    BY <1>9, <2>1 DEF UseReset, At, Goto
  <2>3. k \in Link /\ reset[k] # NoLink BY <1>1, <2>1, <2>2 DEF CarriesOK, OneAtATimeInv, SpentIsUsed
  <2>4. reset[k].email \in Email BY <1>1, <2>3 DEF LinksInOrder
  <2>5. reset'[k].used /\ reset'[k].email = reset[k].email /\ \A l \in Link \ {k} : reset'[l] = reset[l]
    BY <1>1, <2>2, <2>3 DEF Token
  <2>6. reset'[k] # NoLink BY <2>4, <2>5 DEF NoLink, StaffAssumption
  <2>7. LinksInOrder' /\ OnlyNewestResetLinkWorks' BY <1>1, <2>3, <2>5, <2>6, LinksOnlyUsed
  <2>8. job'[r].at = "useOthers" BY <1>1, <2>2 DEF Job
  <2> QED BY <1>2, <1>3, <2>1, <2>5, <2>7, <2>8, LinksMove
<1>10. CASE createAndSendPasswordResetToken(r)
  <2>1. PICK f : f = First(reset) OBVIOUS
  <2>2. PICK e : e = job[r].row.email OBVIOUS
  <2>3. /\ job[r].at = "insert" /\ job[r].op = "requestReset" /\ ~Full(reset)
        /\ reset' = [reset EXCEPT ![f].email = e] /\ job'[r].at = "idle"
    BY <1>5, <1>10, <2>1, <2>2 DEF createAndSendPasswordResetToken, At
  <2>4. f \in Link /\ reset[f] = NoLink /\ \A k \in Link : k < f => reset[k] # NoLink
    BY <2>1, <2>3, FirstIsFree
  <2>5. /\ reset'[f].email = e /\ reset'[f].used = reset[f].used
        /\ \A l \in Link \ {f} : reset'[l] = reset[l]
    BY <1>1, <2>3, <2>4 DEF Token
  <2>6. e \in Email /\ e # "none" /\ reset'[f] # NoLink
    BY <1>4, <2>2, <2>5 DEF NoLink
  <2>7. \A l \in Link : reset[l].email = e => reset[l].used
    BY <2>2, <2>3 DEF OneAtATimeInv, OthersInvalidated
  <2>8. \A l \in Link : f < l => reset[l] = NoLink BY <1>1, <2>4 DEF LinksInOrder
  <2>9. LinksInOrder'
    BY <1>1, <2>4, <2>5, <2>6 DEF LinksInOrder
  <2>10. OnlyNewestResetLinkWorks'
    <3> SUFFICES ASSUME NEW k \in Link, NEW l \in Link, reset'[k] # NoLink, reset'[k].email = reset'[l].email, k < l
                 PROVE  reset'[k].used
      BY DEF OnlyNewestResetLinkWorks
    <3>1. CASE l = f
      <4>1. k # f BY <3>1 DEF Link, StaffAssumption
      <4> QED BY <2>5, <2>7, <3>1, <4>1
    <3>2. CASE k = f
      <4>1. l # f BY <3>2 DEF Link, StaffAssumption
      <4>2. reset'[l] = NoLink BY <2>5, <2>8, <3>2, <4>1
      <4> QED BY <2>5, <2>6, <3>2, <4>2 DEF NoLink
    <3>3. CASE k # f /\ l # f BY <1>1, <2>5, <3>3 DEF OnlyNewestResetLinkWorks
    <3> QED BY <3>1, <3>2, <3>3
  <2>11. \A l \in Link : resets[l] = 0 \/ reset'[l].used BY <1>3, <2>3, <2>5
  <2> QED BY <1>2, <2>3, <2>9, <2>10, <2>11, LinksMove
<1>11. CASE createAndSendEmailVerificationToken(r) \/ UseVerify(r)
  <2>1. UNCHANGED reset /\ job[r].at \in {"insert", "useVerify"} /\ job'[r].at = "idle"
    BY <1>5, <1>11 DEF createAndSendEmailVerificationToken, UseVerify, At
  <2>2. LinksInOrder' /\ OnlyNewestResetLinkWorks' BY <1>1, <2>1, LinksOnlyUsed
  <2> QED BY <1>2, <1>3, <2>1, <2>2, LinksMove
<1> QED BY <1>7, <1>8, <1>9, <1>10, <1>11

(* A token is renewed, with the version it has; a link expires.            *)
LEMMA OneAloneKeeps ==
  ASSUME StaffAssumption, StaffInv, OneAtATimeInv,
         (\E s \in session : refreshToken(s)) \/ (\E l \in Link : LinkExpires(l)) \/ UNCHANGED vars
  PROVE  OneAtATimeInv'
<1>1. UNCHANGED <<user, job, changes, resets>> BY DEF refreshToken, LinkExpires, vars
<1>2. RowsAreCurrent' /\ ResetLinkWorksOnce'
  BY <1>1 DEF OneAtATimeInv, RowsAreCurrent, ResetLinkWorksOnce
<1>3. SessionsAreDated'
  <2>1. ASSUME NEW s \in session, refreshToken(s) PROVE SessionsAreDated'
    BY <2>1 DEF refreshToken, validate, OneAtATimeInv, SessionsAreDated
  <2>2. CASE UNCHANGED session BY <2>2 DEF OneAtATimeInv, SessionsAreDated
  <2> QED BY <2>1, <2>2 DEF LinkExpires, vars
<1>4. \A l \in Link : /\ reset'[l].email = reset[l].email /\ reset'[l].used = reset[l].used
                      /\ reset'[l] # NoLink <=> reset[l] # NoLink
  <2>1. ASSUME NEW k \in Link, reset[k] # NoLink, reset' = [reset EXCEPT ![k].expired = TRUE], NEW l \in Link
        PROVE  /\ reset'[l].email = reset[l].email /\ reset'[l].used = reset[l].used
               /\ reset'[l] # NoLink <=> reset[l] # NoLink
    <3>1. CASE l # k BY <2>1, <3>1
    <3>2. CASE l = k
      <4>1. /\ reset'[k].email = reset[k].email /\ reset'[k].used = reset[k].used
        BY <2>1 DEF StaffInv, TypeOK, Token
      <4>2. reset[k].email \in Email BY <2>1 DEF OneAtATimeInv, LinksInOrder
      <4> QED BY <2>1, <3>2, <4>1, <4>2 DEF NoLink, StaffAssumption
    <3> QED BY <3>1, <3>2
  <2>2. CASE UNCHANGED reset BY <2>2
  <2> QED BY <2>1, <2>2 DEF refreshToken, LinkExpires, links, vars
<1>5. LinksInOrder' /\ OnlyNewestResetLinkWorks' BY <1>4, LinksOnlyUsed DEF OneAtATimeInv
<1>6. OthersInvalidated' BY <1>1, <1>4 DEF OneAtATimeInv, OthersInvalidated
<1>7. SpentIsUsed'
  <2>1. \A r \in Req : job[r].at \in {"useReset"} \/ (job[r].at = "passwordSave" /\ job[r].op = "resetPassword")
           => job[r].link \in Link
    BY DEF StaffInv, CarriesOK
  <2> QED BY <1>1, <1>4, <2>1 DEF OneAtATimeInv, SpentIsUsed
<1> QED BY <1>2, <1>3, <1>5, <1>6, <1>7 DEF OneAtATimeInv

(* Every step, one request at a time.                                      *)
LEMMA OneNext ==
  ASSUME StaffAssumption, OneRequest, StaffInv, OneAtATimeInv, [Next]_vars
  PROVE  OneAtATimeInv'
<1>1. ASSUME NEW r \in Req,
             \/ login(r) \/ changePassword(r) \/ requestPasswordReset(r) \/ resendEmailVerification(r)
             \/ adminVerifyVendorEmail(r)
             \/ \E l \in Link : resetPassword(r, l) \/ verifyEmail(r, l)
             \/ \E email \in Email, b \in BOOLEAN : updateVendorAsAdmin(r, email, b)
      PROVE  OneAtATimeInv'
  BY <1>1, OneStartKeeps
<1>2. ASSUME NEW r \in Req, LoginSave(r) \/ VerifySave(r) \/ AdminSave(r) PROVE OneAtATimeInv'
  BY <1>2, OneSaveKeeps
<1>3. ASSUME NEW r \in Req, PasswordSave(r) PROVE OneAtATimeInv' BY <1>3, OnePasswordKeeps
<1>4. ASSUME NEW r \in Req,
             \/ InvalidateLinks(r) \/ createAndSendPasswordResetToken(r) \/ UseReset(r) \/ UseOtherResets(r)
             \/ createAndSendEmailVerificationToken(r) \/ UseVerify(r)
      PROVE  OneAtATimeInv'
  BY <1>4, OneLinkStepKeeps
<1>5. ASSUME (\E s \in session : refreshToken(s)) \/ (\E l \in Link : LinkExpires(l)) \/ UNCHANGED vars
      PROVE  OneAtATimeInv'
  BY <1>5, OneAloneKeeps
<1> QED BY <1>1, <1>2, <1>3, <1>4, <1>5 DEF Next

(* What the invariant says of sessions and passwords.                      *)
LEMMA OneGives ==
  ASSUME OneAtATimeInv
  PROVE  /\ OldSessionsAreRevoked /\ LastPasswordCounts /\ OnlyNewestResetLinkWorks /\ ResetLinkWorksOnce
  BY DEF OneAtATimeInv, RowsAreCurrent, SessionsAreDated, OldSessionsAreRevoked, validate, LastPasswordCounts

(* One request at a time, for any number of passwords, sessions and links: *)
(* a session from before the last password is refused, the last password   *)
(* signs in, only the newest reset link of an address works, and it works  *)
(* once.                                                                   *)
THEOREM AccessIsCurrent ==
  ASSUME StaffAssumption, OneRequest
  PROVE  Spec => [](OldSessionsAreRevoked /\ LastPasswordCounts /\ OnlyNewestResetLinkWorks /\ ResetLinkWorksOnce)
<1>1. Init => StaffInv /\ OneAtATimeInv BY StaffInit, OneInit
<1>2. StaffInv /\ OneAtATimeInv /\ [Next]_vars => StaffInv' /\ OneAtATimeInv' BY StaffNext, OneNext
<1>3. OneAtATimeInv => OldSessionsAreRevoked /\ LastPasswordCounts /\ OnlyNewestResetLinkWorks /\ ResetLinkWorksOnce
  BY OneGives
<1> QED BY <1>1, <1>2, <1>3, PTL DEF Spec
=============================================================================
