---------------------------- MODULE StaffAccounts -----------------------------
(***************************************************************************)
(* A vendor's account: password sign-in, tokens and their revocation,      *)
(* password reset links, e-mail verification links, and what an admin does *)
(* to the account.  AuthService, JwtStrategy and the vendor handlers of    *)
(* StoresService.                                                          *)
(*                                                                         *)
(* A handler in flight is job[r].  Hashing a password takes a while, so a  *)
(* handler that loaded the user saves it, whole, some time later.          *)
(***************************************************************************)
EXTENDS Naturals, FiniteSets

CONSTANTS
    Req,          \* slots: handlers that may be in flight at once
    Handlers,     \* the handlers that run in this instance
    Email,        \* addresses the account may have
    FirstEmail,   \* the one it is registered with
    MaxChanges,   \* bound: passwords the account gets
    MaxLinks      \* bound: reset links, and verification links, sent

AuthResolver == {"login", "changePassword", "requestReset", "resetPassword", "sendVerification",
                 "verifyEmail"}
StoresResolver == {"requestReset", "sendVerification", "adminVerify", "updateVendor"}
AllHandlers == AuthResolver \cup StoresResolver

StaffAssumption ==
    /\ Handlers \subseteq AllHandlers
    /\ FirstEmail \in Email /\ "none" \notin Email
    /\ {MaxChanges, MaxLinks} \subseteq Nat

None == 0
Link == 1 .. MaxLinks
NoLink == [email |-> "none", used |-> FALSE, expired |-> FALSE]

VARIABLES
    user,       \* the users row; password is the number of the password
    session,    \* token pairs that were issued
    reset,      \* password_reset_tokens in creation order
    verify,     \* email_verification_tokens in creation order
    job,        \* handlers in flight
    changes,    \* history: passwords set so far
    resets,     \* history: how often a reset link set a password
    proved      \* history: addresses confirmed by a link or by an admin

vars == <<user, session, reset, verify, job, changes, resets, proved>>

User == [email : Email, password : 0 .. MaxChanges, tokenVersion : 0 .. MaxChanges,
         isActive : BOOLEAN, emailVerified : BOOLEAN]
(* The payload's ver, and the number of passwords set when it was issued.  *)
Session == [ver : 0 .. MaxChanges, changes : 0 .. MaxChanges]
Token == [email : Email \cup {"none"}, used : BOOLEAN, expired : BOOLEAN]

FirstUser == [email |-> FirstEmail, password |-> 0, tokenVersion |-> 0, isActive |-> TRUE,
              emailVerified |-> FALSE]
Idle == [at |-> "idle", op |-> "none", row |-> FirstUser, link |-> None, changes |-> 0]
Job == [at : {"idle", "loginSave", "passwordSave", "useReset", "useOthers", "invalidate", "insert",
              "verifySave", "useVerify", "adminSave"},
        op : AllHandlers \cup {"none"}, row : User, link : Link \cup {None},
        changes : 0 .. MaxChanges]

Init ==
    /\ user = FirstUser
    /\ session = {}
    /\ reset = [l \in Link |-> NoLink]
    /\ verify = [l \in Link |-> NoLink]
    /\ job = [r \in Req |-> Idle]
    /\ changes = 0
    /\ resets = [l \in Link |-> 0]
    /\ proved = {}

Start(r, op, at, what) ==
    /\ op \in Handlers
    /\ job[r].at = "idle"
    /\ job' = [job EXCEPT ![r] = [what EXCEPT !.at = at, !.op = op]]
At(r, at) == job[r].at = at
Goto(r, at) == job' = [job EXCEPT ![r].at = at]
Return(r) == job' = [job EXCEPT ![r] = Idle]
links == <<reset, verify>>

(* JwtStrategy: the version of the token is the account's.  Vendors are    *)
(* also stopped by VendorStatusGuard while the account is suspended.       *)
validate(s) == s.ver = user.tokenVersion
SignedIn == user.isActive /\ \E s \in session : validate(s)

First(table) == CHOOSE l \in Link : table[l] = NoLink /\ \A k \in Link : table[k] = NoLink => l <= k
Full(table) == \A l \in Link : table[l] # NoLink

-----------------------------------------------------------------------------
(* Sign-in and passwords                                                   *)

login(r) ==
    /\ user.isActive
    /\ Start(r, "login", "loginSave", [Idle EXCEPT !.row = user, !.changes = changes])
    /\ UNCHANGED <<user, session, links, changes, resets, proved>>

(* lastLoginAt is saved with the row that was loaded, then the tokens are  *)
(* signed with the version of that row.                                    *)
LoginSave(r) ==
    /\ At(r, "loginSave")
    /\ user' = job[r].row
    /\ session' = session \cup {[ver |-> job[r].row.tokenVersion, changes |-> job[r].changes]}
    /\ Return(r)
    /\ UNCHANGED <<links, changes, resets, proved>>

(* A new pair with the version the account has now; the caller's old pair  *)
(* passed the same test, so its age does not matter.                       *)
refreshToken(s) ==
    /\ user.isActive
    /\ validate(s)
    /\ session' = session \cup {[ver |-> user.tokenVersion, changes |-> s.changes]}
    /\ UNCHANGED <<user, links, job, changes, resets, proved>>

changePassword(r) ==
    /\ SignedIn
    /\ Start(r, "changePassword", "passwordSave", [Idle EXCEPT !.row = user])
    /\ UNCHANGED <<user, session, links, changes, resets, proved>>

(* Mutant: outstanding tokens are not revoked.                             *)
NewPasswordOnly(row) == [row EXCEPT !.password = changes + 1]

WithNewPassword(row) == [row EXCEPT !.password = changes + 1, !.tokenVersion = @ + 1]

PasswordSave(r) ==
    /\ At(r, "passwordSave")
    /\ changes < MaxChanges
    /\ user' = WithNewPassword(job[r].row)
    /\ changes' = changes + 1
    /\ IF job[r].op = "resetPassword"
       THEN /\ resets' = [resets EXCEPT ![job[r].link] = @ + 1]
            /\ Goto(r, "useReset")
       ELSE Return(r) /\ UNCHANGED resets
    /\ UNCHANGED <<session, links, proved>>

-----------------------------------------------------------------------------
(* Password reset                                                          *)

(* By the owner of the address, or by an admin for a vendor.               *)
requestPasswordReset(r) ==
    /\ user.isActive
    /\ Start(r, "requestReset", "invalidate", [Idle EXCEPT !.row = user])
    /\ UNCHANGED <<user, session, links, changes, resets, proved>>

InvalidateLinks(r) ==
    /\ At(r, "invalidate")
    /\ reset' = [l \in Link |-> IF reset[l].email = job[r].row.email
                                THEN [reset[l] EXCEPT !.used = TRUE] ELSE reset[l]]
    /\ Goto(r, "insert")
    /\ UNCHANGED <<user, session, verify, changes, resets, proved>>

createAndSendPasswordResetToken(r) ==
    /\ At(r, "insert")
    /\ job[r].op = "requestReset"
    /\ ~Full(reset)
    /\ reset' = [reset EXCEPT ![First(reset)].email = job[r].row.email]
    /\ Return(r)
    /\ UNCHANGED <<user, session, verify, changes, resets, proved>>

resetPassword(r, l) ==
    /\ reset[l] # NoLink /\ ~reset[l].used /\ ~reset[l].expired
    /\ user.email = reset[l].email /\ user.isActive
    /\ Start(r, "resetPassword", "passwordSave", [Idle EXCEPT !.row = user, !.link = l])
    /\ UNCHANGED <<user, session, links, changes, resets, proved>>

UseReset(r) ==
    /\ At(r, "useReset")
    /\ reset' = [reset EXCEPT ![job[r].link].used = TRUE]
    /\ Goto(r, "useOthers")
    /\ UNCHANGED <<user, session, verify, changes, resets, proved>>

UseOtherResets(r) ==
    /\ At(r, "useOthers")
    /\ reset' = [l \in Link |-> IF reset[l].email = job[r].row.email
                                THEN [reset[l] EXCEPT !.used = TRUE] ELSE reset[l]]
    /\ Return(r)
    /\ UNCHANGED <<user, session, verify, changes, resets, proved>>

-----------------------------------------------------------------------------
(* E-mail verification                                                     *)

(* On registration, by the vendor, or by an admin.                         *)
resendEmailVerification(r) ==
    /\ user.isActive /\ ~user.emailVerified
    /\ Start(r, "sendVerification", "insert", [Idle EXCEPT !.row = user])
    /\ UNCHANGED <<user, session, links, changes, resets, proved>>

createAndSendEmailVerificationToken(r) ==
    /\ At(r, "insert")
    /\ job[r].op = "sendVerification"
    /\ ~Full(verify)
    /\ verify' = [verify EXCEPT ![First(verify)].email = job[r].row.email]
    /\ Return(r)
    /\ UNCHANGED <<user, session, reset, changes, resets, proved>>

verifyEmail(r, l) ==
    /\ verify[l] # NoLink /\ ~verify[l].used /\ ~verify[l].expired
    /\ user.email = verify[l].email /\ user.isActive
    /\ proved' = proved \cup {verify[l].email}
    /\ Start(r, "verifyEmail", IF user.emailVerified THEN "useVerify" ELSE "verifySave",
             [Idle EXCEPT !.row = [user EXCEPT !.emailVerified = TRUE], !.link = l])
    /\ UNCHANGED <<user, session, links, changes, resets>>

VerifySave(r) ==
    /\ At(r, "verifySave")
    /\ user' = job[r].row
    /\ IF job[r].link # None THEN Goto(r, "useVerify") ELSE Return(r)
    /\ UNCHANGED <<session, links, changes, resets, proved>>

UseVerify(r) ==
    /\ At(r, "useVerify")
    /\ verify' = [verify EXCEPT ![job[r].link].used = TRUE]
    /\ Return(r)
    /\ UNCHANGED <<user, session, reset, changes, resets, proved>>

adminVerifyVendorEmail(r) ==
    /\ user.isActive /\ ~user.emailVerified
    /\ proved' = proved \cup {user.email}
    /\ Start(r, "adminVerify", "verifySave",
             [Idle EXCEPT !.row = [user EXCEPT !.emailVerified = TRUE]])
    /\ UNCHANGED <<user, session, links, changes, resets>>

-----------------------------------------------------------------------------
(* The admin edits the vendor: a new address has to be verified again.     *)

updateVendorAsAdmin(r, email, isActive) ==
    /\ Start(r, "updateVendor", "adminSave",
             [Idle EXCEPT !.row = [user EXCEPT !.email = email, !.isActive = isActive,
                                   !.emailVerified = user.emailVerified /\ email = user.email]])
    /\ UNCHANGED <<user, session, links, changes, resets, proved>>

AdminSave(r) ==
    /\ At(r, "adminSave")
    /\ user' = job[r].row
    /\ Return(r)
    /\ UNCHANGED <<session, links, changes, resets, proved>>

LinkExpires(l) ==
    /\ \/ /\ reset[l] # NoLink /\ ~reset[l].expired
          /\ reset' = [reset EXCEPT ![l].expired = TRUE]
          /\ UNCHANGED verify
       \/ /\ verify[l] # NoLink /\ ~verify[l].expired
          /\ verify' = [verify EXCEPT ![l].expired = TRUE]
          /\ UNCHANGED reset
    /\ UNCHANGED <<user, session, job, changes, resets, proved>>

Next ==
    \/ \E r \in Req :
         \/ login(r) \/ LoginSave(r) \/ changePassword(r) \/ PasswordSave(r)
         \/ requestPasswordReset(r) \/ InvalidateLinks(r) \/ createAndSendPasswordResetToken(r)
         \/ UseReset(r) \/ UseOtherResets(r)
         \/ resendEmailVerification(r) \/ createAndSendEmailVerificationToken(r)
         \/ VerifySave(r) \/ UseVerify(r) \/ adminVerifyVendorEmail(r) \/ AdminSave(r)
         \/ \E l \in Link : resetPassword(r, l) \/ verifyEmail(r, l)
         \/ \E email \in Email, b \in BOOLEAN : updateVendorAsAdmin(r, email, b)
    \/ \E s \in session : refreshToken(s)
    \/ \E l \in Link : LinkExpires(l)

Spec == Init /\ [][Next]_vars

-----------------------------------------------------------------------------
(* Properties                                                              *)

(* Every variable holds what its column or its handler may hold.           *)
TypeOK ==
    /\ user \in User
    /\ session \subseteq Session
    /\ reset \in [Link -> Token] /\ verify \in [Link -> Token]
    /\ job \in [Req -> Job]
    /\ changes \in 0 .. MaxChanges
    /\ resets \in [Link -> Nat]
    /\ proved \subseteq Email

(* tokenVersion is "bumped on password change/reset to revoke outstanding  *)
(* JWTs": a token that was issued before the last change of the password   *)
(* is not accepted, nor renewed into one that is.                          *)
OldSessionsAreRevoked == \A s \in session : validate(s) => s.changes = changes

(* The password that was set last is the one that signs in.                *)
LastPasswordCounts == user.password = changes

(* "Only the newest reset link should work": of one address, at most the   *)
(* last link is usable.                                                    *)
OnlyNewestResetLinkWorks ==
    \A k, l \in Link :
       reset[k] # NoLink /\ reset[k].email = reset[l].email /\ k < l => reset[k].used

(* A reset link sets a password once, even if other links are requested    *)
(* and the address of the account changes in the meantime.                 *)
ResetLinkWorksOnce == \A l \in Link : resets[l] <= 1

(* An account counts as verified only with an address that a link or an    *)
(* admin confirmed: under all interleavings of links with the admin's      *)
(* change of address.                                                      *)
VerifiedEmailWasProved == user.emailVerified => user.email \in proved
=============================================================================
