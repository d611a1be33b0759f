--------------------------- MODULE TeamInvitations ---------------------------
(***************************************************************************)
(* Who gets into a team, and how: invitations to a store's team, to the    *)
(* admin team and to the platform as a vendor.  StoreTeamService,          *)
(* AdminInvitationService with AdminTeamService, VendorInvitationService.  *)
(*                                                                         *)
(* The three services share their shape: an invitation is inserted, its    *)
(* link is opened, the account (and, in a store, the membership) is saved  *)
(* and then the invitation is marked.  Every save is a step of its own; a  *)
(* save writes back the row that was loaded, and inserts it again when it  *)
(* was deleted meanwhile.                                                  *)
(***************************************************************************)
EXTENDS Naturals, FiniteSets

CONSTANTS
    Req,        \* slots: handlers that may be in flight at once
    Handlers,   \* the handlers that run in this instance
    Kinds,      \* which of the three kinds of invitation are sent
    Email,      \* addresses
    Owner,      \* the store's owner
    Root,       \* the seeded admin
    MaxInv,     \* bound: invitations sent
    MaxCrash    \* bound: handlers that die half way

StoresResolver == {"invite", "acceptNew", "accept", "removeMember", "updateRole", "revoke", "decline"}
AdminTeamResolver == {"invite", "revoke", "acceptNew", "setActive"}
AllHandlers == StoresResolver \cup AdminTeamResolver
AllKinds == {"store", "admin", "vendor"}
MemberRole == {"manager", "staff"}

TeamAssumption ==
    /\ Handlers \subseteq AllHandlers
    /\ Kinds \subseteq AllKinds
    /\ {Owner, Root} \subseteq Email /\ Owner # Root
    /\ {MaxInv, MaxCrash} \subseteq Nat

Inv == 1 .. MaxInv
None == 0
InvitationStatus == {"pending", "accepted", "expired", "revoked", "removed", "none"}

VARIABLES
    user,      \* the account with an address: its role, and whether it is active
    member,    \* the store_members row of an address; by is the invitation that made it
    inv,       \* the three tables of invitations, in creation order
    job,       \* handlers in flight
    crashes

vars == <<user, member, inv, job, crashes>>

User == [role : {"none", "vendor", "admin"}, isActive : BOOLEAN]
Member == [role : MemberRole \cup {"owner", "none"}, by : Inv \cup {None}]
Invitation == [kind : AllKinds, email : Email, role : MemberRole, status : InvitationStatus,
               lapsed : BOOLEAN]

NoInvitation == [kind |-> "store", email |-> Owner, role |-> "staff", status |-> "none",
                 lapsed |-> FALSE]
NoMember == [role |-> "none", by |-> None]
Idle == [at |-> "idle", i |-> None, row |-> NoInvitation, e |-> Owner, m |-> NoMember]
Job == [at : {"idle", "insert", "saveUser", "accept", "saveMember", "saveInvitation", "removeInvitation",
              "saveRole", "removeMember"},
        i : Inv \cup {None}, row : Invitation, e : Email, m : Member]

Init ==
    /\ user = [e \in Email |-> [role |-> CASE e = Owner -> "vendor" [] e = Root -> "admin" [] OTHER -> "none",
                                isActive |-> TRUE]]
    /\ member = [e \in Email |-> IF e = Owner THEN [role |-> "owner", by |-> None] ELSE NoMember]
    /\ inv = [i \in Inv |-> NoInvitation]
    /\ job = [r \in Req |-> Idle]
    /\ crashes = 0

Start(r, op, what) ==
    /\ op \in Handlers
    /\ job[r].at = "idle"
    /\ job' = [job EXCEPT ![r] = what]
At(r, at) == job[r].at = at
Goto(r, what) == job' = [job EXCEPT ![r] = what]
Return(r) == Goto(r, Idle)

(* A handler about to save invitation i, as loaded, with a new status.     *)
SaveAs(i, status) == [Idle EXCEPT !.at = "saveInvitation", !.i = i, !.row = [inv[i] EXCEPT !.status = status]]

-----------------------------------------------------------------------------
(* Inviting                                                                *)

HasPending(k, e) == \E i \in Inv : inv[i].kind = k /\ inv[i].email = e /\ inv[i].status = "pending"

Free == {i \in Inv : inv[i].status = "none"}
Room == Cardinality({r \in Req : At(r, "insert")}) < Cardinality(Free)   \* bound

(* A store refuses a member of its own, admin and vendor invitations any   *)
(* address with an account.                                                *)
AddressIsNew(k, e) == IF k = "store" THEN member[e] = NoMember ELSE user[e].role = "none"

(* All refuse while a row is pending, even one whose time is over.         *)
invite(r, k, e, role) ==
    /\ k \in Kinds
    /\ Room
    /\ AddressIsNew(k, e)
    /\ ~HasPending(k, e)
    /\ Start(r, "invite", [Idle EXCEPT !.at = "insert",
            !.row = [kind |-> k, email |-> e, role |-> role, status |-> "pending", lapsed |-> FALSE]])
    /\ UNCHANGED <<user, member, inv, crashes>>

inviteMember(r, e, role) == invite(r, "store", e, role)
inviteAdmin(r, e) == invite(r, "admin", e, "staff")
inviteVendor(r, e) == invite(r, "vendor", e, "staff")

(* Mutant: without the partial unique index on pending rows.               *)
NoIndex(row) == TRUE

(* The unique index on the pending rows of an address.                     *)
PendingIndexAllows(row) == ~HasPending(row.kind, row.email)

InsertInvitation(r) ==
    /\ At(r, "insert")
    /\ IF PendingIndexAllows(job[r].row)
         THEN \E i \in Free : (\A k \in Free : i <= k) /\ inv' = [inv EXCEPT ![i] = job[r].row]
         ELSE inv' = inv
    /\ Return(r)
    /\ UNCHANGED <<user, member, crashes>>

-----------------------------------------------------------------------------
(* The link                                                                *)

PendingInvitation(i) == inv[i].status = "pending"

(* Opening a link whose time is over marks it, and fails.                  *)
openLapsed(r, i) ==
    /\ PendingInvitation(i) /\ inv[i].lapsed
    /\ Start(r, "acceptNew", SaveAs(i, "expired"))
    /\ UNCHANGED <<user, member, inv, crashes>>

(* Setting a password and a name on the invitation's page.                 *)
SignUp(r, i) ==
    /\ PendingInvitation(i) /\ ~inv[i].lapsed
    /\ Start(r, "acceptNew", [Idle EXCEPT !.at = "saveUser", !.i = i, !.row = inv[i], !.e = inv[i].email])
    /\ UNCHANGED <<user, member, inv, crashes>>

(* A store looks for the account first; the other two leave it to the      *)
(* unique address to refuse a second one.                                  *)
acceptInvitationAsNewUser(r, i) == inv[i].kind = "store" /\ user[inv[i].email].role = "none" /\ SignUp(r, i)
acceptAdmin(r, i) == inv[i].kind = "admin" /\ SignUp(r, i)
acceptVendor(r, i) == inv[i].kind = "vendor" /\ SignUp(r, i)

AccountRole(row) == IF row.kind = "admin" THEN "admin" ELSE "vendor"

SaveUser(r) ==
    LET e == job[r].e IN
    /\ At(r, "saveUser")
    /\ IF user[e].role # "none"
         THEN Return(r) /\ UNCHANGED user
         ELSE /\ user' = [user EXCEPT ![e].role = AccountRole(job[r].row)]
              /\ Goto(r, IF job[r].row.kind = "store" THEN [job[r] EXCEPT !.at = "accept"]
                         ELSE [job[r] EXCEPT !.at = "saveInvitation", !.row.status = "accepted"])
    /\ UNCHANGED <<member, inv, crashes>>

(* acceptInvitation, by the account with the invited address: from its own *)
(* mutation, or straight after the account was made.                       *)
CanAccept(i) ==
    /\ PendingInvitation(i) /\ ~inv[i].lapsed
    /\ user[inv[i].email].role # "none"
    /\ member[inv[i].email] = NoMember

Accepting(i) == [Idle EXCEPT !.at = "saveMember", !.i = i, !.row = inv[i], !.e = inv[i].email]

acceptInvitation(r, i) ==
    /\ inv[i].kind = "store"
    /\ CanAccept(i)
    /\ Start(r, "accept", Accepting(i))
    /\ UNCHANGED <<user, member, inv, crashes>>

AcceptAfterSignUp(r) ==
    LET i == job[r].i IN
    /\ At(r, "accept")
    /\ Goto(r, IF CanAccept(i) THEN Accepting(i)
               ELSE IF PendingInvitation(i) /\ inv[i].lapsed THEN SaveAs(i, "expired")
               ELSE Idle)
    /\ UNCHANGED <<user, member, inv, crashes>>

(* One membership per account and store: the second insert fails.          *)
SaveMember(r) ==
    LET e == job[r].e IN
    /\ At(r, "saveMember")
    /\ IF member[e] # NoMember
         THEN Return(r) /\ UNCHANGED member
         ELSE /\ member' = [member EXCEPT ![e] = [role |-> job[r].row.role, by |-> job[r].i]]
              /\ Goto(r, [job[r] EXCEPT !.at = "saveInvitation", !.row.status = "accepted"])
    /\ UNCHANGED <<user, inv, crashes>>

SaveInvitation(r) ==
    /\ At(r, "saveInvitation")
    /\ inv' = [inv EXCEPT ![job[r].i] = [job[r].row EXCEPT !.lapsed = inv[job[r].i].lapsed]]
    /\ Return(r)
    /\ UNCHANGED <<user, member, crashes>>

(* There is none for vendors.                                              *)
revokeInvitation(r, i) ==
    /\ inv[i].kind # "vendor"
    /\ PendingInvitation(i)
    /\ Start(r, "revoke", SaveAs(i, "revoked"))
    /\ UNCHANGED <<user, member, inv, crashes>>

declineInvitation(r, i) ==
    /\ inv[i].kind = "store"
    /\ PendingInvitation(i)
    /\ user[inv[i].email].role # "none"
    /\ Start(r, "decline", [Idle EXCEPT !.at = "removeInvitation", !.i = i])
    /\ UNCHANGED <<user, member, inv, crashes>>

RemoveInvitation(r) ==
    /\ At(r, "removeInvitation")
    /\ inv' = [inv EXCEPT ![job[r].i].status = "removed"]
    /\ Return(r)
    /\ UNCHANGED <<user, member, crashes>>

-----------------------------------------------------------------------------
(* The team                                                                *)

removeMember(r, e) ==
    /\ member[e].role \in MemberRole
    /\ Start(r, "removeMember", [Idle EXCEPT !.at = "removeMember", !.e = e, !.m = member[e]])
    /\ UNCHANGED <<user, member, inv, crashes>>

(* By primary key: a membership gained since then is another row.          *)
DeleteMember(r) ==
    LET e == job[r].e IN
    /\ At(r, "removeMember")
    /\ member' = [member EXCEPT ![e] = IF @.by = job[r].m.by THEN NoMember ELSE @]
    /\ Return(r)
    /\ UNCHANGED <<user, inv, crashes>>

updateMemberRole(r, e, role) ==
    /\ member[e].role \in MemberRole /\ e # Owner
    /\ Start(r, "updateRole", [Idle EXCEPT !.at = "saveRole", !.e = e, !.m = [member[e] EXCEPT !.role = role]])
    /\ UNCHANGED <<user, member, inv, crashes>>

(* The save brings back a row deleted meanwhile, unless a new membership   *)
(* took its place.                                                         *)
SaveRole(r) ==
    LET e == job[r].e IN
    /\ At(r, "saveRole")
    /\ member' = [member EXCEPT ![e] = IF @.by = job[r].m.by \/ @ = NoMember THEN job[r].m ELSE @]
    /\ Return(r)
    /\ UNCHANGED <<user, inv, crashes>>

(* The actor's token is not checked against isActive.                      *)
setAdminActive(actor, e, isActive) ==
    /\ "setActive" \in Handlers
    /\ user[actor].role = "admin" /\ user[e].role = "admin"
    /\ ~(actor = e /\ ~isActive)
    /\ user' = [user EXCEPT ![e].isActive = isActive]
    /\ UNCHANGED <<member, inv, job, crashes>>

-----------------------------------------------------------------------------
(* Seven days pass; the process dies                                       *)

Lapse(i) ==
    /\ PendingInvitation(i)
    /\ inv' = [inv EXCEPT ![i].lapsed = TRUE]
    /\ UNCHANGED <<user, member, job, crashes>>

Crash(r) ==
    /\ job[r].at # "idle"
    /\ crashes < MaxCrash
    /\ crashes' = crashes + 1
    /\ Return(r)
    /\ UNCHANGED <<user, member, inv>>

Finish(r) ==
    \/ SaveUser(r) \/ AcceptAfterSignUp(r) \/ SaveMember(r) \/ SaveInvitation(r)
    \/ RemoveInvitation(r) \/ DeleteMember(r) \/ SaveRole(r)
    \/ InsertInvitation(r)

Invite(r, e) == (\E role \in MemberRole : inviteMember(r, e, role)) \/ inviteAdmin(r, e) \/ inviteVendor(r, e)
Accept(r, i) ==
    \/ acceptInvitationAsNewUser(r, i) \/ acceptInvitation(r, i)
    \/ acceptAdmin(r, i) \/ acceptVendor(r, i)

Next ==
    \/ \E r \in Req :
        \/ \E e \in Email : Invite(r, e)
        \/ \E i \in Inv : openLapsed(r, i) \/ Accept(r, i) \/ revokeInvitation(r, i) \/ declineInvitation(r, i)
        \/ \E e \in Email : removeMember(r, e) \/ \E role \in MemberRole : updateMemberRole(r, e, role)
        \/ Finish(r)
        \/ Crash(r)
    \/ \E actor, e \in Email, isActive \in BOOLEAN : setAdminActive(actor, e, isActive)
    \/ \E i \in Inv : Lapse(i)

Spec == Init /\ [][Next]_vars

(* Whoever was invited tries the link, with whatever the page offers.      *)
TryAsNewUser(i) == \E r \in Req : acceptInvitationAsNewUser(r, i)
TryAsMember(i) == \E r \in Req : acceptInvitation(r, i)

-----------------------------------------------------------------------------
(* Properties                                                              *)

(* Every variable has its type.                                            *)
TypeOK ==
    /\ user \in [Email -> User]
    /\ member \in [Email -> Member]
    /\ inv \in [Inv -> Invitation]
    /\ job \in [Req -> Job]
    /\ crashes \in 0 .. MaxCrash

(* Two invitations of one address to one team are never pending together,  *)
(* although the services look for a pending row before they insert.        *)
OnePendingInvitation ==
    \A i, j \in Inv :
        i # j /\ inv[i].kind = inv[j].kind /\ inv[i].email = inv[j].email
            => ~(PendingInvitation(i) /\ PendingInvitation(j))

(* "Only pending invitations can be revoked" (revokeInvitation): one that  *)
(* was accepted is never turned into a revoked one.                        *)
RevokedOnlyWhilePending ==
    \A i \in Inv : inv'[i].status = "revoked" /\ inv[i].status # "revoked" => inv[i].status = "pending"

(* A membership appears only through an invitation that names the address  *)
(* and the role and was neither revoked, declined nor used before.         *)
JoinsByInvitation ==
    \A e \in Email : member[e] = NoMember /\ member'[e] # NoMember =>
       LET i == member'[e].by IN
       i # None /\ inv[i].email = e /\ inv[i].role = member'[e].role /\ PendingInvitation(i)

(* Whatever the team does, the owner stays its owner.                      *)
OwnerStays == member[Owner].role = "owner"

(* Who was invited to a store, and where it has to end: in the team, even  *)
(* when the process died between the account and the membership, unless    *)
(* the invitation is over.                                                 *)
Invited(i) == inv[i].kind = "store" /\ PendingInvitation(i)
InOrOver(i) == member[inv[i].email] # NoMember \/ ~PendingInvitation(i) \/ inv[i].lapsed
=============================================================================
