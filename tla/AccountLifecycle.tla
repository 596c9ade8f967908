-------------------------- MODULE AccountLifecycle --------------------------
(***************************************************************************)
(* Accounts from registration to archiving: apps/accounts/services.py, the *)
(* rows of models.py and the administrators' views of views.py.            *)
(*                                                                         *)
(* Registration locks the rows it decides on and is one step.  Sending a   *)
(* code again is three statements, each of its own, and a verification     *)
(* locks the code first and the account afterwards: a guest holds what     *)
(* such a request has done.  A request of an administrator is let in once, *)
(* by the account it comes from, and decides about a role or works on an   *)
(* account later: the view loads the row, the guard against losing the     *)
(* last administrator counts, and the columns are saved, all without a     *)
(* lock.  A desk holds what such a request has read.  A guest or a desk    *)
(* whose next step is never taken is a request that was refused or died.   *)
(*                                                                         *)
(* Names, passwords, profiles of students and the site of django.contrib.  *)
(* admin are left out.  Verification codes matter only as the newest one   *)
(* of an account, because verify_email looks at no other.                  *)
(***************************************************************************)
EXTENDS Integers, Sequences, FiniteSets

CONSTANTS
  Accounts,     \* all accounts there may be
  Founders,     \* those created as administrators when the site was set up
  Guests,       \* requests about verification, of people not signed in
  Desks,        \* requests of administrators
  MaxAccountRequests   \* bound: role activation requests of an account

ASSUME AccountAssumption ==
  /\ IsFiniteSet(Accounts)
  /\ Founders \subseteq Accounts
  /\ MaxAccountRequests \in Nat

VARIABLES
  users,        \* User rows
  codes,        \* the newest EmailVerificationCode of each account
  activations,  \* RoleActivationRequest statuses of each account, in order
  teachers,     \* accounts with a TeacherProfile
  guests,       \* what each request about verification has done
  desks,        \* what each request of an administrator has read
  reverified    \* history: accounts that were verified again

accountVars == <<users, codes, activations, teachers, guests, desks, reverified>>

-----------------------------------------------------------------------------
UserStatus == {"absent", "pending_email", "pending_role", "active", "suspended",
               "archived"}
GlobalRole == {"admin", "advisor", "student"}

User ==
  [status : UserStatus,
   signin : BOOLEAN,                                \* is_active
   role : GlobalRole,                               \* global_role
   active : {"student", "teacher", "pending"},      \* active_role
   requested : {"student", "teacher"},              \* requested_role
   verified : BOOLEAN]                              \* email_verified_at

\* A code is void once it is revoked or its lifetime is over.
Code == {"none", "pending", "void", "consumed"}

Activation == {"pending", "approved", "rejected", "expired", "revoked"}

\* What a request may be about to save.
Edit == [kind : {"suspend", "archive"}] \cup [kind : {"role"}, role : GlobalRole]

IdleDesk == [step |-> "idle"]

IdleGuest == [step |-> "idle"]

\* What the page goes by of a row that it has read.
Read == [status : UserStatus, role : GlobalRole]

AccountTypeOK ==
  /\ users \in [Accounts -> User]
  /\ codes \in [Accounts -> Code]
  /\ activations \in [Accounts -> Seq(Activation)]
  /\ \A u \in Accounts : Len(activations[u]) <= MaxAccountRequests
  /\ teachers \subseteq Accounts
  /\ guests \in
       [Guests -> {IdleGuest} \cup
                  [step : {"found", "cleared", "verifying"}, user : Accounts]]
  /\ reverified \subseteq Accounts
  /\ desks \in
       [Desks -> {IdleDesk} \cup [step : {"admitted"}, by : Accounts]
                   \cup [step : {"open"}, user : Accounts, row : Read]
                   \cup [step : {"guarded"}, user : Accounts, row : Read,
                         edit : Edit, seen : SUBSET Accounts]]

Absent == [status |-> "absent", signin |-> FALSE, role |-> "student",
           active |-> "pending", requested |-> "student", verified |-> FALSE]

\* createsuperuser and the defaults of the row
Founder == [status |-> "active", signin |-> TRUE, role |-> "admin",
            active |-> "student", requested |-> "student", verified |-> TRUE]

AccountInit ==
  /\ users = [u \in Accounts |-> IF u \in Founders THEN Founder ELSE Absent]
  /\ codes = [u \in Accounts |-> "none"]
  /\ activations = [u \in Accounts |-> <<>>]
  /\ teachers = {} /\ reverified = {}
  /\ guests = [g \in Guests |-> IdleGuest]
  /\ desks = [k \in Desks |-> IdleDesk]

ActiveAdmins ==
  {u \in Accounts : users[u].status = "active" /\ users[u].role = "admin"}

\* IsAdministrator, for a request that passes authentication
MayAdminister(u) == u \in ActiveAdmins /\ users[u].signin

Newest(u) == activations[u][Len(activations[u])]

HasPending(u) == \E i \in DOMAIN activations[u] : activations[u][i] = "pending"

-----------------------------------------------------------------------------
(***************************************************************************)
(* Registration and verification.                                          *)
(***************************************************************************)

Register(u, role) ==
  /\ users[u].status = "absent"
  /\ users' = [users EXCEPT
       ![u] = [status |-> "pending_email", signin |-> TRUE, active |-> "pending",
               role |-> IF role = "teacher" THEN "advisor" ELSE "student",
               requested |-> role, verified |-> FALSE]]
  /\ codes' = [codes EXCEPT ![u] = "pending"]
  /\ UNCHANGED <<activations, teachers, guests, desks, reverified>>

\* A rejected teacher registers again.  The status is not looked at.
Resubmit(u) ==
  /\ users[u].requested = "teacher" /\ users[u].verified
  /\ activations[u] # <<>> /\ Newest(u) = "rejected"
  /\ Len(activations[u]) < MaxAccountRequests
  /\ users' = [users EXCEPT ![u].active = "pending", ![u].status = "pending_role",
                            ![u].signin = TRUE]
  /\ activations' = [activations EXCEPT ![u] = Append(@, "pending")]
  /\ UNCHANGED <<codes, teachers, guests, desks, reverified>>

Verifying(g, u) == guests[g] = [step |-> "verifying", user |-> u]

\* resend_verification_code reads the account without a lock.
FindUnverified(g, u) ==
  /\ guests[g].step = "idle"
  /\ users[u].status = "pending_email"
  /\ guests' = [guests EXCEPT ![g] = [step |-> "found", user |-> u]]
  /\ UNCHANGED <<users, codes, activations, teachers, desks, reverified>>

\* create_verification_code revokes the code there is: a verification that has
\* locked it is waited for.
ClearCodes(g) ==
  /\ guests[g].step = "found"
  /\ LET u == guests[g].user IN
       /\ \A h \in Guests : ~Verifying(h, u)
       /\ codes' = [codes EXCEPT ![u] = IF @ = "pending" THEN "void" ELSE @]
  /\ guests' = [guests EXCEPT ![g].step = "cleared"]
  /\ UNCHANGED <<users, activations, teachers, desks, reverified>>

\* It inserts the new code, whatever has become of the account.
ResendCode(g) ==
  /\ guests[g].step = "cleared"
  /\ codes' = [codes EXCEPT ![guests[g].user] = "pending"]
  /\ guests' = [guests EXCEPT ![g] = IdleGuest]
  /\ UNCHANGED <<users, activations, teachers, desks, reverified>>

CodeExpires(u) ==
  /\ codes[u] = "pending"
  /\ codes' = [codes EXCEPT ![u] = "void"]
  /\ UNCHANGED <<users, activations, teachers, guests, desks, reverified>>

\* verify_email locks the newest code; it is of no use to anybody else from here.
LockCode(g, u) ==
  /\ guests[g].step = "idle"
  /\ codes[u] = "pending"
  /\ codes' = [codes EXCEPT ![u] = "consumed"]
  /\ guests' = [guests EXCEPT ![g] = [step |-> "verifying", user |-> u]]
  /\ UNCHANGED <<users, activations, teachers, desks, reverified>>

\* It locks the account then, whose status is not looked at: it may have been
\* suspended, or verified by a newer code, meanwhile.
VerifyEmail(g, u) ==
  /\ Verifying(g, u)
  /\ IF users[u].requested = "student"
     THEN /\ users' = [users EXCEPT ![u].verified = TRUE, ![u].active = "student",
                                    ![u].status = "active"]
          /\ UNCHANGED activations
     ELSE /\ users' = [users EXCEPT ![u].verified = TRUE, ![u].active = "pending",
                                    ![u].status = "pending_role"]
          /\ HasPending(u) \/ Len(activations[u]) < MaxAccountRequests
          /\ activations' = IF HasPending(u) THEN activations
                            ELSE [activations EXCEPT ![u] = Append(@, "pending")]
  /\ reverified' = IF users[u].verified THEN reverified \cup {u} ELSE reverified
  /\ guests' = [guests EXCEPT ![g] = IdleGuest]
  /\ UNCHANGED <<codes, teachers, desks>>

-----------------------------------------------------------------------------
\* IsAdministrator lets a request of an administrator in; nothing asks again.
AdmitAdministrator(k, a) ==
  /\ desks[k].step = "idle"
  /\ MayAdminister(a)
  /\ desks' = [desks EXCEPT ![k] = [step |-> "admitted", by |-> a]]
  /\ UNCHANGED <<users, codes, activations, teachers, guests, reverified>>

-----------------------------------------------------------------------------
(***************************************************************************)
(* decide_role_activation, which locks the request and the account.        *)
(***************************************************************************)

\* The reviewer was let in as an administrator, and is not the applicant.
Reviewable(k, u, i, status) ==
  /\ desks[k].step = "admitted" /\ desks[k].by # u
  /\ i \in DOMAIN activations[u]
  /\ activations[u][i] = status

AnswerRequest(k, u, i, answer) ==
  /\ activations' = [activations EXCEPT ![u][i] = answer]
  /\ desks' = [desks EXCEPT ![k] = IdleDesk]

Approve(k, u, i) ==
  /\ Reviewable(k, u, i, "pending")
  /\ AnswerRequest(k, u, i, "approved")
  /\ users' = [users EXCEPT ![u].active = "teacher", ![u].role = "advisor",
                            ![u].status = "active"]
  /\ teachers' = teachers \cup {u}
  /\ UNCHANGED <<codes, guests, reverified>>

\* reject or expire
Decline(k, u, i, answer) ==
  /\ Reviewable(k, u, i, "pending")
  /\ AnswerRequest(k, u, i, answer)
  /\ UNCHANGED <<users, codes, teachers, guests, reverified>>

\* Mutant of Revoke: the profile is left behind.
RevokeRoleOnly(k, u, i) ==
  /\ Reviewable(k, u, i, "approved")
  /\ AnswerRequest(k, u, i, "revoked")
  /\ users' = [users EXCEPT ![u].active = "pending", ![u].status = "pending_role"]
  /\ UNCHANGED <<codes, teachers, guests, reverified>>

Revoke(k, u, i) ==
  /\ Reviewable(k, u, i, "approved")
  /\ AnswerRequest(k, u, i, "revoked")
  /\ users' = [users EXCEPT ![u].active = "pending", ![u].status = "pending_role"]
  /\ teachers' = teachers \ {u}
  /\ UNCHANGED <<codes, guests, reverified>>

-----------------------------------------------------------------------------
(***************************************************************************)
(* The administrators' page.                                               *)
(***************************************************************************)

RowRead(u) == [status |-> users[u].status, role |-> users[u].role]

\* The view loads the account.
OpenAccount(k, u) ==
  /\ desks[k].step = "admitted"
  /\ users[u].status # "absent"
  /\ desks' = [desks EXCEPT ![k] = [step |-> "open", user |-> u, row |-> RowRead(u)]]
  /\ UNCHANGED <<users, codes, activations, teachers, guests, reverified>>

\* Mutant of _guard_last_admin: only a demotion is guarded.
GuardDemotion(row, edit) ==
  row.role = "admin" /\ edit.kind = "role" /\ edit.role # "admin"
    => Cardinality(ActiveAdmins) > 1

\* _guard_last_admin: the row is the one the view read, the count is fresh.
GuardLastAdmin(row, edit) ==
  \/ row.role # "admin"
  \/ edit.kind = "role" /\ edit.role = "admin"
  \/ Cardinality(ActiveAdmins) > 1

PassGuard(k, edit) ==
  /\ desks[k].step = "open"
  /\ GuardLastAdmin(desks[k].row, edit)
  /\ desks' = [desks EXCEPT
       ![k] = [step |-> "guarded", user |-> @.user, row |-> @.row, edit |-> edit,
               seen |-> ActiveAdmins]]
  /\ UNCHANGED <<users, codes, activations, teachers, guests, reverified>>

\* suspend_account, archive_account and edit_account save their columns.
SaveAccount(k) ==
  /\ desks[k].step = "guarded"
  /\ LET u == desks[k].user  edit == desks[k].edit IN
       users' = CASE edit.kind = "suspend" ->
                       [users EXCEPT ![u].status = "suspended", ![u].signin = FALSE]
                  [] edit.kind = "archive" ->
                       [users EXCEPT ![u].status = "archived", ![u].signin = FALSE]
                  [] edit.kind = "role" -> [users EXCEPT ![u].role = edit.role]
  /\ desks' = [desks EXCEPT ![k] = IdleDesk]
  /\ UNCHANGED <<codes, activations, teachers, guests, reverified>>

\* edit_account of the name alone saves the role as it was read.
RenameAccount(k) ==
  /\ desks[k].step = "open"
  /\ users' = [users EXCEPT ![desks[k].user].role = desks[k].row.role]
  /\ desks' = [desks EXCEPT ![k] = IdleDesk]
  /\ UNCHANGED <<codes, activations, teachers, guests, reverified>>

ReactivateAccount(k) ==
  /\ desks[k].step = "open"
  /\ desks[k].row.status = "suspended"
  /\ users' = [users EXCEPT ![desks[k].user].status = "active",
                            ![desks[k].user].signin = TRUE]
  /\ desks' = [desks EXCEPT ![k] = IdleDesk]
  /\ UNCHANGED <<codes, activations, teachers, guests, reverified>>

-----------------------------------------------------------------------------
Registration ==
  \E u \in Accounts :
    \/ \E role \in {"student", "teacher"} : Register(u, role)
    \/ Resubmit(u) \/ CodeExpires(u)

Verification ==
  \E g \in Guests :
    \/ ClearCodes(g) \/ ResendCode(g)
    \/ \E u \in Accounts : FindUnverified(g, u) \/ LockCode(g, u) \/ VerifyEmail(g, u)

RoleDecision ==
  \E k \in Desks, u \in Accounts, i \in 1 .. MaxAccountRequests :
    \/ Approve(k, u, i)
    \/ \E answer \in {"rejected", "expired"} : Decline(k, u, i, answer)
    \/ Revoke(k, u, i)

AdminPage ==
  \E k \in Desks :
    \/ \E u \in Accounts : AdmitAdministrator(k, u) \/ OpenAccount(k, u)
    \/ \E edit \in Edit : PassGuard(k, edit)
    \/ SaveAccount(k) \/ RenameAccount(k) \/ ReactivateAccount(k)

AccountNext == Registration \/ Verification \/ RoleDecision \/ AdminPage

AccountSpec == AccountInit /\ [][AccountNext]_accountVars

-----------------------------------------------------------------------------
(***************************************************************************)
(* Properties.                                                             *)
(***************************************************************************)

\* What k is about to save rests on a row or a count that has changed, or what
\* it decides on an administrator who no longer is one.
StaleDesk(k) ==
  CASE desks[k].step = "idle"     -> FALSE
    [] desks[k].step = "admitted" -> desks[k].by \notin ActiveAdmins
    [] desks[k].step = "open"     -> desks[k].row # RowRead(desks[k].user)
    [] desks[k].step = "guarded"  ->
         desks[k].row # RowRead(desks[k].user) \/ desks[k].seen # ActiveAdmins

\* The verification of u comes to its end.
Verifies(u) == \E g \in Guests : Verifying(g, u) /\ guests'[g] = IdleGuest

\* The last active administrator is lost only to a request of an administrator
\* that acts on outdated data or was let in as one that it no longer is, or by
\* its own verification or second registration (_guard_last_admin and
\* IsAdministrator; verify_email and register_account have no such guard).
OnlyStaleDesksRemoveLast ==
  [][ActiveAdmins # {} /\ ActiveAdmins' = {} =>
       \/ \E k \in Desks : StaleDesk(k) /\ desks'[k] = IdleDesk
       \/ \E u \in ActiveAdmins :
            Verifies(u) \/ Len(activations'[u]) > Len(activations[u])
      ]_accountVars

\* The lock on the account keeps overlapping registrations and verifications
\* from opening two requests at a time, and a profile exists for an approved one
\* only.  Who was verified once has at most one request that is not over, and
\* the profile as long as it is approved; whoever was verified again, by a code
\* that was sent before and came after, may have another approved before it
\* (resend_verification_code, verify_email, decide_role_activation).
ProfileMatchesApproval ==
  \A u \in Accounts :
    LET Having(status) == {i \in DOMAIN activations[u] : activations[u][i] = status}
    IN /\ Cardinality(Having("pending")) <= 1
       /\ u \in teachers => Having("approved") # {}
       /\ u \notin reverified =>
            /\ Cardinality(Having("pending") \cup Having("approved")) <= 1
            /\ u \in teachers <=> Having("approved") # {}

\* An account that is neither suspended nor archived may sign in, unless a
\* decision or a verification changed its status while it was (verify_email and
\* decide_role_activation do not look at it, and leave is_active alone).
LockedOut(u) ==
  users[u].status \in {"pending_email", "pending_role", "active"} /\ ~users[u].signin

OnlyDecisionsLockOut ==
  [][\A u \in Accounts : LockedOut(u)' /\ ~LockedOut(u) =>
       /\ users[u].status \in {"suspended", "archived"}
       /\ activations'[u] # activations[u] \/ Verifies(u)]_accountVars
=============================================================================
