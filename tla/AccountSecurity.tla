--------------------------- MODULE AccountSecurity ---------------------------
(***************************************************************************)
(* The password, sessions, recoveries and e-mail change of one account:    *)
(* apps/accounts/security_services.py, session_services.py, tokens.py,     *)
(* authentication.py and the views that call them.                         *)
(*                                                                         *)
(* A request is authenticated by a session first and acts later, when the  *)
(* session may have ended and the password may be another.  Recoveries and *)
(* e-mail changes lock the rows they use and are one step then.  Signing   *)
(* in is two: the password is compared, and the session is written         *)
(* afterwards.  So is a change of password: the new one is saved, and the  *)
(* other sessions are ended in a transaction of their own.  Rotating a     *)
(* refresh token looks at the session first and issues the new one later.  *)
(* A request whose next step is never taken has died.                      *)
(*                                                                         *)
(* Passwords are numbered as they replace each other.  A session keeps the *)
(* number its holder has proved to know, and so does a request that was    *)
(* authenticated by it.                                                    *)
(***************************************************************************)
EXTENDS Integers, FiniteSets

CONSTANTS
  Sessions,     \* AccountSession rows of the account
  Clients,      \* requests that are served in more than one step
  Recoveries,   \* AccountRecoveryRequest rows
  MaxPasswords, \* bound: passwords the account has had
  MaxChanges    \* bound: e-mail changes asked for

ASSUME SecurityAssumption ==
  /\ IsFiniteSet(Sessions)
  /\ MaxPasswords \in Nat \ {0}
  /\ MaxChanges \in Nat

VARIABLES
  enabled,      \* the account has status active
  password,     \* the number of the present password
  sessions,     \* AccountSession rows
  tokens,       \* sessions with a refresh token that is not blacklisted
  clients,      \* what each request has done
  recoveries,   \* AccountRecoveryRequest.status
  change,       \* the newest EmailChangeRequest and how many there were
  late          \* history: sessions opened for who knew an old password

securityVars ==
  <<enabled, password, sessions, tokens, clients, recoveries, change, late>>

-----------------------------------------------------------------------------
SessionRow == [status : {"absent", "active", "revoked", "expired"},
               knows : 0 .. MaxPasswords]

RecoveryStatus == {"absent", "pending", "late", "consumed", "superseded", "revoked"}

ChangeRow == [status : {"none", "pending", "late", "verified", "cancelled", "expired"},
              count : 0 .. MaxChanges]

NoSession == [status |-> "absent", knows |-> 0]

IdleClient == [step |-> "idle"]

SecurityTypeOK ==
  /\ enabled \in BOOLEAN
  /\ password \in 1 .. MaxPasswords
  /\ sessions \in [Sessions -> SessionRow]
  /\ tokens \subseteq Sessions
  /\ clients \in
       [Clients -> {IdleClient}
          \cup [step : {"login"}, knows : 0 .. MaxPasswords]
          \cup [step : {"signed"}, session : Sessions, knows : 0 .. MaxPasswords]
          \cup [step : {"saved", "rotating"}, session : Sessions]]
  /\ recoveries \in [Recoveries -> RecoveryStatus]
  /\ change \in ChangeRow
  /\ late \subseteq Sessions

SecurityInit ==
  /\ enabled = TRUE
  /\ password = 1
  /\ sessions = [s \in Sessions |-> NoSession]
  /\ tokens = {}
  /\ clients = [c \in Clients |-> IdleClient]
  /\ recoveries = [r \in Recoveries |-> "absent"]
  /\ change = [status |-> "none", count |-> 0]
  /\ late = {}

\* suspend_account and reactivate_account; sessions are left as they are.
SwitchAccount ==
  /\ enabled' = ~enabled
  /\ UNCHANGED <<password, sessions, tokens, clients, recoveries, change, late>>

-----------------------------------------------------------------------------
(***************************************************************************)
(* Sessions and tokens.                                                    *)
(***************************************************************************)

Active(s) == sessions[s].status = "active"

\* ActiveAccountSessionAuthentication and ActiveAccountJWTAuthentication
Authenticated(s) == enabled /\ Active(s)

\* They let a request in, and do not look again.
Authenticate(c, s) ==
  /\ clients[c].step = "idle" /\ Authenticated(s)
  /\ clients' = [clients EXCEPT
       ![c] = [step |-> "signed", session |-> s, knows |-> sessions[s].knows]]
  /\ UNCHANGED <<enabled, password, sessions, tokens, recoveries, change, late>>

\* c is such a request, and over with this step.
SignedRequest(c) ==
  clients[c].step = "signed" /\ clients' = [clients EXCEPT ![c] = IdleClient]

\* The rows once the active ones of ended are revoked (revoke_user_sessions).
Revoked(ended) ==
  [s \in Sessions |-> IF s \in ended /\ Active(s)
                      THEN [sessions[s] EXCEPT !.status = "revoked"]
                      ELSE sessions[s]]

\* Their refresh tokens are blacklisted; other sessions' are not.
Blacklisted(ended) == tokens \ {s \in ended : Active(s)}

\* LoginSerializer.validate
CheckPassword(c) ==
  /\ clients[c].step = "idle" /\ enabled
  /\ clients' = [clients EXCEPT ![c] = [step |-> "login", knows |-> password]]
  /\ UNCHANGED <<enabled, password, sessions, tokens, recoveries, change, late>>

\* create_account_session and issue_token_pair
OpenSession(c, s) ==
  /\ clients[c].step = "login"
  /\ sessions[s].status = "absent"
  /\ sessions' = [sessions EXCEPT ![s] = [status |-> "active",
                                          knows |-> clients[c].knows]]
  /\ tokens' = tokens \cup {s}
  /\ late' = IF clients[c].knows = password THEN late ELSE late \cup {s}
  /\ clients' = [clients EXCEPT ![c] = IdleClient]
  /\ UNCHANGED <<enabled, password, recoveries, change>>

\* LogoutView: the cookie's token is blacklisted in any case, if there is one.
Logout(c) ==
  /\ SignedRequest(c)
  /\ LET own == {clients[c].session} IN
       /\ sessions' = Revoked(own)
       /\ tokens' \in {Blacklisted(own), tokens \ own}
  /\ UNCHANGED <<enabled, password, recoveries, change, late>>

\* AccountSessionDetailView: a session is ended from another one.
EndSession(c, s) ==
  /\ SignedRequest(c) /\ s # clients[c].session
  /\ sessions' = Revoked({s})
  /\ tokens' = Blacklisted({s})
  /\ UNCHANGED <<enabled, password, recoveries, change, late>>

\* The cookie's token is blacklisted; a session may hold another one.
RevokeToken(s) ==
  /\ s \in tokens
  /\ tokens' = tokens \ {s}
  /\ UNCHANGED <<enabled, password, sessions, clients, recoveries, change, late>>

RevokeOthers(c) ==
  /\ SignedRequest(c)
  /\ sessions' = Revoked(Sessions \ {clients[c].session})
  /\ tokens' = Blacklisted(Sessions \ {clients[c].session})
  /\ UNCHANGED <<enabled, password, recoveries, change, late>>

\* get_active_session finds a session whose time is over.
ExpireSession(s) ==
  /\ Active(s)
  /\ sessions' = [sessions EXCEPT ![s].status = "expired"]
  /\ UNCHANGED <<enabled, password, tokens, clients, recoveries, change, late>>

\* rotate_refresh_token: the checks ...
CheckRefresh(c, s) ==
  /\ clients[c].step = "idle"
  /\ s \in tokens /\ Authenticated(s)
  /\ clients' = [clients EXCEPT ![c] = [step |-> "rotating", session |-> s]]
  /\ UNCHANGED <<enabled, password, sessions, tokens, recoveries, change, late>>

\* ... and the new token, although the session may have been revoked meanwhile
IssueRefresh(c) ==
  /\ clients[c].step = "rotating"
  /\ tokens' = tokens \cup {clients[c].session}
  /\ clients' = [clients EXCEPT ![c] = IdleClient]
  /\ UNCHANGED <<enabled, password, sessions, recoveries, change, late>>

-----------------------------------------------------------------------------
(***************************************************************************)
(* Passwords and recoveries.                                               *)
(***************************************************************************)

\* change_password compares the old password with the one that was read at
\* authentication; the session it comes from knows the new one.
SavePassword(c) ==
  /\ clients[c].step = "signed"
  /\ password < MaxPasswords
  /\ password' = password + 1
  /\ sessions' = [sessions EXCEPT ![clients[c].session].knows = password + 1]
  /\ clients' = [clients EXCEPT ![c] = [step |-> "saved", session |-> @.session]]
  /\ UNCHANGED <<enabled, tokens, recoveries, change, late>>

\* Mutant of EndOtherSessions: the other sessions go on.
EndNothing(c) ==
  /\ clients[c].step = "saved"
  /\ clients' = [clients EXCEPT ![c] = IdleClient]
  /\ UNCHANGED <<enabled, password, sessions, tokens, recoveries, change, late>>

\* PasswordChangeView ends the others afterwards.
EndOtherSessions(c) ==
  /\ clients[c].step = "saved"
  /\ sessions' = Revoked(Sessions \ {clients[c].session})
  /\ tokens' = Blacklisted(Sessions \ {clients[c].session})
  /\ clients' = [clients EXCEPT ![c] = IdleClient]
  /\ UNCHANGED <<enabled, password, recoveries, change, late>>

IssueRecovery(r) ==
  /\ recoveries[r] = "absent"
  /\ recoveries' = [q \in Recoveries |->
       IF q = r THEN "pending"
       ELSE IF recoveries[q] \in {"pending", "late"} THEN "superseded"
       ELSE recoveries[q]]
  /\ UNCHANGED <<enabled, password, sessions, tokens, clients, change, late>>

\* The time of the recovery is over.  Its row never says so: the save of
\* EXPIRED in consume_password_recovery is rolled back by the error after it.
RecoveryLapses(r) ==
  /\ recoveries[r] = "pending"
  /\ recoveries' = [recoveries EXCEPT ![r] = "late"]
  /\ UNCHANGED <<enabled, password, sessions, tokens, clients, change, late>>

\* consume_password_recovery; the status of the account is not looked at.
ConsumeRecovery(r) ==
  /\ recoveries[r] = "pending"
  /\ password < MaxPasswords
  /\ password' = password + 1
  /\ recoveries' = [q \in Recoveries |->
       IF q = r THEN "consumed"
       ELSE IF recoveries[q] \in {"pending", "late"} THEN "revoked"
       ELSE recoveries[q]]
  /\ sessions' = Revoked(Sessions)
  /\ tokens' = Blacklisted(Sessions)
  /\ UNCHANGED <<enabled, clients, change, late>>

-----------------------------------------------------------------------------
(***************************************************************************)
(* The e-mail address.                                                     *)
(***************************************************************************)

\* issue_email_change; an earlier request that is still pending is superseded.
\* Sending the code again only replaces the code.
RequestChange(c) ==
  /\ SignedRequest(c)
  /\ change.count < MaxChanges
  /\ change' = [status |-> "pending", count |-> change.count + 1]
  /\ UNCHANGED <<enabled, password, sessions, tokens, recoveries, late>>

\* Its time is over, which pending_email_change may record.
ChangeLapses ==
  /\ \/ change.status = "pending" /\ change' = [change EXCEPT !.status = "late"]
     \/ change.status = "late" /\ change' = [change EXCEPT !.status = "expired"]
  /\ UNCHANGED <<enabled, password, sessions, tokens, clients, recoveries, late>>

CancelChange(c) ==
  /\ SignedRequest(c)
  /\ change.status \in {"pending", "late"}
  /\ change' = [change EXCEPT !.status = "cancelled"]
  /\ UNCHANGED <<enabled, password, sessions, tokens, recoveries, late>>

\* verify_email_change asks for the code alone and ends every session; the view
\* then opens a new one for who was authenticated.
VerifyChange(c) ==
  /\ clients[c].step = "signed"
  /\ change.status = "pending"
  /\ change' = [change EXCEPT !.status = "verified"]
  /\ sessions' = Revoked(Sessions)
  /\ tokens' = Blacklisted(Sessions)
  /\ clients' = [clients EXCEPT ![c] = [step |-> "login", knows |-> @.knows]]
  /\ UNCHANGED <<enabled, password, recoveries, late>>

-----------------------------------------------------------------------------
\* LoginView and LogoutView, and what every other request begins with
SignInAndOut ==
  \E c \in Clients :
    \/ CheckPassword(c) \/ Logout(c)
    \/ \E s \in Sessions : OpenSession(c, s) \/ Authenticate(c, s)

\* The list of sessions, where some are ended
SessionPage ==
  \E c \in Clients : RevokeOthers(c) \/ (\E s \in Sessions : EndSession(c, s))

\* TokenRefreshView and TokenRevokeView
TokenRequest ==
  \/ \E c \in Clients : (\E s \in Sessions : CheckRefresh(c, s)) \/ IssueRefresh(c)
  \/ \E s \in Sessions : RevokeToken(s)

\* A recovery is asked for by an active account's address alone.
RecoveryRequest ==
  \E r \in Recoveries : (enabled /\ IssueRecovery(r)) \/ ConsumeRecovery(r)

PasswordChange == \E c \in Clients : SavePassword(c) \/ EndOtherSessions(c)

ChangeRequest ==
  \E c \in Clients : RequestChange(c) \/ CancelChange(c) \/ VerifyChange(c)

\* What happens without a request of this account.
SecurityElsewhere ==
  \/ SwitchAccount \/ ChangeLapses
  \/ (\E s \in Sessions : ExpireSession(s)) \/ (\E r \in Recoveries : RecoveryLapses(r))

SecurityNext ==
  \/ SignInAndOut \/ SessionPage \/ TokenRequest
  \/ RecoveryRequest \/ PasswordChange \/ ChangeRequest \/ SecurityElsewhere

SecuritySpec == SecurityInit /\ [][SecurityNext]_securityVars

-----------------------------------------------------------------------------
(***************************************************************************)
(* Properties.                                                             *)
(***************************************************************************)

\* A new password ends the sessions of the old one.  What remains is a session
\* that was opened for somebody who had proved to know an old password only,
\* because the sign-in or the change of address was under way, and what a change
\* of password that is not over (or was killed) has still to end:
\* PasswordChangeView, EmailChangeVerifyView, revoke_user_sessions.
OldSessionsEnd ==
  \A s \in Sessions :
    Active(s) /\ sessions[s].knows # password =>
      \/ s \in late
      \/ \E c \in Clients : clients[c].step = "saved"
=============================================================================
