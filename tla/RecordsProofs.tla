---------------------------- MODULE RecordsProofs ----------------------------
(***************************************************************************)
(* Theorems about accounts and their sessions, the stock of a resource and *)
(* an export of the audit log, for any number of accounts, sessions,       *)
(* requests and reports, and about all records together: every part        *)
(* behaves in MCRecords as it does alone, so what is proved of the parts   *)
(* holds of them all.                                                      *)
(***************************************************************************)
EXTENDS MCRecords, LibraryProofs, FiniteSetTheorems

-----------------------------------------------------------------------------
(***************************************************************************)
(* Accounts: registration, requests for roles, and the administrators'     *)
(* page.                                                                   *)
(***************************************************************************)

USE AccountAssumption

\* Only the newest request of an account can be pending, or approved if the
\* account was verified once.
Counts(u, answer) ==
  \/ answer = "pending"
  \/ answer = "approved" /\ u \notin reverified

NewestCounts ==
  \A u \in Accounts : \A i \in DOMAIN activations[u] :
    Counts(u, activations[u][i]) => i = Len(activations[u])

Granted(u) == \E i \in DOMAIN activations[u] : activations[u][i] = "approved"

TeachersAreApproved ==
  \A u \in Accounts : /\ u \in teachers => Granted(u)
                      /\ u \notin reverified /\ Granted(u) => u \in teachers

\* A request for a role is opened by a verification.
RequestsFollowCodes ==
  \A u \in Accounts :
    /\ activations[u] # << >> =>
         users[u].verified /\ users[u].status \notin {"absent", "pending_email"}
    /\ users[u].status = "absent" => codes[u] = "none"

\* Codes are asked for, and used, of accounts that are registered.
GuestsNameAccounts ==
  \A g \in Guests : guests[g].step # "idle" => users[guests[g].user].status # "absent"

\* What a request that passed the guard has found.
FoundAnotherAdmin(desk) ==
  \/ desk.row.role # "admin"
  \/ desk.edit.kind = "role" /\ desk.edit.role = "admin"
  \/ Cardinality(desk.seen) > 1

GuardsHold == \A k \in Desks : desks[k].step = "guarded" => FoundAnotherAdmin(desks[k])

RequestsHold == NewestCounts /\ TeachersAreApproved /\ RequestsFollowCodes

AccountInv == AccountTypeOK /\ RequestsHold /\ GuardsHold /\ GuestsNameAccounts

\* What becomes of the requests of one account.
LEMMA AppendedRequest ==
  ASSUME AccountTypeOK, NEW u \in Accounts, Len(activations[u]) < MaxAccountRequests
  PROVE  LET later == Append(activations[u], "pending") IN
         /\ [activations EXCEPT ![u] = later] \in [Accounts -> Seq(Activation)]
         /\ later \in Seq(Activation) /\ Len(later) = Len(activations[u]) + 1
         /\ Len(later) <= MaxAccountRequests /\ later # << >>
         /\ DOMAIN activations[u] = 1 .. Len(activations[u])
         /\ DOMAIN later = 1 .. Len(activations[u]) + 1
         /\ \A i \in DOMAIN activations[u] : later[i] = activations[u][i]
         /\ later[Len(activations[u]) + 1] = "pending"
<1> DEFINE later == Append(activations[u], "pending")
<1>1. activations[u] \in Seq(Activation) /\ "pending" \in Activation
  BY DEF AccountTypeOK, Activation
<1>2. /\ later \in Seq(Activation) /\ Len(later) = Len(activations[u]) + 1
      /\ later[Len(activations[u]) + 1] = "pending"
      /\ \A i \in 1 .. Len(activations[u]) : later[i] = activations[u][i]
  BY <1>1, AppendProperties
<1>3. Len(activations[u]) \in Nat /\ DOMAIN activations[u] = 1 .. Len(activations[u])
      /\ DOMAIN later = 1 .. Len(later)
  BY <1>1, <1>2, LenProperties
<1> HIDE DEF later
<1>4. later # << >> /\ Len(later) <= MaxAccountRequests
  BY <1>2, <1>3
<1>5. [activations EXCEPT ![u] = later] \in [Accounts -> Seq(Activation)]
  BY <1>2 DEF AccountTypeOK
<1> QED
  BY <1>1, <1>2, <1>3, <1>4, <1>5 DEF later

\* An answer to one request of an account (decide_role_activation).
LEMMA DecidedRequest ==
  ASSUME AccountTypeOK, NEW u \in Accounts, NEW i \in DOMAIN activations[u],
         NEW answer \in Activation
  PROVE  LET later == [activations[u] EXCEPT ![i] = answer] IN
         /\ [activations EXCEPT ![u][i] = answer] = [activations EXCEPT ![u] = later]
         /\ [activations EXCEPT ![u] = later] \in [Accounts -> Seq(Activation)]
         /\ Len(later) = Len(activations[u]) /\ later # << >> /\ activations[u] # << >>
         /\ DOMAIN later = DOMAIN activations[u]
         /\ later[i] = answer
         /\ \A j \in DOMAIN activations[u] \ {i} : later[j] = activations[u][j]
<1> DEFINE later == [activations[u] EXCEPT ![i] = answer]
<1>1. activations[u] \in Seq(Activation)
  BY DEF AccountTypeOK
<1>2. Len(activations[u]) \in Nat /\ DOMAIN activations[u] = 1 .. Len(activations[u])
  BY <1>1, LenProperties
<1>3. /\ later \in Seq(Activation) /\ Len(later) = Len(activations[u])
      /\ later[i] = answer
      /\ \A j \in DOMAIN activations[u] \ {i} : later[j] = activations[u][j]
      /\ DOMAIN later = DOMAIN activations[u]
  BY <1>1, <1>2, ExceptSeq
<1>4. later # << >> /\ activations[u] # << >>
  BY <1>2, <1>3
<1>5. [activations EXCEPT ![u][i] = answer] = [activations EXCEPT ![u] = later]
  BY DEF AccountTypeOK
<1> HIDE DEF later
<1>6. [activations EXCEPT ![u] = later] \in [Accounts -> Seq(Activation)]
  BY <1>3 DEF AccountTypeOK
<1> QED
  BY <1>3, <1>4, <1>5, <1>6 DEF later

\* A step that only opens one more request, for an account without one that
\* counts, or answers one that does.
LEMMA RequestsStayInOrder ==
  ASSUME AccountTypeOK, RequestsHold, AccountTypeOK', NEW u \in Accounts,
         \A t \in Accounts \ {u} :
           /\ activations'[t] = activations[t] /\ codes'[t] = codes[t]
           /\ users'[t] = users[t] /\ (t \in teachers' <=> t \in teachers)
           /\ t \in reverified' <=> t \in reverified,
         \A i \in DOMAIN activations'[u] :
           Counts(u, activations[u][i])' => i = Len(activations'[u]),
         u \in teachers' => Granted(u)',
         u \notin reverified' /\ Granted(u)' => u \in teachers',
         activations'[u] # << >> =>
           users'[u].verified /\ users'[u].status \notin {"absent", "pending_email"},
         users'[u].status = "absent" => codes'[u] = "none"
  PROVE  RequestsHold'
<1>1. NewestCounts'
  <2> SUFFICES ASSUME NEW t \in Accounts, NEW i \in DOMAIN activations'[t],
                      Counts(t, activations[t][i])'
               PROVE  i = Len(activations'[t])
    BY DEF NewestCounts
  <2> QED
    BY DEF RequestsHold, NewestCounts, Counts
<1>2. TeachersAreApproved'
  <2> SUFFICES ASSUME NEW t \in Accounts
               PROVE  /\ t \in teachers' => Granted(t)'
                      /\ t \notin reverified' /\ Granted(t)' => t \in teachers'
    BY DEF TeachersAreApproved
  <2>1. CASE t = u
    BY <2>1
  <2>2. CASE t # u
    BY <2>2 DEF RequestsHold, TeachersAreApproved, Granted
  <2> QED
    BY <2>1, <2>2
<1>3. RequestsFollowCodes'
  BY DEF RequestsHold, RequestsFollowCodes
<1> QED
  BY <1>1, <1>2, <1>3 DEF RequestsHold

\* The rows after a step that writes the row of u.
LEMMA ChangedRow ==
  ASSUME AccountTypeOK, NEW u \in Accounts, NEW row \in User
  PROVE  /\ [users EXCEPT ![u] = row] \in [Accounts -> User]
         /\ [users EXCEPT ![u] = row][u] = row
         /\ \A t \in Accounts \ {u} : [users EXCEPT ![u] = row][t] = users[t]
  BY DEF AccountTypeOK

\* The bodies of OnlyStaleDesksRemoveLast and OnlyDecisionsLockOut.
RemovesLastRightly ==
  ActiveAdmins # {} /\ ActiveAdmins' = {} =>
    \/ \E k \in Desks : StaleDesk(k) /\ desks'[k] = IdleDesk
    \/ \E u \in ActiveAdmins :
         Verifies(u) \/ Len(activations'[u]) > Len(activations[u])

LocksOutRightly ==
  \A u \in Accounts : LockedOut(u)' /\ ~LockedOut(u) =>
    /\ users[u].status \in {"suspended", "archived"}
    /\ activations'[u] # activations[u] \/ Verifies(u)

Keeps == AccountInv' /\ RemovesLastRightly /\ LocksOutRightly

\* Nobody's row is removed: the guests keep to accounts that are registered.
LEMMA GuestsStay ==
  ASSUME AccountInv, guests' = guests, NEW u \in Accounts,
         \A t \in Accounts \ {u} : users'[t] = users[t],
         users'[u].status = "absent" => users[u].status = "absent"
  PROVE  GuestsNameAccounts'
<1> SUFFICES ASSUME NEW g \in Guests, guests[g].step # "idle"
             PROVE  users'[guests[g].user].status # "absent"
  BY DEF GuestsNameAccounts
<1>1. guests[g].user \in Accounts
  BY DEF AccountInv, AccountTypeOK, IdleGuest
<1>2. users[guests[g].user].status # "absent"
  BY DEF AccountInv, GuestsNameAccounts
<1> QED
  BY <1>1, <1>2

\* A step that changes the row of u only: what is left to show concerns u.
LEMMA OneRow ==
  ASSUME NEW u \in Accounts, \A t \in Accounts \ {u} : users'[t] = users[t],
         u \in ActiveAdmins /\ u \notin ActiveAdmins' =>
           \/ Verifies(u) \/ Len(activations'[u]) > Len(activations[u])
           \/ \E k \in Desks : StaleDesk(k) /\ desks'[k] = IdleDesk
           \/ \E r \in Accounts \ {u} : r \in ActiveAdmins,
         LockedOut(u)' /\ ~LockedOut(u) =>
           /\ users[u].status \in {"suspended", "archived"}
           /\ activations'[u] # activations[u] \/ Verifies(u)
  PROVE  RemovesLastRightly /\ LocksOutRightly
<1>1. \A t \in Accounts \ {u} : t \in ActiveAdmins => t \in ActiveAdmins'
  BY DEF ActiveAdmins
<1>2. RemovesLastRightly
  <2> SUFFICES ASSUME ActiveAdmins # {}, ActiveAdmins' = {}
               PROVE  \/ \E k \in Desks : StaleDesk(k) /\ desks'[k] = IdleDesk
                      \/ \E t \in ActiveAdmins :
                           Verifies(t) \/ Len(activations'[t]) > Len(activations[t])
    BY DEF RemovesLastRightly
  <2>1. PICK t \in Accounts : t \in ActiveAdmins
    BY DEF ActiveAdmins
  <2>2. t = u
    BY <1>1, <2>1
  <2> QED
    BY <1>1, <2>1, <2>2
<1>3. LocksOutRightly
  BY DEF LocksOutRightly, LockedOut
<1> QED
  BY <1>2, <1>3

\* register_account: a row without requests, or the unverified one again.
LEMMA RegisterKeeps ==
  ASSUME AccountInv, NEW u \in Accounts, NEW role \in {"student", "teacher"},
         Register(u, role)
  PROVE  Keeps
<1> DEFINE granted == IF role = "teacher" THEN "advisor" ELSE "student"
<1>1. AccountTypeOK /\ RequestsHold /\ GuardsHold
  BY DEF AccountInv
<1>2. /\ users[u].status = "absent"
      /\ users' = [users EXCEPT
           ![u] = [status |-> "pending_email", signin |-> TRUE, role |-> granted,
                   active |-> "pending", requested |-> role, verified |-> FALSE]]
      /\ codes' = [codes EXCEPT ![u] = "pending"]
      /\ activations' = activations /\ teachers' = teachers /\ desks' = desks
      /\ guests' = guests /\ reverified' = reverified
  BY DEF Register
<1>3. /\ users' \in [Accounts -> User]
      /\ users'[u].status = "pending_email" /\ users'[u].signin = TRUE
      /\ \A t \in Accounts \ {u} : users'[t] = users[t]
  <2> DEFINE row == [status |-> "pending_email", signin |-> TRUE, role |-> granted,
                     active |-> "pending", requested |-> role, verified |-> FALSE]
  <2>1. row \in User /\ row.status = "pending_email" /\ row.signin = TRUE
    BY DEF User, GlobalRole, UserStatus
  <2>2. users' = [users EXCEPT ![u] = row]
    BY <1>2
  <2> HIDE DEF row
  <2> QED
    BY <1>1, <2>1, <2>2, ChangedRow
<1>4. activations[u] = << >>
  BY <1>1, <1>2 DEF RequestsHold, RequestsFollowCodes
<1>5. codes' \in [Accounts -> Code] /\ \A t \in Accounts \ {u} : codes'[t] = codes[t]
  BY <1>1, <1>2 DEF AccountTypeOK, Code
<1>6. AccountTypeOK'
  BY <1>1, <1>2, <1>3, <1>5 DEF AccountTypeOK
<1>7. RequestsHold'
  <2>1. u \notin teachers /\ ~Granted(u)'
    BY <1>1, <1>2, <1>4 DEF RequestsHold, TeachersAreApproved, Granted
  <2> QED
    BY <1>1, <1>2, <1>3, <1>4, <1>5, <1>6, <2>1, RequestsStayInOrder
<1>8. GuardsHold' /\ GuestsNameAccounts'
  BY <1>1, <1>2, <1>3, GuestsStay DEF GuardsHold
<1>9. RemovesLastRightly /\ LocksOutRightly
  BY <1>2, <1>3, OneRow DEF ActiveAdmins, LockedOut
<1> QED
  BY <1>6, <1>7, <1>8, <1>9 DEF Keeps, AccountInv

\* resubmit_role_request, after a rejection.
LEMMA ResubmitKeeps ==
  ASSUME AccountInv, NEW u \in Accounts, Resubmit(u)
  PROVE  Keeps
<1> DEFINE later == Append(activations[u], "pending")
<1>1. AccountTypeOK /\ RequestsHold /\ GuardsHold
  BY DEF AccountInv
<1>2. /\ activations[u] # << >> /\ Newest(u) = "rejected"
      /\ Len(activations[u]) < MaxAccountRequests
      /\ users' = [users EXCEPT ![u].active = "pending", ![u].status = "pending_role",
                                ![u].signin = TRUE]
      /\ activations' = [activations EXCEPT ![u] = later]
      /\ codes' = codes /\ teachers' = teachers /\ desks' = desks
      /\ guests' = guests /\ reverified' = reverified /\ users[u].verified
  BY DEF Resubmit
<1>3. /\ users' \in [Accounts -> User]
      /\ users'[u].status = "pending_role" /\ users'[u].signin = TRUE /\ users'[u].verified
      /\ \A t \in Accounts \ {u} : users'[t] = users[t]
  <2> DEFINE row == [users[u] EXCEPT !.active = "pending", !.status = "pending_role",
                                     !.signin = TRUE]
  <2>1. users[u] \in User
    BY <1>1 DEF AccountTypeOK
  <2>2. /\ row \in User /\ row.status = "pending_role" /\ row.signin = TRUE
        /\ row.verified
    BY <1>2, <2>1 DEF User, UserStatus
  <2>3. users' = [users EXCEPT ![u] = row]
    BY <1>1, <1>2 DEF AccountTypeOK
  <2> HIDE DEF row
  <2> QED
    BY <1>1, <2>2, <2>3, ChangedRow
<1>4. /\ activations' \in [Accounts -> Seq(Activation)]
      /\ later \in Seq(Activation) /\ Len(later) = Len(activations[u]) + 1
      /\ Len(later) <= MaxAccountRequests /\ later # << >>
      /\ DOMAIN activations[u] = 1 .. Len(activations[u])
      /\ DOMAIN later = 1 .. Len(activations[u]) + 1
      /\ \A i \in DOMAIN activations[u] : later[i] = activations[u][i]
      /\ later[Len(activations[u]) + 1] = "pending"
  BY <1>1, <1>2, AppendedRequest
<1> HIDE DEF later
<1>5. activations'[u] = later /\ \A t \in Accounts \ {u} : activations'[t] = activations[t]
  BY <1>1, <1>2 DEF AccountTypeOK
<1>6. AccountTypeOK'
  <2>1. \A t \in Accounts : Len(activations'[t]) <= MaxAccountRequests
    BY <1>1, <1>4, <1>5 DEF AccountTypeOK
  <2> QED
    BY <1>1, <1>2, <1>3, <1>4, <2>1 DEF AccountTypeOK
<1>7. Len(activations[u]) \in DOMAIN activations[u]
  BY <1>1, <1>2, <1>4 DEF AccountTypeOK
<1>8. \A i \in DOMAIN activations[u] : ~Counts(u, activations[u][i])
  BY <1>1, <1>2, <1>7 DEF RequestsHold, NewestCounts, Newest, Counts
<1>9. RequestsHold'
  <2>1. \A i \in DOMAIN later : Counts(u, later[i]) => i = Len(later)
    <3> TAKE i \in DOMAIN later
    <3>1. CASE i \in DOMAIN activations[u]
      BY <3>1, <1>4, <1>8
    <3>2. CASE i \notin DOMAIN activations[u]
      BY <3>2, <1>4
    <3> QED
      BY <3>1, <3>2
  <2>2. Granted(u)' <=> Granted(u)
    BY <1>4, <1>5 DEF Granted
  <2>3. /\ u \in teachers => Granted(u)
        /\ u \notin reverified /\ Granted(u) => u \in teachers
    BY <1>1 DEF RequestsHold, TeachersAreApproved
  <2>4. \A i \in DOMAIN activations'[u] :
          Counts(u, activations[u][i])' => i = Len(activations'[u])
    BY <1>2, <1>5, <2>1 DEF Counts
  <2> QED
    BY <1>1, <1>2, <1>3, <1>5, <1>6, <2>2, <2>3, <2>4, RequestsStayInOrder
<1>11. GuardsHold' /\ GuestsNameAccounts'
  BY <1>1, <1>2, <1>3, GuestsStay DEF GuardsHold
<1>12. RemovesLastRightly /\ LocksOutRightly
  <2>1. Len(activations'[u]) > Len(activations[u])
    BY <1>1, <1>4, <1>5 DEF AccountTypeOK
  <2> QED
    BY <1>3, <2>1, OneRow DEF LockedOut
<1> QED
  BY <1>6, <1>9, <1>11, <1>12 DEF Keeps, AccountInv

\* Steps that write no user row remove and lock out nobody.
LEMMA NoRow ==
  ASSUME users' = users
  PROVE  RemovesLastRightly /\ LocksOutRightly
BY DEF RemovesLastRightly, LocksOutRightly, ActiveAdmins, LockedOut

\* Codes come and go, and guests read: no row and no request changes.
LEMMA CodesKeep ==
  ASSUME AccountInv,
         \/ \E u \in Accounts : CodeExpires(u)
         \/ \E g \in Guests :
              \/ ClearCodes(g) \/ ResendCode(g)
              \/ \E u \in Accounts : FindUnverified(g, u) \/ LockCode(g, u)
  PROVE  Keeps
<1>1. /\ AccountTypeOK /\ RequestsHold /\ GuardsHold /\ GuestsNameAccounts
      /\ codes \in [Accounts -> Code]
  BY DEF AccountInv, AccountTypeOK
<1> DEFINE Busy == [step : {"found", "cleared", "verifying"}, user : Accounts]
<1>2. guests \in [Guests -> {IdleGuest} \cup Busy]
  BY <1>1 DEF AccountTypeOK
<1>a. /\ UNCHANGED <<users, activations, teachers, desks, reverified>>
      /\ codes' \in [Accounts -> Code] /\ guests' \in [Guests -> {IdleGuest} \cup Busy]
      /\ \A u \in Accounts : codes'[u] # codes[u] => users[u].status # "absent"
      /\ \A g \in Guests : guests'[g].step # "idle" => users[guests'[g].user].status # "absent"
  <2>1. ASSUME NEW u \in Accounts, CodeExpires(u) PROVE <1>a
    BY <1>1, <1>2, <2>1
       DEF CodeExpires, Code, RequestsHold, RequestsFollowCodes, GuestsNameAccounts
  <2>2. ASSUME NEW g \in Guests, ClearCodes(g) PROVE <1>a
    <3>1. /\ guests[g] \in Busy /\ guests[g].step # "idle"
          /\ users[guests[g].user].status # "absent"
      BY <1>1, <1>2, <2>2 DEF ClearCodes, IdleGuest, GuestsNameAccounts
    <3>2. PICK u \in Accounts : u = guests[g].user
      BY <3>1
    <3>3. /\ UNCHANGED <<users, activations, teachers, desks, reverified>>
          /\ codes' = [codes EXCEPT ![u] = IF @ = "pending" THEN "void" ELSE @]
          /\ guests' = [guests EXCEPT ![g].step = "cleared"]
      BY <2>2, <3>2 DEF ClearCodes
    <3>4. codes' \in [Accounts -> Code] /\ \A t \in Accounts \ {u} : codes'[t] = codes[t]
      BY <1>1, <3>3 DEF Code
    <3>5. [guests[g] EXCEPT !.step = "cleared"] \in Busy
      BY <3>1
    <3>6. /\ guests' \in [Guests -> {IdleGuest} \cup Busy]
          /\ guests'[g].user = u
          /\ \A h \in Guests \ {g} : guests'[h] = guests[h]
      BY <1>2, <3>1, <3>2, <3>3, <3>5
    <3> QED
      BY <1>1, <3>1, <3>2, <3>3, <3>4, <3>6 DEF GuestsNameAccounts
  <2>3. ASSUME NEW g \in Guests, ResendCode(g) PROVE <1>a
    <3>1. /\ guests[g] \in Busy /\ guests[g].step # "idle"
          /\ users[guests[g].user].status # "absent"
      BY <1>1, <1>2, <2>3 DEF ResendCode, IdleGuest, GuestsNameAccounts
    <3>2. PICK u \in Accounts : u = guests[g].user
      BY <3>1
    <3> QED
      BY <1>1, <1>2, <2>3, <3>1, <3>2 DEF ResendCode, Code, GuestsNameAccounts, IdleGuest
  <2>4. ASSUME NEW g \in Guests, NEW u \in Accounts, FindUnverified(g, u) PROVE <1>a
    BY <1>1, <1>2, <2>4 DEF FindUnverified, GuestsNameAccounts
  <2>5. ASSUME NEW g \in Guests, NEW u \in Accounts, LockCode(g, u) PROVE <1>a
    <3>1. users[u].status # "absent"
      BY <1>1, <2>5 DEF LockCode, RequestsHold, RequestsFollowCodes
    <3> QED
      BY <1>1, <1>2, <2>5, <3>1 DEF LockCode, Code, GuestsNameAccounts
  <2> QED
    BY <2>1, <2>2, <2>3, <2>4, <2>5
<1>5. AccountTypeOK'
  BY <1>1, <1>a DEF AccountTypeOK
<1>6. RequestsHold'
  <2>1. NewestCounts' /\ TeachersAreApproved'
    BY <1>1, <1>a DEF RequestsHold, NewestCounts, TeachersAreApproved, Counts, Granted
  <2>2. RequestsFollowCodes'
    BY <1>1, <1>a DEF RequestsHold, RequestsFollowCodes
  <2> QED
    BY <2>1, <2>2 DEF RequestsHold
<1>7. GuardsHold' /\ GuestsNameAccounts'
  BY <1>1, <1>a DEF GuardsHold, GuestsNameAccounts
<1> QED
  BY <1>a, <1>5, <1>6, <1>7, NoRow DEF Keeps, AccountInv

\* What one more request makes of those of an account that has none pending.
LEMMA OneMorePending ==
  ASSUME AccountInv, NEW u \in Accounts, ~HasPending(u),
         Len(activations[u]) < MaxAccountRequests,
         activations' = [activations EXCEPT ![u] = Append(activations[u], "pending")]
  PROVE  /\ activations' \in [Accounts -> Seq(Activation)]
         /\ \A t \in Accounts \ {u} : activations'[t] = activations[t]
         /\ Len(activations'[u]) <= MaxAccountRequests
         /\ \A i \in DOMAIN activations'[u] :
              \/ i = Len(activations'[u])
              \/ /\ i \in DOMAIN activations[u] /\ activations'[u][i] = activations[u][i]
                 /\ activations[u][i] # "pending"
         /\ Granted(u)' <=> Granted(u)
<1> DEFINE later == Append(activations[u], "pending")
<1>1. AccountTypeOK
  BY DEF AccountInv
<1>2. /\ activations' \in [Accounts -> Seq(Activation)]
      /\ Len(later) = Len(activations[u]) + 1
      /\ Len(later) <= MaxAccountRequests
      /\ DOMAIN activations[u] = 1 .. Len(activations[u])
      /\ DOMAIN later = 1 .. Len(activations[u]) + 1
      /\ \A i \in DOMAIN activations[u] : later[i] = activations[u][i]
      /\ later[Len(activations[u]) + 1] = "pending"
  BY <1>1, AppendedRequest
<1>3. activations'[u] = later /\ \A t \in Accounts \ {u} : activations'[t] = activations[t]
  BY <1>1 DEF AccountTypeOK
<1>4. Len(activations[u]) \in Nat
  BY <1>1, LenProperties DEF AccountTypeOK
<1> HIDE DEF later
<1>5. \A i \in DOMAIN later : i = Len(later) \/ i \in DOMAIN activations[u]
  BY <1>2, <1>4
<1>6. \A i \in DOMAIN activations[u] : activations[u][i] # "pending"
  BY DEF HasPending
<1>7. Granted(u)' <=> Granted(u)
  <2>1. Len(activations[u]) + 1 \in DOMAIN later
    BY <1>2, <1>4
  <2>2. \A i \in DOMAIN activations[u] : i \in DOMAIN later
    BY <1>2, <1>4
  <2> QED
    BY <1>2, <1>3, <1>5, <2>1, <2>2 DEF Granted
<1> QED
  BY <1>2, <1>3, <1>5, <1>6, <1>7

\* verify_email: the account becomes active or waits for its role.  An account
\* that is verified for the first time has asked for none yet.
LEMMA VerifyKeeps ==
  ASSUME AccountInv, NEW g \in Guests, NEW u \in Accounts, VerifyEmail(g, u)
  PROVE  Keeps
<1> DEFINE status == IF users[u].requested = "student" THEN "active" ELSE "pending_role"
           active == IF users[u].requested = "student" THEN "student" ELSE "pending"
           row    == [users[u] EXCEPT !.verified = TRUE, !.active = active,
                                      !.status = status]
<1>1. AccountTypeOK /\ RequestsHold /\ GuardsHold /\ GuestsNameAccounts
  BY DEF AccountInv
<1>2. users[u] \in User /\ users \in [Accounts -> User]
  BY <1>1 DEF AccountTypeOK
<1>3. /\ Verifying(g, u) /\ guests' = [guests EXCEPT ![g] = IdleGuest]
      /\ codes' = codes /\ teachers' = teachers /\ desks' = desks
      /\ users' = [users EXCEPT ![u] = row]
      /\ reverified' = IF users[u].verified THEN reverified \cup {u} ELSE reverified
  BY <1>2 DEF VerifyEmail
<1>4. /\ row \in User /\ row.status = status /\ row.signin = users[u].signin
      /\ row.verified /\ status \in {"active", "pending_role"}
  BY <1>2 DEF User, UserStatus
<1> HIDE DEF row, status
<1>5. /\ users' \in [Accounts -> User] /\ users'[u] = row
      /\ \A t \in Accounts \ {u} : users'[t] = users[t]
  BY <1>1, <1>3, <1>4, ChangedRow
<1>6. users[u].status # "absent"
  BY <1>1, <1>3 DEF GuestsNameAccounts, Verifying
<1>7. u \notin reverified' => activations[u] = << >> /\ u \notin teachers /\ ~Granted(u)
  BY <1>1, <1>3 DEF RequestsHold, RequestsFollowCodes, TeachersAreApproved, Granted
<1>8. \/ activations' = activations
      \/ /\ ~HasPending(u) /\ Len(activations[u]) < MaxAccountRequests
         /\ activations' = [activations EXCEPT ![u] = Append(activations[u], "pending")]
  BY <1>1 DEF VerifyEmail, AccountTypeOK
<1>9. /\ activations' \in [Accounts -> Seq(Activation)]
      /\ \A t \in Accounts \ {u} : activations'[t] = activations[t]
      /\ Len(activations'[u]) <= MaxAccountRequests
      /\ \A i \in DOMAIN activations'[u] :
           Counts(u, activations[u][i])' => i = Len(activations'[u])
      /\ Granted(u)' <=> Granted(u)
  <2>1. CASE activations' = activations
    <3>1. \A i \in DOMAIN activations[u] :
            activations[u][i] = "pending" => i = Len(activations[u])
      BY <1>1 DEF RequestsHold, NewestCounts, Counts
    <3>2. u \notin reverified' => DOMAIN activations[u] = {}
      BY <1>7
    <3> QED
      BY <1>1, <2>1, <3>1, <3>2 DEF AccountTypeOK, Counts, Granted
  <2>2. CASE /\ ~HasPending(u) /\ Len(activations[u]) < MaxAccountRequests
             /\ activations' = [activations EXCEPT ![u] = Append(activations[u], "pending")]
    <3>1. u \notin reverified' => DOMAIN activations[u] = {}
      BY <1>7
    <3>2. /\ activations' \in [Accounts -> Seq(Activation)]
          /\ \A t \in Accounts \ {u} : activations'[t] = activations[t]
          /\ Len(activations'[u]) <= MaxAccountRequests
          /\ \A i \in DOMAIN activations'[u] :
               \/ i = Len(activations'[u])
               \/ /\ i \in DOMAIN activations[u] /\ activations'[u][i] = activations[u][i]
                  /\ activations[u][i] # "pending"
          /\ Granted(u)' <=> Granted(u)
      BY <2>2, OneMorePending
    <3>3. \A i \in DOMAIN activations'[u] :
            Counts(u, activations[u][i])' => i = Len(activations'[u])
      BY <3>1, <3>2 DEF Counts
    <3> QED
      BY <3>2, <3>3
  <2> QED
    BY <1>8, <2>1, <2>2
<1>10. /\ guests' \in [Guests -> {IdleGuest} \cup
                        [step : {"found", "cleared", "verifying"}, user : Accounts]]
       /\ guests'[g] = IdleGuest /\ \A h \in Guests \ {g} : guests'[h] = guests[h]
  BY <1>1, <1>3 DEF AccountTypeOK
<1>11. AccountTypeOK'
  BY <1>1, <1>3, <1>5, <1>9, <1>10 DEF AccountTypeOK
<1>12. RequestsHold'
  <2>1. u \in teachers => Granted(u)
    BY <1>1 DEF RequestsHold, TeachersAreApproved
  <2>2. \A t \in Accounts \ {u} : t \in reverified' <=> t \in reverified
    BY <1>3
  <2> QED
    BY <1>1, <1>3, <1>4, <1>5, <1>7, <1>9, <1>11, <2>1, <2>2, RequestsStayInOrder
<1>13. GuardsHold' /\ GuestsNameAccounts'
  <2>1. ASSUME NEW h \in Guests, guests'[h].step # "idle"
        PROVE  users'[guests'[h].user].status # "absent"
    <3>1. h # g /\ guests'[h] = guests[h] /\ guests[h].user \in Accounts
      BY <1>1, <1>10, <2>1 DEF AccountTypeOK, IdleGuest
    <3> QED
      BY <1>1, <1>4, <1>5, <2>1, <3>1 DEF GuestsNameAccounts
  <2> QED
    BY <1>1, <1>3, <2>1 DEF GuardsHold, GuestsNameAccounts
<1>14. RemovesLastRightly /\ LocksOutRightly
  <2>1. Verifies(u)
    BY <1>3, <1>10 DEF Verifies
  <2>2. LockedOut(u)' /\ ~LockedOut(u) => users[u].status \in {"suspended", "archived"}
    BY <1>2, <1>4, <1>5, <1>6 DEF LockedOut, User, UserStatus
  <2> QED
    BY <1>5, <2>1, <2>2, OneRow
<1> QED
  BY <1>11, <1>12, <1>13, <1>14 DEF Keeps, AccountInv

LEMMA AdmittedBySomebody ==
  ASSUME AccountTypeOK, NEW k \in Desks, desks[k].step = "admitted"
  PROVE  desks[k].by \in Accounts
BY DEF AccountTypeOK, IdleDesk

\* Another account than the applicant's decides; if it no longer administers, the
\* decision counts as a stale one.
LEMMA DecisionKeeps ==
  ASSUME AccountInv, NEW k \in Desks, NEW u \in Accounts, NEW i \in 1 .. MaxAccountRequests,
         \/ Approve(k, u, i) \/ Revoke(k, u, i)
         \/ \E answer \in {"rejected", "expired"} : Decline(k, u, i, answer)
  PROVE  Keeps
<1>1. AccountTypeOK /\ RequestsHold /\ GuardsHold
  BY DEF AccountInv
<1>2. users[u] \in User /\ users \in [Accounts -> User]
  BY <1>1 DEF AccountTypeOK
<1> DEFINE Answered(answer, row) ==
      /\ i \in DOMAIN activations[u]
      /\ activations[u][i] \in {"pending", "approved"} /\ activations[u][i] # answer
      /\ answer # "revoked" => activations[u][i] = "pending"
      /\ desks[k].step = "admitted" /\ desks[k].by # u
      /\ activations' = [activations EXCEPT ![u][i] = answer]
      /\ desks' = [desks EXCEPT ![k] = IdleDesk]
      /\ codes' = codes /\ guests' = guests /\ reverified' = reverified
      /\ teachers' = IF answer = "approved" THEN teachers \cup {u}
                     ELSE IF answer = "revoked" THEN teachers \ {u} ELSE teachers
      /\ users' = [users EXCEPT ![u] = row]
      /\ row.status \in {users[u].status, "active", "pending_role"}
      /\ row.signin = users[u].signin /\ row.verified = users[u].verified
<1>a. \E answer \in Activation \ {"pending"}, row \in User : Answered(answer, row)
  <2>1. ASSUME Approve(k, u, i) PROVE <1>a
    <3> DEFINE approved == [users[u] EXCEPT !.active = "teacher", !.role = "advisor",
                                            !.status = "active"]
    <3>1. /\ approved \in User /\ approved.status = "active"
          /\ approved.signin = users[u].signin /\ approved.verified = users[u].verified
      BY <1>2 DEF User, UserStatus, GlobalRole
    <3>2. users' = [users EXCEPT ![u] = approved]
      BY <1>2, <2>1 DEF Approve
    <3> HIDE DEF approved
    <3>3. Answered("approved", approved)
      BY <2>1, <3>1, <3>2 DEF Approve, Reviewable, AnswerRequest
    <3> QED
      BY <3>1, <3>3 DEF Activation
  <2>2. ASSUME Revoke(k, u, i) PROVE <1>a
    <3> DEFINE revoked == [users[u] EXCEPT !.active = "pending", !.status = "pending_role"]
    <3>1. /\ revoked \in User /\ revoked.status = "pending_role"
          /\ revoked.signin = users[u].signin /\ revoked.verified = users[u].verified
      BY <1>2 DEF User, UserStatus
    <3>2. users' = [users EXCEPT ![u] = revoked]
      BY <1>2, <2>2 DEF Revoke
    <3> HIDE DEF revoked
    <3>3. Answered("revoked", revoked)
      BY <2>2, <3>1, <3>2 DEF Revoke, Reviewable, AnswerRequest
    <3> QED
      BY <3>1, <3>3 DEF Activation
  <2>3. ASSUME NEW a \in {"rejected", "expired"}, Decline(k, u, i, a) PROVE <1>a
    <3>1. users' = [users EXCEPT ![u] = users[u]]
      BY <1>2, <2>3 DEF Decline
    <3>2. Answered(a, users[u])
      BY <2>3, <3>1 DEF Decline, Reviewable, AnswerRequest
    <3> QED
      BY <1>2, <3>2 DEF Activation
  <2> QED
    BY <2>1, <2>2, <2>3
<1>3. PICK answer \in Activation \ {"pending"}, row \in User : Answered(answer, row)
  BY <1>a
<1> DEFINE later == [activations[u] EXCEPT ![i] = answer]
<1>4. /\ activations' = [activations EXCEPT ![u] = later]
      /\ activations' \in [Accounts -> Seq(Activation)]
      /\ Len(later) = Len(activations[u]) /\ later # << >> /\ activations[u] # << >>
      /\ DOMAIN later = DOMAIN activations[u]
      /\ later[i] = answer
      /\ \A j \in DOMAIN activations[u] \ {i} : later[j] = activations[u][j]
  BY <1>1, <1>3, DecidedRequest
<1> HIDE DEF later
<1>5. activations'[u] = later /\ \A t \in Accounts \ {u} : activations'[t] = activations[t]
  BY <1>1, <1>4 DEF AccountTypeOK
<1>6. /\ users' \in [Accounts -> User] /\ users'[u] = row
      /\ \A t \in Accounts \ {u} : users'[t] = users[t]
  BY <1>1, <1>3, ChangedRow
<1>7. users[u].verified /\ users[u].status \notin {"absent", "pending_email"}
  BY <1>1, <1>4 DEF RequestsHold, RequestsFollowCodes
<1>8. answer \in {"approved", "revoked", "rejected", "expired"}
  BY DEF Activation
<1>9. AccountTypeOK'
  <2>1. \A t \in Accounts : Len(activations'[t]) <= MaxAccountRequests
    BY <1>1, <1>4, <1>5 DEF AccountTypeOK
  <2>2. teachers' \subseteq Accounts
    BY <1>1, <1>3 DEF AccountTypeOK
  <2> QED
    BY <1>1, <1>3, <1>4, <1>6, <2>1, <2>2 DEF AccountTypeOK
<1>10. \A j \in DOMAIN activations'[u] :
         Counts(u, activations[u][j])' => j = Len(activations'[u])
  <2>1. u \notin reverified => i = Len(activations[u])
    BY <1>1, <1>3 DEF RequestsHold, NewestCounts, Counts
  <2>2. \A j \in DOMAIN activations[u] :
          Counts(u, activations[u][j]) => j = Len(activations[u])
    BY <1>1 DEF RequestsHold, NewestCounts
  <2> QED
    BY <1>3, <1>4, <1>5, <2>1, <2>2 DEF Counts
<1>11. /\ u \in teachers' => Granted(u)'
       /\ u \notin reverified' /\ Granted(u)' => u \in teachers'
  <2>1. CASE answer = "approved"
    BY <1>3, <1>4, <1>5, <2>1 DEF Granted
  <2>2. CASE answer = "revoked"
    <3>1. u \notin reverified => \A j \in DOMAIN activations[u] :
            activations[u][j] \in {"pending", "approved"} => j = Len(activations[u])
      BY <1>1 DEF RequestsHold, NewestCounts, Counts
    <3>2. u \notin reverified => ~Granted(u)'
      BY <1>3, <1>4, <1>5, <2>2, <3>1 DEF Granted
    <3> QED
      BY <1>3, <2>2, <3>2
  <2>3. CASE answer \in {"rejected", "expired"}
    <3>1. activations[u][i] = "pending"
      BY <1>3, <2>3
    <3>2. Granted(u)' <=> Granted(u)
      BY <1>3, <1>4, <1>5, <2>3, <3>1 DEF Granted
    <3> QED
      BY <1>1, <1>3, <2>3, <3>2 DEF RequestsHold, TeachersAreApproved
  <2> QED
    BY <1>8, <2>1, <2>2, <2>3
<1>12. \A t \in Accounts \ {u} : t \in teachers' <=> t \in teachers
  BY <1>3
<1>13. RequestsHold'
  <2>1. row.status \notin {"absent", "pending_email"} /\ row.verified
    BY <1>3, <1>7
  <2> QED
    BY <1>1, <1>3, <1>5, <1>6, <1>7, <1>9, <1>10, <1>11, <1>12, <2>1, RequestsStayInOrder
<1>14. GuardsHold' /\ GuestsNameAccounts'
  <2>1. desks'[k] = IdleDesk /\ \A j \in Desks \ {k} : desks'[j] = desks[j]
    BY <1>1, <1>3 DEF AccountTypeOK
  <2>2. GuardsHold'
    BY <1>1, <2>1 DEF GuardsHold, IdleDesk, FoundAnotherAdmin
  <2>3. users'[u].status # "absent"
    BY <1>3, <1>6, <1>7
  <2> QED
    BY <1>3, <1>6, <2>2, <2>3, GuestsStay
<1>15. RemovesLastRightly /\ LocksOutRightly
  <2>1. \/ StaleDesk(k) /\ desks'[k] = IdleDesk
        \/ \E r \in Accounts \ {u} : r \in ActiveAdmins
    <3>1. desks[k].by \in Accounts
      BY <1>1, <1>3, AdmittedBySomebody
    <3>2. desks'[k] = IdleDesk
      BY <1>1, <1>3 DEF AccountTypeOK
    <3>3. StaleDesk(k) <=> desks[k].by \notin ActiveAdmins
      BY <1>3 DEF StaleDesk
    <3> QED
      BY <1>3, <3>1, <3>2, <3>3
  <2>2. activations'[u] # activations[u]
    BY <1>3, <1>4, <1>5
  <2>3. LockedOut(u)' /\ ~LockedOut(u) => users[u].status \in {"suspended", "archived"}
    BY <1>2, <1>3, <1>6, <1>7 DEF LockedOut, User, UserStatus
  <2> QED
    BY <1>6, <2>1, <2>2, <2>3, OneRow
<1> QED
  BY <1>9, <1>13, <1>14, <1>15 DEF Keeps, AccountInv

\* Admission, the view and the guard only read.
LEMMA ReadingKeeps ==
  ASSUME AccountInv, NEW k \in Desks,
         \/ \E u \in Accounts : AdmitAdministrator(k, u) \/ OpenAccount(k, u)
         \/ \E edit \in Edit : PassGuard(k, edit)
  PROVE  Keeps
<1>1. AccountTypeOK /\ RequestsHold /\ GuardsHold
  BY DEF AccountInv
<1> DEFINE Open    == [step : {"admitted"}, by : Accounts]
                        \cup [step : {"open"}, user : Accounts, row : Read]
           Guarded == [step : {"guarded"}, user : Accounts, row : Read, edit : Edit,
                       seen : SUBSET Accounts]
<1>a. \E desk \in Open \cup Guarded :
        /\ desks' = [desks EXCEPT ![k] = desk]
        /\ UNCHANGED <<users, codes, activations, teachers, guests, reverified>>
        /\ desk.step = "guarded" => FoundAnotherAdmin(desk)
  <2>1. ASSUME NEW u \in Accounts, OpenAccount(k, u) PROVE <1>a
    <3> DEFINE desk == [step |-> "open", user |-> u, row |-> RowRead(u)]
    <3>1. desk \in Open /\ desk.step = "open"
      BY <1>1 DEF AccountTypeOK, RowRead, Read, User
    <3>2. /\ desks' = [desks EXCEPT ![k] = desk]
          /\ UNCHANGED <<users, codes, activations, teachers, guests, reverified>>
      BY <2>1 DEF OpenAccount
    <3> QED
      BY <3>1, <3>2
  <2>2. ASSUME NEW edit \in Edit, PassGuard(k, edit) PROVE <1>a
    <3> DEFINE desk == [step |-> "guarded", user |-> desks[k].user, row |-> desks[k].row,
                        edit |-> edit, seen |-> ActiveAdmins]
    <3>1. desks[k].user \in Accounts /\ desks[k].row \in Read
      BY <1>1, <2>2 DEF PassGuard, AccountTypeOK, IdleDesk
    <3>2. desk \in Guarded
      BY <3>1 DEF ActiveAdmins
    <3>3. /\ desks' = [desks EXCEPT ![k] = desk]
          /\ UNCHANGED <<users, codes, activations, teachers, guests, reverified>>
      BY <1>1, <2>2 DEF PassGuard, AccountTypeOK
    <3>4. FoundAnotherAdmin(desk)
      BY <2>2 DEF PassGuard, GuardLastAdmin, FoundAnotherAdmin
    <3> QED
      BY <3>2, <3>3, <3>4
  <2>3. ASSUME NEW a \in Accounts, AdmitAdministrator(k, a) PROVE <1>a
    <3> DEFINE desk == [step |-> "admitted", by |-> a]
    <3>1. desk \in Open /\ desk.step = "admitted"
      OBVIOUS
    <3>2. /\ desks' = [desks EXCEPT ![k] = desk]
          /\ UNCHANGED <<users, codes, activations, teachers, guests, reverified>>
      BY <2>3 DEF AdmitAdministrator
    <3> QED
      BY <3>1, <3>2
  <2> QED
    BY <2>1, <2>2, <2>3
<1>2. PICK desk \in Open \cup Guarded :
        /\ desks' = [desks EXCEPT ![k] = desk]
        /\ UNCHANGED <<users, codes, activations, teachers, guests, reverified>>
        /\ desk.step = "guarded" => FoundAnotherAdmin(desk)
  BY <1>a
<1>3. AccountTypeOK' /\ desks'[k] = desk /\ \A j \in Desks \ {k} : desks'[j] = desks[j]
  BY <1>1, <1>2 DEF AccountTypeOK
<1>4. RequestsHold'
  BY <1>1, <1>2 DEF RequestsHold, NewestCounts, TeachersAreApproved, RequestsFollowCodes,
                    Counts, Granted
<1>5. GuardsHold' /\ GuestsNameAccounts'
  BY <1>1, <1>2, <1>3 DEF GuardsHold, GuestsNameAccounts, AccountInv, FoundAnotherAdmin
<1> QED
  BY <1>2, <1>3, <1>4, <1>5, NoRow DEF Keeps, AccountInv

\* Whoever is not the only one among several leaves another.
LEMMA AnotherOne ==
  ASSUME NEW u, NEW S \in SUBSET Accounts, Cardinality(S) > 1
  PROVE  \E r \in S : r # u
<1> SUFFICES ASSUME \A r \in S : r = u PROVE FALSE
  OBVIOUS
<1>1. S = {} \/ S = {u}
  OBVIOUS
<1>2. Cardinality(S) = 0 \/ Cardinality(S) = 1
  BY <1>1, FS_EmptySet, FS_Singleton
<1> QED
  BY <1>2

\* What a request on the page saves of the account it has read.  A request that
\* is not outdated leaves an administrator.
LEMMA SavingKeeps ==
  ASSUME AccountInv, NEW k \in Desks,
         SaveAccount(k) \/ RenameAccount(k) \/ ReactivateAccount(k)
  PROVE  Keeps
<1>1. AccountTypeOK /\ RequestsHold /\ GuardsHold
  BY DEF AccountInv
<1>2. /\ desks[k].step \in {"open", "guarded"} /\ desks' = [desks EXCEPT ![k] = IdleDesk]
      /\ UNCHANGED <<codes, activations, teachers, guests, reverified>>
  BY DEF SaveAccount, RenameAccount, ReactivateAccount
<1>3. /\ desks[k].user \in Accounts /\ desks[k].row \in Read
      /\ desks[k].step = "guarded" => desks[k].edit \in Edit /\ desks[k].seen \in SUBSET Accounts
  BY <1>1, <1>2 DEF AccountTypeOK, IdleDesk
<1>5. PICK u \in Accounts : u = desks[k].user
  BY <1>3
<1> DEFINE old == users[u]
<1>4. old \in User /\ users \in [Accounts -> User]
  BY <1>1, <1>3 DEF AccountTypeOK
<1>6. desks[k].step = "guarded" =>
        \/ StaleDesk(k) \/ old.role # "admin"
        \/ desks[k].edit.kind = "role" /\ desks[k].edit.role = "admin"
        \/ \E r \in Accounts \ {u} : r \in ActiveAdmins
  <2> SUFFICES ASSUME desks[k].step = "guarded", ~StaleDesk(k), old.role = "admin",
                      ~(desks[k].edit.kind = "role" /\ desks[k].edit.role = "admin")
               PROVE  \E r \in Accounts \ {u} : r \in ActiveAdmins
    OBVIOUS
  <2>1. old.role = desks[k].row.role /\ desks[k].seen = ActiveAdmins
    BY <1>5 DEF StaleDesk, RowRead
  <2>2. Cardinality(ActiveAdmins) > 1
    BY <1>1, <2>1 DEF GuardsHold, FoundAnotherAdmin
  <2> QED
    BY <2>2, AnotherOne DEF ActiveAdmins
<1>a. \E row \in User :
        /\ users' = [users EXCEPT ![u] = row] /\ row.verified = old.verified
        /\ row.status \in {old.status, "suspended", "archived", "active"}
        /\ \/ row.signin \/ row.status \in {"suspended", "archived"}
           \/ row.status = old.status /\ row.signin = old.signin
        /\ old.status = "active" /\ old.role = "admin"
             /\ ~(row.status = "active" /\ row.role = "admin") =>
               StaleDesk(k) \/ \E r \in Accounts \ {u} : r \in ActiveAdmins
  <2>1. CASE RenameAccount(k)
    <3> DEFINE row == [old EXCEPT !.role = desks[k].row.role]
    <3>1. /\ row \in User /\ row.status = old.status /\ row.signin = old.signin
          /\ row.role = desks[k].row.role /\ row.verified = old.verified
      BY <1>3, <1>4 DEF User, Read
    <3>2. users' = [users EXCEPT ![u] = row]
      BY <1>3, <1>4, <1>5, <2>1 DEF RenameAccount
    <3> HIDE DEF row
    <3>3. row.role = old.role \/ StaleDesk(k)
      <4>1. desks[k].step = "open"
        BY <2>1 DEF RenameAccount
      <4>2. StaleDesk(k) <=> desks[k].row # [status |-> old.status, role |-> old.role]
        BY <1>5, <4>1 DEF StaleDesk, RowRead
      <4> QED
        BY <3>1, <4>2
    <3> QED
      BY <3>1, <3>2, <3>3
  <2>2. CASE ReactivateAccount(k)
    <3> DEFINE row == [old EXCEPT !.status = "active", !.signin = TRUE]
    <3>1. /\ row \in User /\ row.status = "active" /\ row.signin = TRUE /\ row.role = old.role
          /\ row.verified = old.verified
      BY <1>4 DEF User, UserStatus
    <3>2. users' = [users EXCEPT ![u] = row]
      BY <1>3, <1>4, <1>5, <2>2 DEF ReactivateAccount
    <3> HIDE DEF row
    <3> QED
      BY <3>1, <3>2
  <2>3. CASE SaveAccount(k) /\ desks[k].edit.kind = "role"
    <3> DEFINE row == [old EXCEPT !.role = desks[k].edit.role]
    <3>1. desks[k].step = "guarded" /\ desks[k].edit.role \in GlobalRole
      BY <1>3, <2>3 DEF SaveAccount, Edit
    <3>2. /\ row \in User /\ row.status = old.status /\ row.signin = old.signin
          /\ row.role = desks[k].edit.role /\ row.verified = old.verified
      BY <1>4, <3>1 DEF User
    <3>3. users' = [users EXCEPT ![u] = row]
      BY <1>3, <1>4, <1>5, <2>3 DEF SaveAccount
    <3> HIDE DEF row
    <3> QED
      BY <1>6, <2>3, <3>1, <3>2, <3>3
  <2>4. CASE SaveAccount(k) /\ desks[k].edit.kind # "role"
    <3>1. /\ desks[k].step = "guarded"
          /\ desks[k].edit.kind = "suspend" \/ desks[k].edit.kind = "archive"
      BY <1>3, <2>4 DEF SaveAccount, Edit
    <3> DEFINE status == IF desks[k].edit.kind = "suspend" THEN "suspended" ELSE "archived"
               row    == [old EXCEPT !.status = status, !.signin = FALSE]
    <3>2. /\ row \in User /\ row.status = status /\ row.signin = FALSE
          /\ row.verified = old.verified
      BY <1>4 DEF User, UserStatus
    <3>3. users' = [users EXCEPT ![u] = row]
      BY <1>3, <1>4, <1>5, <2>4, <3>1 DEF SaveAccount
    <3>4. row.status \in {"suspended", "archived"}
      BY <3>2
    <3> HIDE DEF row
    <3> QED
      BY <1>6, <2>4, <3>1, <3>2, <3>3, <3>4
  <2> QED
    BY <1>2, <2>1, <2>2, <2>3, <2>4
<1>7. PICK row \in User :
        /\ users' = [users EXCEPT ![u] = row] /\ row.verified = old.verified
        /\ row.status \in {old.status, "suspended", "archived", "active"}
        /\ \/ row.signin \/ row.status \in {"suspended", "archived"}
           \/ row.status = old.status /\ row.signin = old.signin
        /\ old.status = "active" /\ old.role = "admin"
             /\ ~(row.status = "active" /\ row.role = "admin") =>
               StaleDesk(k) \/ \E r \in Accounts \ {u} : r \in ActiveAdmins
  BY <1>a
<1>8. /\ users' \in [Accounts -> User] /\ users'[u] = row
      /\ \A t \in Accounts \ {u} : users'[t] = users[t]
  BY <1>1, <1>3, <1>5, <1>7, ChangedRow
<1>9. AccountTypeOK' /\ desks'[k] = IdleDesk /\ \A j \in Desks \ {k} : desks'[j] = desks[j]
  BY <1>1, <1>2, <1>8 DEF AccountTypeOK
<1>10. RequestsHold'
  <2>1. NewestCounts' /\ TeachersAreApproved'
    BY <1>1, <1>2 DEF RequestsHold, NewestCounts, TeachersAreApproved, Counts, Granted
  <2>2. RequestsFollowCodes'
    BY <1>1, <1>2, <1>7, <1>8 DEF RequestsHold, RequestsFollowCodes
  <2> QED
    BY <2>1, <2>2 DEF RequestsHold
<1>11. GuardsHold' /\ GuestsNameAccounts'
  <2>1. GuardsHold'
    BY <1>1, <1>9 DEF GuardsHold, IdleDesk, FoundAnotherAdmin
  <2>2. users'[u].status = "absent" => users[u].status = "absent"
    BY <1>7, <1>8
  <2> QED
    BY <1>2, <1>8, <2>1, <2>2, GuestsStay
<1>12. RemovesLastRightly /\ LocksOutRightly
  <2>1. LockedOut(u)' => LockedOut(u)
    BY <1>4, <1>7, <1>8 DEF LockedOut, User
  <2>2. CASE StaleDesk(k)
    <3>1. RemovesLastRightly
      BY <1>9, <2>2 DEF RemovesLastRightly
    <3>2. LocksOutRightly
      BY <1>8, <2>1 DEF LocksOutRightly, LockedOut
    <3> QED
      BY <3>1, <3>2
  <2>3. CASE ~StaleDesk(k)
    BY <1>3, <1>5, <1>7, <1>8, <2>1, <2>3, OneRow DEF ActiveAdmins
  <2> QED
    BY <2>2, <2>3
<1> QED
  BY <1>9, <1>10, <1>11, <1>12 DEF Keeps, AccountInv

\* Every request of the accounts' pages keeps what is known of them.
LEMMA AccountActs ==
  ASSUME AccountInv, AccountNext
  PROVE  Keeps
<1>1. ASSUME Registration PROVE Keeps
  BY <1>1, RegisterKeeps, ResubmitKeeps, CodesKeep DEF Registration
<1>4. ASSUME Verification PROVE Keeps
  BY <1>4, CodesKeep, VerifyKeeps DEF Verification
<1>2. ASSUME RoleDecision PROVE Keeps
  BY <1>2, DecisionKeeps DEF RoleDecision
<1>3. ASSUME AdminPage PROVE Keeps
  BY <1>3, ReadingKeeps, SavingKeeps DEF AdminPage
<1> QED
  BY <1>1, <1>2, <1>3, <1>4 DEF AccountNext

\* AccountInv is inductive.
LEMMA AccountStep == AccountInv /\ [AccountNext]_accountVars => AccountInv'
<1> SUFFICES ASSUME AccountInv, [AccountNext]_accountVars PROVE AccountInv'
  OBVIOUS
<1>1. CASE UNCHANGED accountVars
  BY <1>1 DEF accountVars, AccountInv, AccountTypeOK, RequestsHold, NewestCounts,
              TeachersAreApproved, RequestsFollowCodes, GuardsHold, FoundAnotherAdmin,
              GuestsNameAccounts, Counts, Granted
<1>2. CASE AccountNext
  BY <1>2, AccountActs DEF Keeps
<1> QED
  BY <1>1, <1>2

\* The founders are active administrators without requests.
LEMMA AccountStart == AccountInit => AccountInv
<1> SUFFICES ASSUME AccountInit PROVE AccountInv
  OBVIOUS
<1>1. \A u \in Accounts : users[u] \in {Founder, Absent}
  BY DEF AccountInit
<1>2. Founder \in User /\ Absent \in User
  BY DEF Founder, Absent, User, UserStatus, GlobalRole
<1>3. users \in [Accounts -> User]
  BY <1>2 DEF AccountInit
<1>4. \A u \in Accounts : activations[u] = << >> /\ Len(activations[u]) = 0
  BY DEF AccountInit
<1>5. AccountTypeOK
  BY <1>3, <1>4 DEF AccountInit, AccountTypeOK, Code
<1>6. RequestsHold
  BY <1>4 DEF AccountInit, RequestsHold, NewestCounts, TeachersAreApproved,
              RequestsFollowCodes, Granted
<1>7. GuardsHold /\ GuestsNameAccounts
  BY DEF AccountInit, GuardsHold, IdleDesk, GuestsNameAccounts, IdleGuest
<1> QED
  BY <1>5, <1>6, <1>7 DEF AccountInv

\* Users, requests for roles and what the requests of administrators hold agree.
THEOREM AccountsHold == AccountSpec => []AccountInv
  BY AccountStart, AccountStep, PTL DEF AccountSpec

LEMMA AtMostOne ==
  ASSUME NEW S, \A i, j \in S : i = j
  PROVE  Cardinality(S) <= 1
<1>1. CASE S = {}
  BY <1>1, FS_EmptySet
<1>2. CASE S # {}
  <2>1. PICK n \in S : S = {n}
    BY <1>2
  <2>2. Cardinality({n}) = 1
    BY FS_Singleton
  <2> QED
    BY <2>1, <2>2
<1> QED
  BY <1>1, <1>2

\* At most one position of a sequence of requests counts.
LEMMA OneCounts ==
  ASSUME AccountInv
  PROVE  AccountTypeOK /\ ProfileMatchesApproval
<1>1. AccountTypeOK /\ NewestCounts /\ TeachersAreApproved
  BY DEF AccountInv, RequestsHold
<1>3. ASSUME NEW u \in Accounts
      PROVE  LET Requests(status) == {i \in DOMAIN activations[u] : activations[u][i] = status}
             IN /\ Cardinality(Requests("pending")) <= 1
                /\ u \in teachers => Requests("approved") # {}
                /\ u \notin reverified =>
                     /\ Cardinality(Requests("pending") \cup Requests("approved")) <= 1
                     /\ u \in teachers <=> Requests("approved") # {}
  <2> DEFINE InState(status) == {i \in DOMAIN activations[u] : activations[u][i] = status}
             counting == InState("pending") \cup InState("approved")
  <2>1. \A i \in InState("pending") : i = Len(activations[u])
    BY <1>1 DEF NewestCounts, Counts
  <2>2. u \notin reverified => \A i \in counting : i = Len(activations[u])
    BY <1>1 DEF NewestCounts, Counts
  <2>3. Granted(u) <=> InState("approved") # {}
    BY DEF Granted
  <2>4. /\ u \in teachers => InState("approved") # {}
        /\ u \notin reverified => (u \in teachers <=> InState("approved") # {})
    BY <1>1, <2>3 DEF TeachersAreApproved
  <2> HIDE DEF counting
  <2>5. Cardinality(InState("pending")) <= 1
    BY <2>1, AtMostOne
  <2>6. ASSUME u \notin reverified PROVE Cardinality(counting) <= 1
    <3>1. \A i, j \in counting : i = j
      BY <2>2, <2>6
    <3> QED
      BY <3>1, AtMostOne
  <2>7. u \notin reverified => Cardinality(InState("pending") \cup InState("approved")) <= 1
    BY <2>6 DEF counting
  <2> HIDE DEF InState
  <2>8. /\ Cardinality(InState("pending")) <= 1
        /\ u \in teachers => InState("approved") # {}
        /\ u \notin reverified =>
             /\ Cardinality(InState("pending") \cup InState("approved")) <= 1
             /\ u \in teachers <=> InState("approved") # {}
    BY <2>4, <2>5, <2>7
  <2> QED
    BY ONLY <2>8 DEF InState
<1> QED
  BY <1>1, <1>3 DEF ProfileMatchesApproval

\* An account that was verified once has at most one request that is not over,
\* and a teacher's profile exactly when it is approved; no account has two that
\* are pending, or a profile without an approval (decide_role_activation).
THEOREM ProfilesMatch == AccountSpec => [](AccountTypeOK /\ ProfileMatchesApproval)
  BY AccountsHold, OneCounts, PTL

\* The last active administrator is removed by a request only that goes by
\* administrators who no longer are, or by its own verification or registration
\* (_guard_last_admin, IsAdministrator).
THEOREM LastAdminStays == AccountSpec => OnlyStaleDesksRemoveLast
<1>1. ASSUME AccountInv, [AccountNext]_accountVars
      PROVE  [RemovesLastRightly]_accountVars
  BY <1>1, AccountActs DEF Keeps
<1> QED
  BY <1>1, AccountsHold, PTL DEF AccountSpec, OnlyStaleDesksRemoveLast, RemovesLastRightly

\* An account that is neither suspended nor archived is without access only if a
\* decision or a verification changed its status while it was (AccountsService).
THEOREM NobodyElseIsLockedOut == AccountSpec => OnlyDecisionsLockOut
<1>1. ASSUME AccountInv, [AccountNext]_accountVars
      PROVE  [LocksOutRightly]_accountVars
  BY <1>1, AccountActs DEF Keeps
<1> QED
  BY <1>1, AccountsHold, PTL DEF AccountSpec, OnlyDecisionsLockOut, LocksOutRightly

HIDE AccountAssumption

-----------------------------------------------------------------------------
(***************************************************************************)
(* Sessions of one account.                                                *)
(***************************************************************************)

USE SecurityAssumption

\* A session of an old password that no sign-in brought in late is still to be
\* ended by a change of password that another session asked for.  OldSessionsEnd
\* does not say who asked: the request that comes to an end could be the only
\* one, and leave its own session.
OthersWillEnd ==
  \A s \in Sessions :
    Active(s) /\ sessions[s].knows # password /\ s \notin late =>
      \E c \in Clients : clients[c].step = "saved" /\ clients[c].session # s

Secure == SecurityTypeOK /\ OthersWillEnd

\* What revoking leaves (revoke_user_sessions): nobody else is touched.
LEMMA RevokedRows ==
  ASSUME SecurityTypeOK, NEW ended \in SUBSET Sessions
  PROVE  /\ Revoked(ended) \in [Sessions -> SessionRow]
         /\ Blacklisted(ended) \subseteq Sessions
         /\ \A s \in Sessions :
              /\ Revoked(ended)[s].knows = sessions[s].knows
              /\ Revoked(ended)[s].status = "active" => Active(s) /\ s \notin ended
<1>1. \A s \in Sessions : sessions[s] \in SessionRow
  BY DEF SecurityTypeOK
<1>2. \A s \in Sessions :
        [sessions[s] EXCEPT !.status = "revoked"] =
          [status |-> "revoked", knows |-> sessions[s].knows]
  BY <1>1 DEF SessionRow
<1>3. \A s \in Sessions :
        Revoked(ended)[s] = IF s \in ended /\ Active(s)
                            THEN [status |-> "revoked", knows |-> sessions[s].knows]
                            ELSE sessions[s]
  BY <1>2 DEF Revoked
<1>4. Revoked(ended) \in [Sessions -> SessionRow]
  BY <1>1, <1>2 DEF Revoked, SessionRow
<1>5. Blacklisted(ended) \subseteq Sessions
  BY DEF Blacklisted, SecurityTypeOK
<1> QED
  BY <1>3, <1>4, <1>5 DEF Active

\* A step after which no more sessions are active, and no change of password has
\* ended, keeps what is to be ended.
LEMMA FewerSessions ==
  ASSUME Secure, SecurityTypeOK', password' = password, late' = late,
         \A s \in Sessions : Active(s)' => Active(s) /\ sessions'[s].knows = sessions[s].knows,
         \A c \in Clients : clients[c].step = "saved" => clients'[c] = clients[c]
  PROVE  Secure'
<1>1. SUFFICES ASSUME NEW s \in Sessions,
                      Active(s)', sessions'[s].knows # password', s \notin late'
               PROVE  \E c \in Clients :
                        clients'[c].step = "saved" /\ clients'[c].session # s
  BY DEF Secure, OthersWillEnd
<1>2. PICK c \in Clients : clients[c].step = "saved" /\ clients[c].session # s
  BY <1>1 DEF Secure, OthersWillEnd
<1> QED
  BY <1>2

\* Only a sign-in opens a session, and one that came late is remembered.
LEMMA SigningInIsSecure ==
  ASSUME Secure, NEW c \in Clients, NEW s \in Sessions, OpenSession(c, s)
  PROVE  Secure'
<1>1. /\ clients[c].step = "login" /\ sessions[s].status = "absent"
      /\ sessions' = [sessions EXCEPT ![s] = [status |-> "active",
                                              knows |-> clients[c].knows]]
      /\ late' = IF clients[c].knows = password THEN late ELSE late \cup {s}
      /\ clients' = [clients EXCEPT ![c] = IdleClient]
      /\ tokens' = tokens \cup {s} /\ password' = password /\ enabled' = enabled
      /\ recoveries' = recoveries /\ change' = change
  BY DEF OpenSession
<1>2. clients[c].knows \in 0 .. MaxPasswords
  BY <1>1 DEF Secure, SecurityTypeOK, IdleClient
<1>3. SecurityTypeOK'
  <2>1. sessions' \in [Sessions -> SessionRow]
    BY <1>1, <1>2 DEF Secure, SecurityTypeOK, SessionRow
  <2> QED
    BY <1>1, <2>1 DEF Secure, SecurityTypeOK
<1>4. OthersWillEnd'
  <2> SUFFICES ASSUME NEW t \in Sessions,
                      Active(t)', sessions'[t].knows # password', t \notin late'
               PROVE  \E d \in Clients :
                        clients'[d].step = "saved" /\ clients'[d].session # t
    BY DEF OthersWillEnd
  <2>1. t # s
    BY <1>1 DEF Secure, SecurityTypeOK
  <2>2. Active(t) /\ sessions[t].knows # password /\ t \notin late
    BY <1>1, <2>1 DEF Secure, SecurityTypeOK, Active
  <2>3. PICK d \in Clients : clients[d].step = "saved" /\ clients[d].session # t
    BY <2>2 DEF Secure, OthersWillEnd
  <2>4. clients'[d] = clients[d]
    BY <1>1, <2>3 DEF Secure, SecurityTypeOK
  <2> QED
    BY <2>3, <2>4
<1> QED
  BY <1>3, <1>4 DEF Secure

\* The new password is saved, and the request has the others to end.
LEMMA SavingIsSecure ==
  ASSUME Secure, NEW c \in Clients, SavePassword(c)
  PROVE  Secure'
<1>s. PICK s \in Sessions : s = clients[c].session
  BY DEF SavePassword, Secure, SecurityTypeOK, IdleClient
<1>1. /\ password < MaxPasswords /\ password' = password + 1
      /\ sessions' = [sessions EXCEPT ![s].knows = password + 1]
      /\ clients' = [clients EXCEPT ![c] = [step |-> "saved", session |-> s]]
      /\ UNCHANGED <<enabled, tokens, recoveries, change, late>>
  BY <1>s DEF SavePassword, Secure, SecurityTypeOK
<1>2. password' \in 1 .. MaxPasswords
  BY <1>1 DEF Secure, SecurityTypeOK
<1>3. sessions' \in [Sessions -> SessionRow] /\ sessions'[s].knows = password'
  BY <1>1, <1>2 DEF Secure, SecurityTypeOK, SessionRow
<1>4. clients'[c].step = "saved" /\ clients'[c].session = s
  BY <1>1 DEF Secure, SecurityTypeOK
<1>5. SecurityTypeOK'
  BY <1>1, <1>2, <1>3 DEF Secure, SecurityTypeOK
<1>6. OthersWillEnd'
  BY <1>3, <1>4 DEF OthersWillEnd
<1> QED
  BY <1>5, <1>6 DEF Secure

\* The request ends the others; if its own session is old by then, a later
\* change of password has it to end.
LEMMA EndingIsSecure ==
  ASSUME Secure, NEW c \in Clients, EndOtherSessions(c)
  PROVE  Secure'
<1> DEFINE own    == clients[c].session
           others == Sessions \ {own}
<1>1. /\ clients[c].step = "saved"
      /\ sessions' = Revoked(others) /\ tokens' = Blacklisted(others)
      /\ clients' = [clients EXCEPT ![c] = IdleClient]
      /\ UNCHANGED <<enabled, password, recoveries, change, late>>
  BY DEF EndOtherSessions
<1>2. /\ sessions' \in [Sessions -> SessionRow] /\ tokens' \subseteq Sessions
      /\ \A t \in Sessions :
           /\ sessions'[t].knows = sessions[t].knows
           /\ sessions'[t].status = "active" => Active(t) /\ t = own
  <2> HIDE DEF own
  <2> QED
    BY <1>1, RevokedRows DEF Secure
<1>3. SecurityTypeOK'
  BY <1>1, <1>2 DEF Secure, SecurityTypeOK
<1>4. OthersWillEnd'
  <2> SUFFICES ASSUME NEW t \in Sessions,
                      Active(t)', sessions'[t].knows # password', t \notin late'
               PROVE  \E d \in Clients :
                        clients'[d].step = "saved" /\ clients'[d].session # t
    BY DEF OthersWillEnd
  <2>1. Active(t) /\ t = own /\ sessions[t].knows # password /\ t \notin late
    BY <1>1, <1>2 DEF Active
  <2>2. PICK d \in Clients : clients[d].step = "saved" /\ clients[d].session # t
    BY <2>1 DEF Secure, OthersWillEnd
  <2>3. d # c
    BY <2>1, <2>2
  <2>4. clients'[d] = clients[d]
    BY <1>1, <2>3 DEF Secure, SecurityTypeOK
  <2> QED
    BY <2>2, <2>4
<1> QED
  BY <1>3, <1>4 DEF Secure

\* A recovery replaces the password and ends every session at once.
LEMMA RecoveringIsSecure ==
  ASSUME Secure, NEW r \in Recoveries, ConsumeRecovery(r)
  PROVE  Secure'
<1>1. /\ password < MaxPasswords /\ password' = password + 1
      /\ recoveries' = [q \in Recoveries |->
           IF q = r THEN "consumed"
           ELSE IF recoveries[q] \in {"pending", "late"} THEN "revoked"
           ELSE recoveries[q]]
      /\ sessions' = Revoked(Sessions) /\ tokens' = Blacklisted(Sessions)
      /\ UNCHANGED <<enabled, clients, change, late>>
  BY DEF ConsumeRecovery
<1>2. password' \in 1 .. MaxPasswords
  BY <1>1 DEF Secure, SecurityTypeOK
<1>3. recoveries' \in [Recoveries -> RecoveryStatus]
  BY <1>1 DEF Secure, SecurityTypeOK, RecoveryStatus
<1>4. /\ sessions' \in [Sessions -> SessionRow] /\ tokens' \subseteq Sessions
      /\ \A t \in Sessions : sessions'[t].status # "active"
  BY <1>1, RevokedRows DEF Secure
<1>5. SecurityTypeOK'
  BY <1>1, <1>2, <1>3, <1>4 DEF Secure, SecurityTypeOK
<1>6. OthersWillEnd'
  BY <1>4 DEF OthersWillEnd, Active
<1> QED
  BY <1>5, <1>6 DEF Secure

\* The steps that keep every session, or end some, and touch no change of
\* password that is under way.
LEMMA OtherStepsAreSecure ==
  ASSUME Secure,
         \/ SwitchAccount \/ ChangeLapses
         \/ \E c \in Clients :
              \/ CheckPassword(c) \/ IssueRefresh(c) \/ Logout(c) \/ RevokeOthers(c)
              \/ RequestChange(c) \/ CancelChange(c) \/ VerifyChange(c)
              \/ \E s \in Sessions : CheckRefresh(c, s) \/ Authenticate(c, s) \/ EndSession(c, s)
         \/ \E s \in Sessions : RevokeToken(s) \/ ExpireSession(s)
         \/ \E r \in Recoveries : IssueRecovery(r) \/ RecoveryLapses(r)
  PROVE  Secure'
<1>1. ASSUME SecurityTypeOK', UNCHANGED <<password, sessions, late>>,
             \A c \in Clients : clients[c].step = "saved" => clients'[c] = clients[c]
      PROVE  Secure'
  BY <1>1, FewerSessions DEF Active
<1>2. CASE SwitchAccount
  <2>1. SecurityTypeOK'
    BY <1>2 DEF SwitchAccount, Secure, SecurityTypeOK
  <2> QED
    BY <1>1, <1>2, <2>1 DEF SwitchAccount
<1>3. CASE ChangeLapses
  <2>1. /\ change' \in ChangeRow
        /\ UNCHANGED <<enabled, password, sessions, tokens, clients, recoveries, late>>
    BY <1>3 DEF ChangeLapses, ChangeRow, Secure, SecurityTypeOK
  <2>2. SecurityTypeOK'
    BY <2>1 DEF Secure, SecurityTypeOK
  <2> QED
    BY <1>1, <2>1, <2>2
<1>11. ASSUME NEW c \in Clients, RequestChange(c) \/ CancelChange(c)
       PROVE  Secure'
  <2>1. change' \in ChangeRow
    <3>1. change \in ChangeRow
      BY DEF Secure, SecurityTypeOK
    <3>2. RequestChange(c) => change' \in ChangeRow
      BY <3>1 DEF RequestChange, ChangeRow
    <3>3. CancelChange(c) => change' \in ChangeRow
      BY <3>1 DEF CancelChange, ChangeRow
    <3> QED
      BY <1>11, <3>2, <3>3
  <2>2. /\ UNCHANGED <<enabled, password, sessions, tokens, recoveries, late>>
        /\ clients[c].step = "signed" /\ clients' = [clients EXCEPT ![c] = IdleClient]
    BY <1>11 DEF RequestChange, CancelChange, SignedRequest
  <2>3. SecurityTypeOK' /\ \A d \in Clients \ {c} : clients'[d] = clients[d]
    BY <2>1, <2>2 DEF Secure, SecurityTypeOK
  <2> QED
    BY <1>1, <2>2, <2>3
<1>4. ASSUME NEW c \in Clients,
             \/ CheckPassword(c) \/ IssueRefresh(c)
             \/ \E s \in Sessions : CheckRefresh(c, s) \/ Authenticate(c, s)
      PROVE  Secure'
  <2>1. /\ clients[c].step # "saved"
        /\ \A d \in Clients \ {c} : clients'[d] = clients[d]
        /\ UNCHANGED <<enabled, password, sessions, recoveries, change, late>>
    BY <1>4 DEF CheckPassword, IssueRefresh, CheckRefresh, Authenticate, Secure,
                SecurityTypeOK
  <2>2. SecurityTypeOK'
    <3>1. CheckPassword(c) => SecurityTypeOK'
      BY DEF CheckPassword, Secure, SecurityTypeOK
    <3>2. IssueRefresh(c) => SecurityTypeOK'
      <4> SUFFICES ASSUME IssueRefresh(c)
                   PROVE  SecurityTypeOK'
        OBVIOUS
      <4>1. clients[c].session \in Sessions
        BY DEF IssueRefresh, Secure, SecurityTypeOK, IdleClient
      <4> QED
        BY <4>1 DEF IssueRefresh, Secure, SecurityTypeOK
    <3>3. ASSUME NEW s \in Sessions, CheckRefresh(c, s)
          PROVE  SecurityTypeOK'
      BY <3>3 DEF CheckRefresh, Secure, SecurityTypeOK
    <3>4. ASSUME NEW s \in Sessions, Authenticate(c, s)
          PROVE  SecurityTypeOK'
      BY <3>4 DEF Authenticate, Secure, SecurityTypeOK, SessionRow
    <3> QED
      BY <1>4, <3>1, <3>2, <3>3, <3>4
  <2> QED
    BY <1>1, <2>1, <2>2
<1>5. ASSUME NEW c \in Clients, clients[c].step = "signed",
             NEW ended \in SUBSET Sessions, sessions' = Revoked(ended),
             tokens' \subseteq tokens, change' \in ChangeRow,
             NEW client \in {IdleClient} \cup [step : {"login"}, knows : 0 .. MaxPasswords],
             clients' = [clients EXCEPT ![c] = client],
             UNCHANGED <<enabled, password, recoveries, late>>
      PROVE  Secure'
  <2>1. /\ sessions' \in [Sessions -> SessionRow]
        /\ \A s \in Sessions : sessions'[s].knows = sessions[s].knows
        /\ \A s \in Sessions : sessions'[s].status = "active" => Active(s)
    BY <1>5, RevokedRows DEF Secure
  <2>2. SecurityTypeOK' /\ \A d \in Clients \ {c} : clients'[d] = clients[d]
    BY <1>5, <2>1 DEF Secure, SecurityTypeOK
  <2>3. \A s \in Sessions : Active(s)' => Active(s) /\ sessions'[s].knows = sessions[s].knows
    BY <2>1 DEF Active
  <2> QED
    BY <1>5, <2>2, <2>3, FewerSessions
<1>6. ASSUME NEW c \in Clients, VerifyChange(c)
      PROVE  Secure'
  <2> DEFINE client == [step |-> "login", knows |-> clients[c].knows]
  <2>1. change' \in ChangeRow
    BY <1>6 DEF VerifyChange, Secure, SecurityTypeOK, ChangeRow
  <2>2. client \in [step : {"login"}, knows : 0 .. MaxPasswords]
    BY <1>6 DEF VerifyChange, Secure, SecurityTypeOK, IdleClient
  <2>3. /\ clients[c].step = "signed" /\ sessions' = Revoked(Sessions)
        /\ clients' = [clients EXCEPT ![c] = client]
        /\ tokens' \subseteq tokens /\ UNCHANGED <<enabled, password, recoveries, late>>
    BY <1>6 DEF VerifyChange, Blacklisted, Secure, SecurityTypeOK
  <2> QED
    BY <1>5, <2>1, <2>2, <2>3
<1>7. ASSUME NEW c \in Clients,
             Logout(c) \/ RevokeOthers(c) \/ \E s \in Sessions : EndSession(c, s)
      PROVE  Secure'
  <2>1. /\ clients[c].step = "signed" /\ clients' = [clients EXCEPT ![c] = IdleClient]
        /\ UNCHANGED <<enabled, password, recoveries, change, late>>
    BY <1>7 DEF Logout, RevokeOthers, EndSession, SignedRequest
  <2>2. clients[c].session \in Sessions
    BY <2>1 DEF Secure, SecurityTypeOK, IdleClient
  <2>3. \E ended \in SUBSET Sessions : sessions' = Revoked(ended)
    BY <1>7, <2>2 DEF Logout, RevokeOthers, EndSession
  <2>4. tokens' \subseteq tokens
    BY <1>7 DEF Logout, RevokeOthers, EndSession, Blacklisted
  <2> QED
    BY <1>5, <2>1, <2>3, <2>4 DEF Secure, SecurityTypeOK
<1>8. ASSUME NEW s \in Sessions, RevokeToken(s)
      PROVE  Secure'
  <2>1. SecurityTypeOK'
    BY <1>8 DEF RevokeToken, Secure, SecurityTypeOK
  <2> QED
    BY <1>1, <1>8, <2>1 DEF RevokeToken
<1>9. ASSUME NEW s \in Sessions, ExpireSession(s)
      PROVE  Secure'
  <2>1. /\ sessions' = [sessions EXCEPT ![s].status = "expired"]
        /\ UNCHANGED <<enabled, password, tokens, clients, recoveries, change, late>>
    BY <1>9 DEF ExpireSession
  <2>2. /\ sessions' \in [Sessions -> SessionRow]
        /\ sessions'[s].status = "expired"
        /\ \A t \in Sessions \ {s} : sessions'[t] = sessions[t]
    BY <2>1 DEF Secure, SecurityTypeOK, SessionRow
  <2>3. SecurityTypeOK'
    BY <2>1, <2>2 DEF Secure, SecurityTypeOK
  <2>4. \A t \in Sessions : Active(t)' => Active(t) /\ sessions'[t].knows = sessions[t].knows
    BY <2>2 DEF Active
  <2> QED
    BY <2>1, <2>3, <2>4, FewerSessions
<1>10. ASSUME NEW r \in Recoveries, IssueRecovery(r) \/ RecoveryLapses(r)
       PROVE  Secure'
  <2>1. recoveries' \in [Recoveries -> RecoveryStatus]
    <3>1. IssueRecovery(r) => recoveries' \in [Recoveries -> RecoveryStatus]
      BY DEF IssueRecovery, Secure, SecurityTypeOK, RecoveryStatus
    <3>2. RecoveryLapses(r) => recoveries' \in [Recoveries -> RecoveryStatus]
      BY DEF RecoveryLapses, Secure, SecurityTypeOK, RecoveryStatus
    <3> QED
      BY <1>10, <3>1, <3>2
  <2>2. UNCHANGED <<enabled, password, sessions, tokens, clients, change, late>>
    BY <1>10 DEF IssueRecovery, RecoveryLapses
  <2>3. SecurityTypeOK'
    BY <2>1, <2>2 DEF Secure, SecurityTypeOK
  <2> QED
    BY <1>1, <2>2, <2>3
<1> QED
  BY <1>2, <1>3, <1>4, <1>6, <1>7, <1>8, <1>9, <1>10, <1>11

\* Secure is inductive.
LEMMA SessionsAreSecure == SecuritySpec => []Secure
<1>1. SecurityInit => Secure
  BY DEF SecurityInit, Secure, SecurityTypeOK, OthersWillEnd, Active, NoSession,
         SessionRow, RecoveryStatus, ChangeRow
<1>2. Secure /\ [SecurityNext]_securityVars => Secure'
  <2> SUFFICES ASSUME Secure, [SecurityNext]_securityVars
               PROVE  Secure'
    OBVIOUS
  <2>1. CASE SignInAndOut
    BY <2>1, SigningInIsSecure, OtherStepsAreSecure DEF SignInAndOut
  <2>2. CASE SessionPage
    BY <2>2, OtherStepsAreSecure DEF SessionPage
  <2>3. CASE TokenRequest
    BY <2>3, OtherStepsAreSecure DEF TokenRequest
  <2>4. CASE RecoveryRequest
    BY <2>4, RecoveringIsSecure, OtherStepsAreSecure DEF RecoveryRequest
  <2>5. CASE PasswordChange
    BY <2>5, SavingIsSecure, EndingIsSecure DEF PasswordChange
  <2>6. CASE ChangeRequest
    BY <2>6, OtherStepsAreSecure DEF ChangeRequest
  <2>7. CASE SecurityElsewhere
    BY <2>7, OtherStepsAreSecure DEF SecurityElsewhere
  <2>8. CASE UNCHANGED securityVars
    BY <2>8 DEF securityVars, Secure, SecurityTypeOK, OthersWillEnd, Active
  <2> QED
    BY <2>1, <2>2, <2>3, <2>4, <2>5, <2>6, <2>7, <2>8 DEF SecurityNext
<1> QED
  BY <1>1, <1>2, PTL DEF SecuritySpec

\* However requests overlap or die, a session of an old password that is active
\* came in late or is still to be ended by a change of password.
THEOREM SessionsAreEnded == SecuritySpec => []OldSessionsEnd
<1>1. Secure => OldSessionsEnd
  BY DEF Secure, OthersWillEnd, OldSessionsEnd
<1> QED
  BY <1>1, SessionsAreSecure, PTL

HIDE SecurityAssumption

-----------------------------------------------------------------------------
(***************************************************************************)
(* The stock of one resource and the reports of its use.                   *)
(***************************************************************************)

USE StockAssumption

\* A report of use is made of a resource that exists, and a decision on a report
\* that exists.
ReportsNameItems ==
  /\ item.state = "absent" => \A u \in Uses : uses[u] = "absent"
  /\ \A v \in Visitors :
       visitors[v].step = "deciding" => uses[visitors[v].use] # "absent"

Stocked == StockTypeOK /\ LedgerExplainsStock /\ ReportsNameItems

\* What stock is left accounts for itself: only these two steps write the ledger.
LEMMA OpeningExplains ==
  ASSUME Stocked, NEW row \in ItemRow, CreateItem(row)
  PROVE  Stocked'
<1> DEFINE first == [delta |-> row.stock, balance |-> row.stock]
<1>1. row.stock > 0 => first \in Transaction
  BY DEF ItemRow, Transaction, Delta
<1>2. /\ item' = row /\ row.state = "active" /\ uses' = uses /\ visitors' = visitors
      /\ ledger' = IF row.kind = "consumable" /\ row.stock > 0 THEN <<first>> ELSE << >>
      /\ lowTold' \in BOOLEAN
  BY DEF CreateItem, IsLow
<1>3. CASE row.kind = "consumable" /\ row.stock > 0
  <2>1. ledger' = <<first>>
    BY <1>2, <1>3
  <2>2. ledger' \in Seq(Transaction) /\ Len(ledger') = 1 /\ ledger'[1] = first
    BY <1>1, <1>3, <2>1
  <2>3. Len(ledger') <= MaxLedger
    BY <2>2
  <2> QED
    BY <1>2, <1>3, <2>1, <2>2, <2>3 DEF Stocked, StockTypeOK, LedgerExplainsStock, ReportsNameItems
<1>4. CASE ~(row.kind = "consumable" /\ row.stock > 0)
  <2>1. ledger' = << >>
    BY <1>2, <1>4
  <2> QED
    BY <1>2, <2>1 DEF Stocked, StockTypeOK, LedgerExplainsStock, ReportsNameItems
<1> QED
  BY <1>3, <1>4

\* Only RecordStock appends to the ledger: what it adds starts from the stock.
LEMMA RecordingExplains ==
  ASSUME Stocked, NEW delta \in Delta, RecordStock(delta)
  PROVE  Stocked'
<1> DEFINE balance == item.stock + delta
           entry   == [delta |-> delta, balance |-> balance]
<1>1. /\ item.kind = "consumable" /\ Kept
      /\ balance \in 0 .. MaxStock /\ Len(ledger) < MaxLedger
      /\ item' = [item EXCEPT !.stock = balance]
      /\ ledger' = Append(ledger, entry)
      /\ lowTold' \in BOOLEAN /\ uses' = uses /\ visitors' = visitors
  BY DEF RecordStock, Stocked, StockTypeOK
<1>2. item \in ItemRow /\ ledger \in Seq(Transaction) /\ entry \in Transaction
  BY <1>1 DEF Stocked, StockTypeOK, Transaction
<1>3. /\ item' \in ItemRow /\ item'.kind = item.kind /\ item'.state = item.state
      /\ item'.stock = balance
  BY <1>1, <1>2 DEF ItemRow
<1> HIDE DEF entry
<1>4. /\ ledger' \in Seq(Transaction) /\ Len(ledger') = Len(ledger) + 1
      /\ ledger'[Len(ledger) + 1] = entry
      /\ \A n \in 1 .. Len(ledger) : ledger'[n] = ledger[n]
  BY <1>1, <1>2, AppendProperties
<1>5. Len(ledger) \in Nat /\ DOMAIN ledger = 1 .. Len(ledger)
      /\ DOMAIN ledger' = 1 .. Len(ledger) + 1
  BY <1>2, <1>4, LenProperties
<1>6. StockTypeOK'
  BY <1>1, <1>3, <1>4, <1>5 DEF Stocked, StockTypeOK
<1>7. ReportsNameItems'
  BY <1>1, <1>3 DEF Stocked, ReportsNameItems
<1>8. entry.balance = balance /\ entry.delta = delta
  BY DEF entry
<1>9. \A n \in DOMAIN ledger' :
        n > 1 => ledger'[n].balance = ledger'[n - 1].balance + ledger'[n].delta
  <2> SUFFICES ASSUME NEW n \in DOMAIN ledger', n > 1
               PROVE  ledger'[n].balance = ledger'[n - 1].balance + ledger'[n].delta
    OBVIOUS
  <2>1. CASE n \in DOMAIN ledger
    <3>1. n - 1 \in 1 .. Len(ledger) /\ n \in 1 .. Len(ledger)
      BY <2>1, <1>5
    <3> QED
      BY <2>1, <3>1, <1>4, <1>5 DEF Stocked, LedgerExplainsStock
  <2>2. CASE n \notin DOMAIN ledger
    <3>1. n = Len(ledger) + 1 /\ Len(ledger) \in 1 .. Len(ledger) /\ n - 1 = Len(ledger)
      BY <2>2, <1>5
    <3>2. ledger # << >>
      BY <3>1, <1>2
    <3>3. ledger[Len(ledger)].balance = item.stock
      BY <3>2 DEF Stocked, LedgerExplainsStock
    <3> QED
      BY <3>1, <3>3, <1>4, <1>8
  <2> QED
    BY <2>1, <2>2
<1>10. item'.kind = "consumable" /\ ledger'[Len(ledger')].balance = item'.stock
  BY <1>1, <1>3, <1>4, <1>8
<1> QED
  BY <1>6, <1>7, <1>9, <1>10 DEF Stocked, LedgerExplainsStock

\* The other steps of the inventory leave the ledger and the stock, and keep the
\* class of a resource that has a history.
LEMMA EditsExplain ==
  ASSUME Stocked,
         \/ \E state \in {"active", "retired"}, kind \in ItemKind, reorder \in 0 .. MaxStock :
              EditItem(state, kind, reorder)
         \/ RetireItem \/ DeleteItem
  PROVE  /\ Stocked' /\ UNCHANGED <<ledger, uses, lowTold, visitors>>
         /\ Kept /\ item'.stock = item.stock
         /\ item'.kind = item.kind \/ ~HasHistory
<1>1. item \in ItemRow
  BY DEF Stocked, StockTypeOK
<1>2. /\ item' \in ItemRow /\ item'.stock = item.stock /\ Kept
      /\ item'.kind = item.kind \/ ~HasHistory
      /\ item'.state # "absent"
      /\ UNCHANGED <<ledger, uses, lowTold, visitors>>
  <2>1. ASSUME NEW state \in {"active", "retired"}, NEW kind \in ItemKind,
               NEW reorder \in 0 .. MaxStock, EditItem(state, kind, reorder)
        PROVE  <1>2
    BY <1>1, <2>1 DEF EditItem, ItemRow
  <2>2. RetireItem => <1>2
    BY <1>1 DEF RetireItem, ItemRow
  <2>3. DeleteItem => <1>2
    BY <1>1 DEF DeleteItem, ItemRow
  <2> QED
    BY <2>1, <2>2, <2>3
<1>3. StockTypeOK' /\ ReportsNameItems'
  BY <1>2 DEF Stocked, StockTypeOK, ReportsNameItems
<1>4. LedgerExplainsStock'
  BY <1>2 DEF Stocked, LedgerExplainsStock, HasHistory
<1> QED
  BY <1>2, <1>3, <1>4 DEF Stocked

\* Reports and decisions write neither the resource nor its ledger.  A new report
\* is of a resource that is kept; a decision is replaced only by a request that
\* loaded the report while it was pending.
LEMMA ReportsExplain ==
  ASSUME Stocked, NEW v \in Visitors, ReportRequest(v) \/ DecisionRequest(v)
  PROVE  /\ Stocked' /\ UNCHANGED <<item, ledger, lowTold>>
         /\ \A u \in Uses :
              uses[u] \in {"confirmed", "rejected"} /\ uses'[u] # uses[u] =>
                visitors[v] = [step |-> "deciding", use |-> u, status |-> "pending"]
<1> DEFINE Visit == {NoVisit} \cup [step : {"reporting"}, kind : ItemKind]
                      \cup [step : {"deciding"}, use : Uses, status : {"pending"}]
           Statuses == {"absent", "pending", "confirmed", "rejected"}
           Goal == /\ uses' \in [Uses -> Statuses]
                   /\ visitors' \in [Visitors -> Visit]
                   /\ UNCHANGED <<item, ledger, lowTold>>
                   /\ ReportsNameItems'
                   /\ \A u \in Uses :
                        uses[u] \in {"confirmed", "rejected"} /\ uses'[u] # uses[u] =>
                          visitors[v] = [step |-> "deciding", use |-> u,
                                         status |-> "pending"]
<1>1. uses \in [Uses -> Statuses] /\ visitors \in [Visitors -> Visit] /\ item \in ItemRow
  BY DEF Stocked, StockTypeOK
<1>2. NoVisit \in Visit
  OBVIOUS
<1>12. ReportsNameItems
  BY DEF Stocked
<1>3. LoadItem(v) => Goal
  BY <1>1, <1>12 DEF LoadItem, ItemRow, ReportsNameItems
<1>4. ReportFails(v) => Goal
  BY <1>1, <1>2, <1>12 DEF ReportFails, DepartVisitor, ReportsNameItems, NoVisit
<1>5. ASSUME NEW u \in Uses, ReportUse(v, u) PROVE Goal
  BY <1>1, <1>2, <1>5, <1>12 DEF ReportUse, DepartVisitor, Kept, ReportsNameItems, NoVisit
<1>6. ASSUME NEW u \in Uses, LoadUse(v, u) PROVE Goal
  BY <1>1, <1>6, <1>12 DEF LoadUse, ReportsNameItems
<1>7. ASSUME NEW decision \in {"confirmed", "rejected"}, DecideUse(v, decision)
      PROVE  Goal
  <2>1. /\ visitors[v].step = "deciding"
        /\ uses' = [uses EXCEPT ![visitors[v].use] = decision]
        /\ visitors' = [visitors EXCEPT ![v] = NoVisit]
        /\ UNCHANGED <<item, ledger, lowTold>>
    BY <1>7 DEF DecideUse, DepartVisitor
  <2>2. visitors[v] \in [step : {"deciding"}, use : Uses, status : {"pending"}]
    BY <1>1, <2>1 DEF NoVisit
  <2>3. PICK u \in Uses : visitors[v] = [step |-> "deciding", use |-> u, status |-> "pending"]
    BY <2>2
  <2>4. visitors[v].use = u
    BY <2>3
  <2>5. uses' \in [Uses -> Statuses] /\ \A t \in Uses : t # u => uses'[t] = uses[t]
    BY <1>1, <2>1, <2>4
  <2>6. visitors' \in [Visitors -> Visit]
    BY <1>1, <1>2, <2>1
  <2>7. ReportsNameItems'
    BY <1>1, <1>12, <2>1, <2>4, <2>5 DEF ReportsNameItems, NoVisit
  <2> QED
    BY <2>1, <2>3, <2>5, <2>6, <2>7
<1>8. Goal
  BY <1>3, <1>4, <1>5, <1>6, <1>7 DEF ReportRequest, DecisionRequest
<1>9. StockTypeOK'
  BY <1>8 DEF Stocked, StockTypeOK
<1>10. LedgerExplainsStock' /\ ReportsNameItems'
  BY <1>8 DEF Stocked, LedgerExplainsStock
<1> QED
  BY <1>8, <1>9, <1>10 DEF Stocked

\* Stocked is inductive.
LEMMA StockedStep == Stocked /\ [StockNext]_stockVars => Stocked'
<1> SUFFICES ASSUME Stocked, [StockNext]_stockVars PROVE Stocked'
  OBVIOUS
<1>1. CASE UNCHANGED stockVars
  BY <1>1 DEF stockVars, Stocked, StockTypeOK, LedgerExplainsStock, ReportsNameItems
<1>2. CASE \E row \in ItemRow : CreateItem(row)
  BY <1>2, OpeningExplains
<1>3. CASE StockRequest
  BY <1>3, RecordingExplains DEF StockRequest
<1>4. CASE \E v \in Visitors : ReportRequest(v) \/ DecisionRequest(v)
  BY <1>4, ReportsExplain
<1> QED
  BY <1>1, <1>2, <1>3, <1>4, EditsExplain DEF StockNext, InventoryRequest

\* There is no resource at first.
LEMMA StockedInit == StockInit => Stocked
<1> SUFFICES ASSUME StockInit PROVE Stocked
  OBVIOUS
<1>1. ledger = << >> /\ ledger \in Seq(Transaction) /\ Len(ledger) <= MaxLedger
  BY DEF StockInit
<1>2. item \in ItemRow
  BY DEF StockInit, ItemRow, ItemKind
<1>3. StockTypeOK
  BY <1>1, <1>2 DEF StockInit, StockTypeOK
<1> QED
  BY <1>1, <1>3 DEF StockInit, Stocked, LedgerExplainsStock, ReportsNameItems, NoVisit

\* The transactions explain the stock, and reports of use are of a resource that
\* exists (record_stock_transaction).
THEOREM StockAccounted == StockSpec => []Stocked
  BY StockedInit, StockedStep, PTL DEF StockSpec

\* Stock that is low without a notice became so by an edit, never by a transaction
\* (update_resource, record_stock_transaction).
THEOREM LowStockSeen == StockSpec => OnlyEditsHideLowStock
<1>1. ASSUME Stocked, [StockNext]_stockVars
      PROVE  [~LowUnseen /\ LowUnseen' => item'.stock = item.stock /\ ledger' = ledger]_stockVars
  <2> SUFFICES ASSUME ~LowUnseen, LowUnseen'
               PROVE  item'.stock = item.stock /\ ledger' = ledger
    OBVIOUS
  <2>1. CASE UNCHANGED stockVars
    BY <2>1 DEF stockVars
  <2>2. CASE \E row \in ItemRow : CreateItem(row)
    BY <2>2 DEF CreateItem, LowUnseen
  <2>3. ASSUME NEW delta \in Delta, RecordStock(delta)
        PROVE  FALSE
    <3>1. item \in ItemRow
      BY <1>1 DEF Stocked, StockTypeOK
    <3>2. item'.reorder = item.reorder /\ item'.kind = item.kind /\ item'.state = item.state
          /\ item'.stock = item.stock + delta
      BY <3>1, <2>3 DEF RecordStock, ItemRow
    <3>3. item'.stock <= item.reorder
      BY <3>2 DEF LowUnseen, IsLow
    <3>4. item.stock \in Int /\ item.reorder \in Int
      BY <3>1 DEF ItemRow
    <3>5. ~(item.stock > item.reorder) /\ ~lowTold
      BY <2>3, <3>2, <3>3 DEF RecordStock, LowUnseen
    <3> QED
      BY <3>2, <3>4, <3>5, <2>3 DEF LowUnseen, IsLow, Kept
  <2>4. CASE \E v \in Visitors : ReportRequest(v) \/ DecisionRequest(v)
    BY <1>1, <2>4, ReportsExplain
  <2> QED
    BY <1>1, <2>1, <2>2, <2>3, <2>4, EditsExplain DEF StockNext, InventoryRequest, StockRequest
<1> QED
  BY <1>1, StockAccounted, PTL DEF StockSpec, OnlyEditsHideLowStock

\* Reports of use come to belong to a consumable, or are decided again, by requests
\* only that had loaded a pending one (decide_use_submission).
THEOREM UsesStayOfEquipment == StockSpec => OnlyLateRequestsMixUses
<1> DEFINE Late ==
      /\ ~Mixed /\ Mixed' => item' = item
      /\ \A u \in Uses :
           uses[u] \in {"confirmed", "rejected"} /\ uses'[u] # uses[u] =>
             \E v \in Visitors :
               visitors[v] = [step |-> "deciding", use |-> u, status |-> "pending"]
<1>1. ASSUME Stocked, [StockNext]_stockVars
      PROVE  [Late]_stockVars
  <2>1. CASE UNCHANGED stockVars
    BY <2>1
  <2>2. CASE \E row \in ItemRow : CreateItem(row)
    BY <1>1, <2>2 DEF CreateItem, Mixed, Stocked, ReportsNameItems
  <2>3. ASSUME NEW delta \in Delta, RecordStock(delta)
        PROVE  Late
    <3>1. item'.kind = item.kind /\ uses' = uses
      BY <1>1, <2>3 DEF RecordStock, Stocked, StockTypeOK, ItemRow
    <3> QED
      BY <3>1 DEF Mixed
  <2>4. CASE \E v \in Visitors : ReportRequest(v) \/ DecisionRequest(v)
    <3>1. PICK v \in Visitors : ReportRequest(v) \/ DecisionRequest(v)
      BY <2>4
    <3> QED
      BY <1>1, <3>1, ReportsExplain
  <2>5. ASSUME \/ \E state \in {"active", "retired"}, kind \in ItemKind,
                     reorder \in 0 .. MaxStock : EditItem(state, kind, reorder)
               \/ RetireItem \/ DeleteItem
        PROVE  Late
    <3>1. uses' = uses /\ (item'.kind = item.kind \/ ~HasHistory)
      BY <1>1, <2>5, EditsExplain
    <3> QED
      BY <3>1 DEF Mixed, HasHistory
  <2> QED
    BY <1>1, <2>1, <2>2, <2>3, <2>4, <2>5 DEF StockNext, InventoryRequest, StockRequest
<1> QED
  BY <1>1, StockAccounted, PTL DEF StockSpec, OnlyLateRequestsMixUses

HIDE StockAssumption

-----------------------------------------------------------------------------
(***************************************************************************)
(* An export of the audit log.                                             *)
(***************************************************************************)

USE ExportAssumption

\* The counted events are kept and below the mark; whatever else may yet be
\* kept below it was open at the count.
ScopeIsFixed ==
  /\ requested <= Len(log)
  /\ export.status # "absent" =>
       /\ export.high <= Len(log)
       /\ Cardinality(export.counted) <= ExportLimit
       /\ \A n \in export.counted : n \in 1 .. export.high /\ log[n] = "kept"
       /\ \A n \in 1 .. export.high :
            log[n] # "gone" => n \in export.counted \cup openThen

\* The row goes with its task; files of failed tries are older than the next.
TaskMakesFile ==
  /\ task = "none" => export.status = "absent" /\ stored = {} /\ tries = 0
  /\ task = "waiting" =>
       /\ export.status = "queued" /\ tries < MaxTries
       /\ \A f \in stored : f <= tries
  /\ task = "gone" => export.status = "queued"
  /\ task = "done" => export.status \in {"ready", "expired"}

RowsAreInScope ==
  export.status \in {"ready", "expired"} =>
    /\ export.counted \subseteq export.rows
    /\ export.rows \subseteq export.counted \cup openThen

\* Only an export that was ready, and whose time is over, is being expired.
ExpiryIsDue ==
  expiry # "none" => lapsed /\ export.status \in {"ready", "expired"}

Sound ==
  /\ ExportTypeOK
  /\ ScopeIsFixed
  /\ TaskMakesFile
  /\ ExpiryIsDue
  /\ RowsAreInScope
  /\ FilesAreOwned

\* The log only grows: an event that is kept stays, one that is gone stays gone.
LogGrows ==
  /\ Len(log') >= Len(log)
  /\ \A n \in 1 .. Len(log) :
       /\ log[n] = "kept" => log'[n] = "kept"
       /\ log[n] = "gone" => log'[n] = "gone"

\* A new event gets the next id (record_event).
LEMMA EventIsAppended ==
  ASSUME ExportTypeOK, Len(log) < MaxEvents, NEW s \in {"open", "kept"},
         log' = Append(log, s)
  PROVE  /\ LogGrows
         /\ log' \in Seq({"open", "kept", "gone"}) /\ Len(log') <= MaxEvents
         /\ Len(log') = Len(log) + 1
         /\ \A n \in 1 .. Len(log) : log'[n] = log[n]
<1>1. log \in Seq({"open", "kept", "gone"}) /\ Len(log) \in Nat
  BY LenProperties DEF ExportTypeOK
<1>2. s \in {"open", "kept", "gone"}
  OBVIOUS
<1>3. /\ log' \in Seq({"open", "kept", "gone"})
      /\ Len(log') = Len(log) + 1
      /\ \A n \in 1 .. Len(log) : log'[n] = log[n]
  BY <1>1, <1>2, AppendProperties
<1> QED
  BY <1>1, <1>3 DEF LogGrows

\* While the export, its task and its files stay, the log may grow.
LEMMA GrowthIsHarmless ==
  ASSUME Sound, LogGrows, log' \in Seq({"open", "kept", "gone"}),
         Len(log') <= MaxEvents,
         UNCHANGED <<export, requested, tries, task, stored, expiry, lapsed, openThen>>
  PROVE  Sound'
<1>1. Len(log) \in Nat /\ Len(log') \in Nat
  BY LenProperties DEF Sound, ExportTypeOK
<1>2. ExportTypeOK'
  BY DEF Sound, ExportTypeOK
<1>3. ScopeIsFixed'
  <2>1. requested <= Len(log')
    BY <1>1 DEF Sound, ScopeIsFixed, ExportTypeOK, LogGrows
  <2>2. ASSUME export.status # "absent"
        PROVE  /\ export.high <= Len(log')
               /\ \A n \in 1 .. export.high : n \in 1 .. Len(log)
    <3>1. export.high \in Nat /\ export.high <= Len(log)
      BY <2>2 DEF Sound, ScopeIsFixed, ExportTypeOK, ExportRow
    <3> QED
      BY <1>1, <3>1 DEF LogGrows
  <2> QED
    BY <2>1, <2>2 DEF Sound, ScopeIsFixed, LogGrows
<1>4. TaskMakesFile' /\ RowsAreInScope' /\ FilesAreOwned' /\ ExpiryIsDue'
  BY DEF Sound, TaskMakesFile, RowsAreInScope, FilesAreOwned, ExpiryIsDue
<1> QED
  BY <1>2, <1>3, <1>4 DEF Sound

\* The request fixes the scope (create_audit_export).
LEMMA CreateFixesScope ==
  ASSUME Sound, CreateExport
  PROVE  Sound'
<1>1. /\ export.status = "absent" /\ requested # -1 /\ Len(log) < MaxEvents
      /\ task = "none" /\ stored = {} /\ tries = 0
      /\ log' = Append(log, "kept") /\ openThen' = Having("open")
      /\ task' = "waiting"
      /\ requested' = requested /\ tries' = tries /\ stored' = stored /\ lapsed' = lapsed
      /\ expiry' = expiry
  BY DEF CreateExport, Sound, TaskMakesFile, ExportTypeOK
<1>2. export \in ExportRow /\ requested \in 0 .. MaxEvents
  BY <1>1 DEF Sound, ExportTypeOK
<1>3. /\ Len(log) \in Nat /\ DOMAIN log = 1 .. Len(log) /\ Len(log) <= MaxEvents
      /\ \A n \in 1 .. Len(log) : log[n] \in {"open", "kept", "gone"}
  BY LenProperties, ElementOfSeq DEF Sound, ExportTypeOK
<1>4. /\ LogGrows /\ log' \in Seq({"open", "kept", "gone"})
      /\ Len(log') <= MaxEvents /\ Len(log') = Len(log) + 1
      /\ \A n \in 1 .. Len(log) : log'[n] = log[n]
  BY <1>1, EventIsAppended DEF Sound
<1>5. /\ Selected(requested) \subseteq Event /\ Having("open") \subseteq Event
      /\ requested <= Len(log)
  BY <1>2, <1>3 DEF Selected, Having, Event, Sound, ScopeIsFixed
<1>6. /\ export'.status = "queued" /\ export'.high = requested
      /\ export'.counted = Selected(requested)
      /\ export' \in ExportRow
  BY <1>2, <1>5 DEF CreateExport, ExportRow
<1>7. Cardinality(Selected(requested)) <= ExportLimit
  BY DEF CreateExport
<1>8. ExportTypeOK'
  BY <1>1, <1>4, <1>5, <1>6 DEF Sound, ExportTypeOK
<1>9. ScopeIsFixed'
  <2>1. \A n \in Selected(requested) : n \in 1 .. requested /\ log'[n] = "kept"
    BY <1>2, <1>3, <1>4 DEF Selected, Having
  <2>2. \A n \in 1 .. requested :
          log'[n] # "gone" => n \in Selected(requested) \cup Having("open")
    BY <1>2, <1>3, <1>4, <1>5 DEF Selected, Having
  <2>3. requested <= Len(log')
    BY <1>2, <1>3, <1>4, <1>5
  <2> QED
    BY <1>1, <1>6, <1>7, <2>1, <2>2, <2>3 DEF ScopeIsFixed
<1>10. TaskMakesFile' /\ RowsAreInScope' /\ FilesAreOwned' /\ ExpiryIsDue'
  <2>1. tries < MaxTries
    BY <1>1
  <2>2. expiry = "none"
    BY <1>1 DEF Sound, ExpiryIsDue
  <2> QED
    BY <1>1, <1>6, <2>1, <2>2 DEF TaskMakesFile, RowsAreInScope, FilesAreOwned, ExpiryIsDue
<1> QED
  BY <1>8, <1>9, <1>10 DEF Sound

\* The task writes what the scope lets it find (generate_audit_export).
LEMMA GenerateKeepsScope ==
  ASSUME Sound, Generate
  PROVE  Sound'
<1>1. /\ task = "waiting" /\ Len(log) < MaxEvents /\ export.status = "queued"
      /\ tries < MaxTries /\ \A f \in stored : f <= tries
      /\ log' = Append(log, "kept") /\ task' = "done"
      /\ stored' = stored \cup {tries + 1}
      /\ requested' = requested /\ tries' = tries /\ lapsed' = lapsed
      /\ openThen' = openThen /\ expiry' = expiry
  BY DEF Generate, Sound, TaskMakesFile
<1>2. /\ export \in ExportRow /\ tries \in 0 .. MaxTries
      /\ stored \subseteq 1 .. MaxTries
  BY DEF Sound, ExportTypeOK
<1>3. /\ Len(log) \in Nat /\ DOMAIN log = 1 .. Len(log) /\ Len(log) <= MaxEvents
  BY LenProperties DEF Sound, ExportTypeOK
<1>4. /\ LogGrows /\ log' \in Seq({"open", "kept", "gone"})
      /\ Len(log') <= MaxEvents /\ Len(log') = Len(log) + 1
      /\ \A n \in 1 .. Len(log) : log'[n] = log[n]
  BY <1>1, EventIsAppended DEF Sound
<1>5. Selected(export.high) \subseteq Event
  BY <1>3 DEF Selected, Having, Event
<1>6. /\ export'.status = "ready" /\ export'.file = tries + 1
      /\ export'.high = export.high /\ export'.counted = export.counted
      /\ export'.rows = Selected(export.high) /\ export' \in ExportRow
  <2>1. export' = [export EXCEPT !.status = "ready", !.file = tries + 1,
                                 !.rows = Selected(export.high)]
    BY DEF Generate
  <2>2. tries + 1 \in 0 .. MaxTries
    BY <1>1, <1>2
  <2> HIDE DEF Selected
  <2> QED
    BY <1>2, <1>5, <2>1, <2>2 DEF ExportRow
<1>7. /\ export.high \in Nat /\ export.high <= Len(log)
      /\ Cardinality(export.counted) <= ExportLimit
      /\ \A n \in export.counted : n \in 1 .. export.high /\ log[n] = "kept"
      /\ \A n \in 1 .. export.high :
           log[n] # "gone" => n \in export.counted \cup openThen
      /\ requested <= Len(log) /\ requested \in Int
  BY <1>1, <1>2 DEF Sound, ScopeIsFixed, ExportRow, ExportTypeOK
<1>8. ExportTypeOK'
  <2>1. tries + 1 \in 1 .. MaxTries
    BY <1>1, <1>2
  <2> QED
    BY <1>1, <1>2, <1>4, <1>6, <2>1 DEF Sound, ExportTypeOK
<1>9. ScopeIsFixed'
  <2>1. requested <= Len(log') /\ export.high <= Len(log')
    BY <1>3, <1>4, <1>7
  <2>2. \A n \in 1 .. export.high : log'[n] = log[n]
    BY <1>3, <1>4, <1>7
  <2> QED
    BY <1>1, <1>6, <1>7, <2>1, <2>2 DEF ScopeIsFixed
<1>10. RowsAreInScope'
  <2>1. export.counted \subseteq Selected(export.high)
    BY <1>3, <1>7 DEF Selected, Having
  <2>2. Selected(export.high) \subseteq export.counted \cup openThen
    BY <1>3, <1>7 DEF Selected, Having
  <2> QED
    BY <1>1, <1>6, <2>1, <2>2 DEF RowsAreInScope
<1>11. FilesAreOwned' /\ ExpiryIsDue'
  BY <1>1, <1>2, <1>6 DEF FilesAreOwned, ExpiryIsDue, Sound
<1>12. TaskMakesFile'
  BY <1>1, <1>6 DEF TaskMakesFile
<1> QED
  BY <1>8, <1>9, <1>10, <1>11, <1>12 DEF Sound

\* A failed try changes nothing but its file, the count and the task.
LEMMA FailureKeepsScope ==
  ASSUME Sound, NEW written \in BOOLEAN, GenerateFails(written) \/ WorkerDies(written)
  PROVE  Sound'
<1>1. /\ task = "waiting" /\ export.status = "queued" /\ tries < MaxTries
      /\ \A f \in stored : f <= tries
      /\ stored' = IF written THEN stored \cup {tries + 1} ELSE stored
      /\ \/ tries' = tries + 1 /\ task' = IF tries + 1 = MaxTries THEN "gone" ELSE "waiting"
         \/ tries' = tries /\ task' = "gone"
      /\ UNCHANGED <<log, export, requested, expiry, lapsed, openThen>>
  BY DEF GenerateFails, WorkerDies, Sound, TaskMakesFile
<1>2. /\ tries \in 0 .. MaxTries /\ stored \subseteq 1 .. MaxTries
      /\ stored' \subseteq 1 .. MaxTries /\ tries' \in 0 .. MaxTries
  <2>1. tries \in 0 .. MaxTries /\ stored \subseteq 1 .. MaxTries
    BY DEF Sound, ExportTypeOK
  <2> QED
    BY <1>1, <2>1
<1>3. ExportTypeOK'
  BY <1>1, <1>2 DEF Sound, ExportTypeOK
<1>4. ScopeIsFixed' /\ RowsAreInScope' /\ FilesAreOwned' /\ ExpiryIsDue'
  BY <1>1 DEF Sound, ScopeIsFixed, RowsAreInScope, FilesAreOwned, ExpiryIsDue
<1>5. TaskMakesFile'
  BY <1>1, <1>2 DEF TaskMakesFile
<1> QED
  BY <1>3, <1>4, <1>5 DEF Sound

\* A ready export that has lapsed expires, with or without its file.
LEMMA ExpiryKeepsScope ==
  ASSUME Sound, ExpireExport \/ ShowExport
  PROVE  Sound'
<1>1. /\ export.status \in {"ready", "expired"} /\ lapsed
      /\ export' = [export EXCEPT !.status = "expired"]
      /\ expiry' \in {expiry, "none"}
      /\ UNCHANGED <<log, requested, tries, task, stored, lapsed, openThen>>
  BY DEF ExpireExport, ShowExport, Sound, ExpiryIsDue
<1>2. export \in ExportRow
  BY DEF Sound, ExportTypeOK
<1>3. /\ export'.status = "expired" /\ export' \in ExportRow
      /\ export'.high = export.high /\ export'.counted = export.counted
      /\ export'.rows = export.rows
  BY <1>1, <1>2 DEF ExportRow
<1>4. task = "done"
  BY <1>1 DEF Sound, TaskMakesFile, ExportTypeOK
<1>5. ExportTypeOK'
  BY <1>1, <1>3 DEF Sound, ExportTypeOK
<1>6. ScopeIsFixed' /\ RowsAreInScope'
  BY <1>1, <1>3 DEF Sound, ScopeIsFixed, RowsAreInScope
<1>7. TaskMakesFile' /\ FilesAreOwned' /\ ExpiryIsDue'
  BY <1>1, <1>3, <1>4 DEF TaskMakesFile, FilesAreOwned, ExpiryIsDue
<1> QED
  BY <1>5, <1>6, <1>7 DEF Sound

\* The task that expires it has not come to its status yet.
LEMMA ExpiringKeepsScope ==
  ASSUME Sound, FindLapsed \/ DeleteFile \/ ExpiryDies
  PROVE  Sound'
<1>1. /\ UNCHANGED <<log, export, requested, tries, task, lapsed, openThen>>
      /\ stored' \subseteq stored /\ expiry' \in {"none", "read", "deleted"}
      /\ lapsed /\ export.status \in {"ready", "expired"}
  BY DEF FindLapsed, DeleteFile, ExpiryDies, Sound, ExpiryIsDue
<1>2. task = "done"
  BY <1>1 DEF Sound, TaskMakesFile, ExportTypeOK
<1>3. ExportTypeOK'
  BY <1>1 DEF Sound, ExportTypeOK
<1>4. ScopeIsFixed' /\ RowsAreInScope'
  BY <1>1 DEF Sound, ScopeIsFixed, RowsAreInScope
<1>5. TaskMakesFile' /\ FilesAreOwned' /\ ExpiryIsDue'
  BY <1>1, <1>2 DEF Sound, TaskMakesFile, FilesAreOwned, ExpiryIsDue
<1> QED
  BY <1>3, <1>4, <1>5 DEF Sound

\* Sound is inductive.
LEMMA ExportsAreSound == ExportSpec => []Sound
<1>1. ExportInit => Sound
  <2> SUFFICES ASSUME ExportInit
               PROVE  Sound
    OBVIOUS
  <2>1. ExportTypeOK
    <3>1. log \in Seq({"open", "kept", "gone"}) /\ Len(log) = 0
      BY EmptySeq DEF ExportInit
    <3>2. export \in ExportRow
      BY DEF ExportInit, ExportRow
    <3>3. MaxEvents \in Nat /\ MaxTries \in Nat
      OBVIOUS
    <3>4. Len(log) <= MaxEvents /\ requested \in -1 .. MaxEvents /\ tries \in 0 .. MaxTries
      BY <3>1, <3>3 DEF ExportInit
    <3>5. /\ task \in {"none", "waiting", "done", "gone"} /\ lapsed \in BOOLEAN
          /\ stored \subseteq 1 .. MaxTries /\ openThen \subseteq Event
          /\ expiry \in {"none", "read", "deleted"}
      BY DEF ExportInit
    <3> QED
      BY <3>1, <3>2, <3>4, <3>5 DEF ExportTypeOK
  <2> QED
    BY <2>1, EmptySeq DEF ExportInit, Sound, ScopeIsFixed, TaskMakesFile, RowsAreInScope,
                          FilesAreOwned, ExpiryIsDue
<1>2. Sound /\ [ExportNext]_exportVars => Sound'
  <2> SUFFICES ASSUME Sound, [ExportNext]_exportVars
               PROVE  Sound'
    OBVIOUS
  <2>1. /\ log \in Seq({"open", "kept", "gone"}) /\ Len(log) \in Nat
        /\ Len(log) <= MaxEvents /\ DOMAIN log = 1 .. Len(log)
    BY LenProperties DEF Sound, ExportTypeOK
  <2>2. ASSUME log' = log, lapsed' \in BOOLEAN, lapsed => lapsed',
               UNCHANGED <<export, requested, tries, task, stored, expiry, openThen>>
        PROVE  Sound'
    BY <2>2 DEF Sound, ExportTypeOK, ScopeIsFixed, TaskMakesFile, RowsAreInScope,
                FilesAreOwned, ExpiryIsDue
  <2>3. CASE WriteEvent
    BY <2>3, EventIsAppended, GrowthIsHarmless DEF WriteEvent, Sound
  <2>4. ASSUME NEW n \in DOMAIN log, NEW end \in {"kept", "gone"},
               EndTransaction(n, end)
        PROVE  Sound'
    <3>1. n \in 1 .. Len(log) /\ log[n] = "open" /\ log' = [log EXCEPT ![n] = end]
      BY <2>1, <2>4 DEF EndTransaction, Having
    <3>2. /\ log' \in Seq({"open", "kept", "gone"}) /\ Len(log') = Len(log)
          /\ \A m \in 1 .. Len(log) : log'[m] = IF m = n THEN end ELSE log[m]
      BY <2>1, <3>1, ExceptSeq
    <3>3. LogGrows
      BY <2>1, <3>1, <3>2 DEF LogGrows
    <3> QED
      BY <2>1, <2>4, <3>2, <3>3, GrowthIsHarmless DEF EndTransaction
  <2>5. CASE ReadHighWater \/ RefuseExport
    <3>1. /\ export.status = "absent"
          /\ UNCHANGED <<log, export, tries, task, stored, expiry, lapsed, openThen>>
      BY <2>5 DEF ReadHighWater, RefuseExport
    <3>2. requested' \in -1 .. Len(log)
      BY <2>1, <2>5 DEF ReadHighWater, RefuseExport, Having
    <3>3. ExportTypeOK'
      BY <2>1, <3>1, <3>2 DEF Sound, ExportTypeOK
    <3>4. ScopeIsFixed'
      BY <2>1, <3>1, <3>2 DEF Sound, ScopeIsFixed
    <3> QED
      BY <3>1, <3>3, <3>4
         DEF Sound, TaskMakesFile, RowsAreInScope, FilesAreOwned, ExpiryIsDue
  <2>6. CASE TimeRunsOut
    BY <2>2, <2>6 DEF TimeRunsOut
  <2>7. CASE DownloadExport
    BY <2>7, EventIsAppended, GrowthIsHarmless DEF DownloadExport, Sound
  <2>8. CASE UNCHANGED exportVars
    BY <2>2, <2>8 DEF exportVars, Sound, ExportTypeOK
  <2> QED
    BY <2>3, <2>4, <2>5, <2>6, <2>7, <2>8, CreateFixesScope, GenerateKeepsScope,
       FailureKeepsScope, ExpiryKeepsScope, ExpiringKeepsScope DEF ExportNext
<1> QED
  BY <1>1, <1>2, PTL DEF ExportSpec

\* However events are written while an export is requested and made, its file
\* holds the counted events and, beside them, only events that were open at
\* the count; a failure leaves it queued; a ready export has its file until its
\* time is over.
THEOREM ExportsHold == ExportSpec => []ExportsAreTrue
<1>1. Sound => ExportsAreTrue
  <2> SUFFICES ASSUME Sound
               PROVE  ExportsAreTrue
    OBVIOUS
  <2>1. ExportsKeepScope
    <3> SUFFICES ASSUME export.status \in {"ready", "expired"}
                 PROVE  /\ export.counted \subseteq export.rows
                        /\ export.rows \ export.counted \subseteq openThen
                        /\ Cardinality(export.rows) > ExportLimit => openThen # {}
      BY DEF ExportsKeepScope
    <3>1. /\ export.counted \subseteq export.rows
          /\ export.rows \subseteq export.counted \cup openThen
      BY DEF Sound, RowsAreInScope
    <3>2. ASSUME openThen = {}
          PROVE  ~(Cardinality(export.rows) > ExportLimit)
      <4>1. export.rows = export.counted
        BY <3>1, <3>2
      <4>2. Cardinality(export.counted) <= ExportLimit
        BY DEF Sound, ScopeIsFixed
      <4>3. Cardinality(export.counted) \in Nat
        <5>1. export.counted \subseteq 1 .. MaxEvents
          BY DEF Sound, ExportTypeOK, ExportRow, Event
        <5>2. IsFiniteSet(1 .. MaxEvents)
          BY FS_Interval
        <5> QED
          BY <5>1, <5>2, FS_Subset, FS_CardinalityType
      <4> QED
        BY <4>1, <4>2, <4>3
    <3> QED
      BY <3>1, <3>2
  <2>2. FailuresLeaveNoTrace
    BY DEF Sound, TaskMakesFile, FailuresLeaveNoTrace, ExportTypeOK
  <2> QED
    BY <2>1, <2>2 DEF Sound, ExportsAreTrue
<1> QED
  BY <1>1, ExportsAreSound, PTL

HIDE ExportAssumption

-----------------------------------------------------------------------------
(***************************************************************************)
(* The records together.                                                   *)
(***************************************************************************)

\* Each part takes its own steps or rests.
LEMMA PartsBehave ==
  MCSpec => /\ AccountSpec /\ SecuritySpec /\ PaperSpec /\ BatchSpec
            /\ DocumentSpec /\ CodeSpec /\ StockSpec /\ ExportSpec
<1>1. MCInit => /\ AccountInit /\ SecurityInit /\ PaperInit /\ BatchInit
                /\ DocumentInit /\ CodeInit /\ StockInit /\ ExportInit
  BY DEF MCInit
<1>2. [MCNext]_MCVars =>
        /\ [AccountNext]_accountVars /\ [SecurityNext]_securityVars
        /\ [PaperNext]_paperVars /\ [BatchNext]_batchVars
        /\ [DocumentNext]_documentVars /\ [CodeNext]_codeVars
        /\ [StockNext]_stockVars /\ [ExportNext]_exportVars
  <2>1. LibraryNext =>
          /\ [PaperNext]_paperVars /\ [BatchNext]_batchVars
          /\ [DocumentNext]_documentVars /\ [CodeNext]_codeVars
    BY DEF LibraryNext
  <2> QED
    BY <2>1 DEF MCNext, MCVars, accountParts, libraryParts, serviceParts
<1> QED
  BY <1>1, <1>2, PTL DEF MCSpec, AccountSpec, SecuritySpec, PaperSpec, BatchSpec,
                         DocumentSpec, CodeSpec, StockSpec, ExportSpec

\* Rows keep their types and what must be true of them together, in every part
\* (decide_role_activation, change_material_visibility, commit_import,
\* record_stock_transaction).
THEOREM RecordsKeepAgreeing == MCSpec => []RecordsAgree
<1>1. /\ Secure => SecurityTypeOK
      /\ PapersHold => PaperTypeOK
      /\ BatchInv => BatchTypeOK /\ StubsComeFromCommitted
      /\ DocumentsAgree => DocumentTypeOK /\ MaterialsAgree
      /\ Compiled => CodeTypeOK
      /\ Stocked => StockTypeOK /\ LedgerExplainsStock
      /\ Sound => ExportTypeOK
  BY DEF Secure, PapersHold, BatchInv, DocumentsAgree, Compiled, Stocked, Sound
<1>2. AccountInv /\ Secure /\ PapersHold /\ BatchInv /\ DocumentsAgree /\ Compiled
      /\ Stocked /\ Sound => RecordsAgree
  BY <1>1, OneCounts, TwinsToo DEF RecordsAgree
<1> QED
  BY <1>2, PartsBehave, AccountsHold, SessionsAreSecure, SharedPapersHold, BatchesAreTold,
     DocumentsHold, CodeCompared, StockAccounted, ExportsAreSound, PTL

\* The group keeps an administrator and accounts their access, but for the named
\* steps (_guard_last_admin, AccountsService).
THEOREM AccountsAreUsable == MCSpec => AccountsStayUsable
  BY PartsBehave, LastAdminStays, NobodyElseIsLockedOut, PTL DEF AccountsStayUsable

\* Papers repeat, and jobs are miscounted, by requests only that overlap
\* (detect_shared_paper_duplicate, review_paper_import, find_duplicate).
THEOREM PapersSpoilByOverlaps == MCSpec => OnlyOverlapsSpoilPapers
  BY PartsBehave, FilesRepeatBlindly, MiscountsAreOverlaps, PapersRepeatUnseen, PTL
     DEF OnlyOverlapsSpoilPapers

\* Documents and code lose their order by checks only that were made too early
\* or not at all (delete_category, rename_document, upload_archive).
THEOREM ShelvesSpoilByEarlyChecks == MCSpec => OnlyEarlyChecksSpoilShelves
  BY PartsBehave, ShelvesKept, TitlesKept, CodeRepeatsRightly, PTL
     DEF OnlyEarlyChecksSpoilShelves

\* Stock is low unseen, and reports of use go wrong, by edits and late requests
\* only (update_resource, decide_use_submission).
THEOREM StockIsUpsetByEdits == MCSpec => OnlyEditsAndLateRequestsUpsetStock
  BY PartsBehave, LowStockSeen, UsesStayOfEquipment, PTL
     DEF OnlyEditsAndLateRequestsUpsetStock
=============================================================================
