----------------------- MODULE ScheduleRemindersProofs -----------------------
(***************************************************************************)
(* Theorems about ScheduleReminders, for any number of recipients, scans   *)
(* and requests, and any number of killed workers.                         *)
(***************************************************************************)
EXTENDS ScheduleReminders, TLAPS

\* The inductive invariant: a scan holds claims only between its first claim
\* and its notifications, each of them is a dispatch still marked as claimed,
\* and no two scans hold the same.
HolderInv ==
  /\ TypeOK
  /\ RemindedOnce
  /\ OneHolderPerClaim
  /\ \A s \in Scanners :
       /\ procs[s].step \notin {"look", "claim"} => procs[s].held = {}
       /\ \A r \in procs[s].held : claims[r] = "claimed"

-----------------------------------------------------------------------------
(***************************************************************************)
(* Types.                                                                  *)
(***************************************************************************)

\* Writing one field of a process keeps it well formed.
LEMMA ProcessFields ==
  ASSUME NEW f \in [Processes -> Process], NEW p \in Processes
  PROVE  /\ \A step \in Step : [f EXCEPT ![p].step = step] \in [Processes -> Process]
         /\ \A set \in SUBSET Recipients :
              /\ [f EXCEPT ![p].change = set] \in [Processes -> Process]
              /\ [f EXCEPT ![p].evidence = set] \in [Processes -> Process]
              /\ [f EXCEPT ![p].todo = set] \in [Processes -> Process]
              /\ [f EXCEPT ![p].held = set] \in [Processes -> Process]
         /\ \A seen \in [Recipients -> Nat] :
              [f EXCEPT ![p].seen = seen] \in [Processes -> Process]
BY DEF Process

\* Nothing but CreateReminders writes reminders, and it writes those whose
\* claims it holds, none of which has been notified yet.
LEMMA ReminderTypes ==
  ASSUME HolderInv, [Next]_vars
  PROVE  TypeOK'
<1>1. Idle \in Process
  BY DEF Idle, Process, Step
<1>2. \A p \in Processes : procs[p] \in Process
  BY DEF HolderInv, TypeOK
<1> USE DEF HolderInv, TypeOK, Processes
<1>3. CASE EndSchedule
  BY <1>3 DEF EndSchedule
<1>4. ASSUME NEW q \in Requests, NEW r \in Recipients,
             SaveMember(q, r) \/ SaveMemberInTransaction(q, r)
      PROVE  TypeOK'
  <2> DEFINE a == [procs EXCEPT ![q].step = "resolve"]
  <2>1. procs' \in [Processes -> Process]
    <3>1. procs' = a \/ procs' = [a EXCEPT ![q].change = {r}]
      BY <1>4 DEF SaveMember, SaveMemberInTransaction, Goto
    <3>2. a \in [Processes -> Process]
      BY ProcessFields DEF Step
    <3>3. [a EXCEPT ![q].change = {r}] \in [Processes -> Process]
      <4>1. {r} \in SUBSET Recipients
        OBVIOUS
      <4> HIDE DEF a
      <4> QED
        BY <3>2, <4>1, ProcessFields
    <3> QED
      BY <3>1, <3>2, <3>3
  <2> QED
    BY <1>4, <2>1, ReminderAssumption
    DEF SaveMember, SaveMemberInTransaction, Toggled
<1>5. ASSUME NEW p \in Processes, Resolve(p)
      PROVE  TypeOK'
  <2>1. CASE ReadMembers(p)
    <3>1. Toggled(members, procs[p].change) \in SUBSET Recipients
      BY <1>2 DEF Toggled, Process
    <3> DEFINE a == [procs EXCEPT ![p].step = "lock"]
    <3>2. a \in [Processes -> Process]
      BY ProcessFields DEF Step
    <3>3. [a EXCEPT ![p].evidence = Toggled(members, procs[p].change)]
            \in [Processes -> Process]
      <4> HIDE DEF a
      <4> QED
        BY <3>1, <3>2, ProcessFields
    <3> QED
      BY <2>1, <3>3 DEF ReadMembers
  <2>2. CASE ReadGrants(p)
    <3> DEFINE a == [procs EXCEPT ![p].step = "write"]
               read == [r \in Recipients |->
                          IF r \in granted THEN given[r] ELSE 0]
    <3>1. a \in [Processes -> Process]
      BY ProcessFields DEF Step
    <3>2. [a EXCEPT ![p].seen = read] \in [Processes -> Process]
      <4>1. read \in [Recipients -> Nat]
        OBVIOUS
      <4> HIDE DEF a, read
      <4> QED
        BY <3>1, <4>1, ProcessFields
    <3> QED
      BY <2>2, <3>2 DEF ReadGrants
  <2>3. CASE WriteGrants(p)
    <3>1. procs' \in [Processes -> Process]
      BY <1>1, <1>2, <2>3 DEF WriteGrants, Resolved, Idle, Process, Step
    <3>2. granted' \subseteq Recipients /\ given' \in [Recipients -> Nat]
      BY <1>2, <2>3 DEF WriteGrants, Removals, Additions, Locked, Process
    <3>3. members' \subseteq Recipients
      BY <1>2, <2>3 DEF WriteGrants, Toggled, Process
    <3> QED
      BY <2>3, <3>1, <3>2, <3>3 DEF WriteGrants
  <2>4. CASE WriteConflicts(p)
    BY <1>1, <2>4 DEF WriteConflicts, Finish
  <2> QED
    BY <1>5, <2>1, <2>2, <2>3, <2>4 DEF Resolve
<1>6. ASSUME NEW s \in Scanners, Scan(s)
      PROVE  TypeOK'
  <2>1. CASE StartScan(s)
    <3> DEFINE a == [procs EXCEPT ![s].step = "resolve"]
    <3>1. a \in [Processes -> Process]
      BY ProcessFields DEF Step
    <3>2. [a EXCEPT ![s].todo = granted] \in [Processes -> Process]
      <4>1. granted \in SUBSET Recipients
        OBVIOUS
      <4> HIDE DEF a
      <4> QED
        BY <3>1, <4>1, ProcessFields
    <3> QED
      BY <2>1, <3>2 DEF StartScan
  <2>2. ASSUME NEW r \in Recipients,
               \/ SkipClaimed(s, r) \/ LookUp(s, r)
               \/ CreateClaim(s, r) \/ ClaimConflicts(s, r)
        PROVE  TypeOK'
    <3>1. CASE SkipClaimed(s, r)
      <4>1. procs' \in [Processes -> Process]
        BY <1>2, <3>1 DEF SkipClaimed, Process
      <4> QED
        BY <3>1, <4>1 DEF SkipClaimed
    <3>2. CASE LookUp(s, r)
      <4> DEFINE a == [procs EXCEPT ![s].step = "claim"]
      <4>1. a \in [Processes -> Process]
        BY ProcessFields DEF Step
      <4>2. [a EXCEPT ![s].evidence = {r}] \in [Processes -> Process]
        <5>1. {r} \in SUBSET Recipients
          OBVIOUS
        <5> HIDE DEF a
        <5> QED
          BY <4>1, <5>1, ProcessFields
      <4> QED
        BY <3>2, <4>2 DEF LookUp
    <3>3. CASE CreateClaim(s, r)
      <4> DEFINE a == [procs EXCEPT ![s].step = "look"]
                 b == [a EXCEPT ![s].evidence = {}]
                 c == [b EXCEPT ![s].todo = @ \ {r}]
                 d == [c EXCEPT ![s].held = @ \cup {r}]
      <4>1. procs' = d
        BY <3>3 DEF CreateClaim
      <4>2. a \in [Processes -> Process] /\ s \in Processes
        BY ProcessFields DEF Step
      <4>3. b \in [Processes -> Process]
        <5> HIDE DEF a
        <5> QED
          BY <4>2, ProcessFields
      <4>4. c \in [Processes -> Process]
        <5> HIDE DEF b
        <5>1. b[s].todo \ {r} \in SUBSET Recipients
          BY <4>2, <4>3 DEF Process
        <5> QED
          BY <4>2, <4>3, <5>1, ProcessFields
      <4>5. d \in [Processes -> Process]
        <5> HIDE DEF c
        <5>1. c[s].held \cup {r} \in SUBSET Recipients
          BY <4>2, <4>4 DEF Process
        <5> QED
          BY <4>2, <4>4, <5>1, ProcessFields
      <4> HIDE DEF d
      <4> QED
        BY <3>3, <4>1, <4>5 DEF CreateClaim, Claim
    <3>4. CASE ClaimConflicts(s, r)
      <4> DEFINE a == [procs EXCEPT ![s].step = "look"]
                 b == [a EXCEPT ![s].evidence = {}]
                 c == [b EXCEPT ![s].todo = @ \ {r}]
      <4>2. a \in [Processes -> Process] /\ s \in Processes
        BY ProcessFields DEF Step
      <4>3. b \in [Processes -> Process]
        <5> HIDE DEF a
        <5> QED
          BY <4>2, ProcessFields
      <4>4. c \in [Processes -> Process]
        <5> HIDE DEF b
        <5>1. b[s].todo \ {r} \in SUBSET Recipients
          BY <4>2, <4>3 DEF Process
        <5> QED
          BY <4>2, <4>3, <5>1, ProcessFields
      <4>5. procs' = c \/ procs' = [procs EXCEPT ![s] = Idle]
        BY <3>4 DEF ClaimConflicts, Finish
      <4>1. procs' \in [Processes -> Process]
        <5> HIDE DEF c
        <5> QED
          BY <1>1, <4>4, <4>5
      <4> QED
        BY <3>4, <4>1 DEF ClaimConflicts
    <3> QED
      BY <2>2, <3>1, <3>2, <3>3, <3>4
  <2>3. CASE CreateReminders(s)
    <3>1. \A r \in procs[s].held : reminders[r] = 0
      BY <1>2 DEF RemindedOnce, Process
    <3>2. reminders' \in [Recipients -> 0 .. 1]
      BY <2>3, <3>1 DEF CreateReminders
    <3>3. claims' \in [Recipients -> Claim]
      BY <2>3 DEF CreateReminders, Claim
    <3> QED
      BY <1>1, <2>3, <3>2, <3>3 DEF CreateReminders, Finish
  <2> QED
    BY <1>5, <1>6, <2>1, <2>2, <2>3 DEF Scan
<1>7. ASSUME NEW s \in Scanners, Crash(s)
      PROVE  TypeOK'
  BY <1>1, <1>7 DEF Crash, Finish
<1>8. CASE UNCHANGED vars
  BY <1>8 DEF vars
<1> QED
  BY <1>3, <1>4, <1>5, <1>6, <1>7, <1>8 DEF Next

-----------------------------------------------------------------------------
(***************************************************************************)
(* Claims and their holders.                                               *)
(***************************************************************************)

\* Steps that touch no claim and let no scan with claims die.
Harmless ==
  /\ claims' = claims /\ reminders' = reminders /\ deaths' >= deaths
  /\ \A s \in Scanners :
       /\ procs'[s].held = procs[s].held
       /\ procs'[s].step \in {"look", "claim"} \/ procs[s].held = {}

\* Harmless steps keep the invariant.
LEMMA HarmlessStep ==
  ASSUME HolderInv, TypeOK', Harmless
  PROVE  HolderInv'
BY DEF HolderInv, Harmless, RemindedOnce, OneHolderPerClaim, TypeOK

\* A scan that dies leaves its claims to nobody, which deaths records
\* (create_due_schedule_reminders, killed or ended by an exception).
LEMMA DeathStep ==
  ASSUME HolderInv, TypeOK', NEW s \in Scanners, Finish(s),
         claims' = claims, reminders' = reminders, deaths' = deaths + 1
  PROVE  HolderInv'
<1>1. procs' = [procs EXCEPT ![s] = Idle] /\ Idle.held = {} /\ deaths' # 0
  BY DEF Finish, Idle, HolderInv, TypeOK
<1>2. \A t \in Scanners : procs'[t] = procs[t] \/ procs'[t].held = {}
  BY <1>1 DEF HolderInv, TypeOK, Processes
<1> QED
  BY <1>1, <1>2 DEF HolderInv, RemindedOnce, OneHolderPerClaim

\* Everything around the claims is harmless: the end of the event, membership
\* changes, audience resolution and looking for a dispatch.
LEMMA OtherSteps ==
  ASSUME HolderInv, TypeOK',
         \/ EndSchedule
         \/ \E q \in Requests, r \in Recipients :
              SaveMember(q, r) \/ SaveMemberInTransaction(q, r)
         \/ \E p \in Processes : ReadMembers(p) \/ ReadGrants(p) \/ WriteGrants(p)
         \/ \E q \in Requests : WriteConflicts(q)
         \/ \E s \in Scanners : StartScan(s)
         \/ \E s \in Scanners, r \in Recipients : SkipClaimed(s, r) \/ LookUp(s, r)
         \/ UNCHANGED vars
  PROVE  Harmless
<1> USE DEF HolderInv, TypeOK, Processes, Harmless
<1>0. \A p \in Processes : procs[p] \in Process
  BY DEF Process
<1>1. CASE EndSchedule \/ UNCHANGED vars
  BY <1>1 DEF EndSchedule, vars
<1>2. ASSUME NEW q \in Requests, NEW r \in Recipients,
             SaveMember(q, r) \/ SaveMemberInTransaction(q, r)
      PROVE  Harmless
  <2>1. \A s \in Scanners : procs'[s] = procs[s]
    BY <1>2, ReminderAssumption DEF SaveMember, SaveMemberInTransaction, Goto
  <2> QED
    BY <1>2, <2>1 DEF SaveMember, SaveMemberInTransaction
<1>3. ASSUME NEW p \in Processes, ReadMembers(p) \/ ReadGrants(p) \/ WriteGrants(p)
      PROVE  Harmless
  <2>1. procs[p].step \in {"resolve", "lock", "write"}
    BY <1>3 DEF ReadMembers, ReadGrants, WriteGrants, At
  <2>2. \A s \in Scanners : procs'[s].held = procs[s].held \/ procs'[s].held = {}
    <3>1. CASE ReadMembers(p)
      <4> DEFINE a == [procs EXCEPT ![p].step = "lock"]
      <4>1. \A s \in Scanners : a[s].held = procs[s].held
        BY <1>0
      <4>2. a \in [Processes -> Process]
        BY ProcessFields DEF Step
      <4>3. procs' = [a EXCEPT ![p].evidence = Toggled(members, procs[p].change)]
        BY <3>1 DEF ReadMembers
      <4> HIDE DEF a
      <4>4. \A s \in Scanners : procs'[s].held = a[s].held
        BY <4>2, <4>3 DEF Process
      <4> QED
        BY <4>1, <4>4
    <3>2. CASE ReadGrants(p)
      <4> DEFINE a == [procs EXCEPT ![p].step = "write"]
                 read == [r \in Recipients |->
                            IF r \in granted THEN given[r] ELSE 0]
      <4>1. \A s \in Scanners : a[s].held = procs[s].held
        BY <1>0
      <4>2. a \in [Processes -> Process]
        BY ProcessFields DEF Step
      <4>3. procs' = [a EXCEPT ![p].seen = read]
        BY <3>2 DEF ReadGrants
      <4> HIDE DEF a, read
      <4>4. \A s \in Scanners : procs'[s].held = a[s].held
        BY <4>2, <4>3 DEF Process
      <4> QED
        BY <4>1, <4>4
    <3>3. CASE WriteGrants(p)
      BY <3>3 DEF WriteGrants, Resolved, Idle
    <3> QED
      BY <1>3, <3>1, <3>2, <3>3
  <2>3. claims' = claims /\ reminders' = reminders /\ deaths' = deaths
    BY <1>3 DEF ReadMembers, ReadGrants, WriteGrants
  <2>4. \A s \in Scanners \ {p} : procs'[s] = procs[s]
    BY <1>3 DEF ReadMembers, ReadGrants, WriteGrants, Resolved
  <2>5. p \in Scanners => procs[p].held = {}
    BY <2>1
  <2>6. \A s \in Scanners : procs'[s].held = procs[s].held
    BY <2>2, <2>4, <2>5
  <2>7. \A s \in Scanners :
          procs'[s].step \in {"look", "claim"} \/ procs[s].held = {}
    BY <2>4, <2>5
  <2> QED
    BY <2>3, <2>6, <2>7
<1>4. ASSUME NEW q \in Requests, WriteConflicts(q)
      PROVE  Harmless
  <2>1. q \notin Scanners
    BY ReminderAssumption
  <2> QED
    BY <1>4, <2>1 DEF WriteConflicts, Finish
<1>5. ASSUME NEW s \in Scanners, StartScan(s)
      PROVE  Harmless
  BY <1>5 DEF StartScan, At
<1>6. ASSUME NEW s \in Scanners, NEW r \in Recipients,
             SkipClaimed(s, r) \/ LookUp(s, r)
      PROVE  Harmless
  <2>1. procs'[s].step \in {"look", "claim"} /\ procs'[s].held = procs[s].held
    <3>1. CASE SkipClaimed(s, r)
      BY <1>0, <3>1 DEF SkipClaimed, At
    <3>2. CASE LookUp(s, r)
      <4> DEFINE a == [procs EXCEPT ![s].step = "claim"]
      <4>1. a[s].held = procs[s].held /\ a[s].step = "claim"
        BY <1>0
      <4>2. a \in [Processes -> Process]
        BY ProcessFields DEF Step
      <4>3. procs' = [a EXCEPT ![s].evidence = {r}]
        BY <3>2 DEF LookUp
      <4> HIDE DEF a
      <4>4. procs'[s].held = a[s].held /\ procs'[s].step = a[s].step
        BY <4>2, <4>3 DEF Process
      <4> QED
        BY <4>1, <4>4
    <3> QED
      BY <1>6, <3>1, <3>2
  <2>2. \A t \in Scanners \ {s} : procs'[t] = procs[t]
    BY <1>6 DEF SkipClaimed, LookUp
  <2>3. claims' = claims /\ reminders' = reminders /\ deaths' = deaths
    BY <1>6 DEF SkipClaimed, LookUp
  <2> QED
    BY <2>1, <2>2, <2>3
<1> QED
  BY <1>1, <1>2, <1>3, <1>4, <1>5, <1>6

\* get_or_create makes a claim for one scan, and only where there was none; or
\* it finds one, which changes nothing unless the scan dies of it.
LEMMA ClaimSteps ==
  ASSUME HolderInv, TypeOK', NEW s \in Scanners, NEW r \in Recipients,
         CreateClaim(s, r) \/ ClaimConflicts(s, r)
  PROVE  HolderInv'
<1> USE DEF HolderInv, TypeOK, Processes
<1>1. \A p \in Processes : procs[p] \in Process
  BY DEF Process
<1> DEFINE a == [procs EXCEPT ![s].step = "look"]
           b == [a EXCEPT ![s].evidence = {}]
           c == [b EXCEPT ![s].todo = @ \ {r}]
           d == [c EXCEPT ![s].held = @ \cup {r}]
<1>2. /\ a \in [Processes -> Process]
      /\ a[s].step = "look" /\ a[s].held = procs[s].held
  <2>1. a \in [Processes -> Process]
    BY ProcessFields DEF Step
  <2>2. a[s].step = "look" /\ a[s].held = procs[s].held
    BY <1>1 DEF Process
  <2> QED
    BY <2>1, <2>2
<1>3. /\ b \in [Processes -> Process]
      /\ b[s].step = "look" /\ b[s].held = procs[s].held
  <2> HIDE DEF a
  <2>1. b \in [Processes -> Process]
    BY <1>2, ProcessFields
  <2>2. b[s].step = "look" /\ b[s].held = procs[s].held
    BY <1>2 DEF Process
  <2> QED
    BY <2>1, <2>2
<1>4. /\ c \in [Processes -> Process]
      /\ c[s].step = "look" /\ c[s].held = procs[s].held
  <2> HIDE DEF b
  <2>1. b[s].todo \ {r} \in SUBSET Recipients
    BY <1>3 DEF Process
  <2>2. c \in [Processes -> Process]
    BY <1>3, <2>1, ProcessFields
  <2>3. c[s].step = "look" /\ c[s].held = procs[s].held
    BY <1>3 DEF Process
  <2> QED
    BY <2>2, <2>3
<1>5. \A t \in Scanners \ {s} : procs'[t] = procs[t]
  BY DEF CreateClaim, ClaimConflicts, Finish
<1>6. CASE CreateClaim(s, r)
  <2>1. procs' = d
    BY <1>6 DEF CreateClaim
  <2>2. procs'[s].step = "look" /\ procs'[s].held = procs[s].held \cup {r}
    <3> HIDE DEF c
    <3> QED
      BY <1>4, <2>1 DEF Process
  <2>3. /\ claims[r] = "none" /\ claims' = [claims EXCEPT ![r] = "claimed"]
        /\ reminders' = reminders /\ deaths' = deaths
    BY <1>6 DEF CreateClaim
  <2>4. \A t \in Scanners : r \notin procs[t].held
    BY <2>3
  <2>5. RemindedOnce'
    BY <2>3 DEF RemindedOnce
  <2>6. OneHolderPerClaim'
    <3>1. \A x \in Recipients, t, u \in Scanners :
            x \in procs'[t].held \cap procs'[u].held => t = u
      BY <1>5, <2>2, <2>4 DEF OneHolderPerClaim
    <3>2. \A x \in Recipients : claims'[x] = "claimed" /\ deaths' = 0 =>
                                  \E t \in Scanners : x \in procs'[t].held
      BY <1>5, <2>2, <2>3 DEF OneHolderPerClaim
    <3> QED
      BY <3>1, <3>2 DEF OneHolderPerClaim
  <2>7. \A t \in Scanners :
          /\ procs'[t].step \notin {"look", "claim"} => procs'[t].held = {}
          /\ \A x \in procs'[t].held : claims'[x] = "claimed"
    BY <1>5, <2>2, <2>3
  <2> QED
    BY <2>5, <2>6, <2>7
<1>7. CASE ClaimConflicts(s, r) /\ procs' = c /\ UNCHANGED deaths
  <2>1. procs'[s].step = "look" /\ procs'[s].held = procs[s].held
    <3> HIDE DEF c
    <3> QED
      BY <1>4, <1>7
  <2>2. Harmless
    BY <1>5, <1>7, <2>1 DEF ClaimConflicts, Harmless
  <2> QED
    BY <2>2, HarmlessStep
<1>8. CASE ClaimConflicts(s, r) /\ Finish(s) /\ deaths' = deaths + 1
  BY <1>8, DeathStep DEF ClaimConflicts
<1> QED
  BY <1>6, <1>7, <1>8 DEF ClaimConflicts

\* _create_reminder_notifications notifies those whose claims the scan holds
\* and no one else, and marks exactly their dispatches.
LEMMA CreateStep ==
  ASSUME HolderInv, TypeOK', NEW s \in Scanners, CreateReminders(s)
  PROVE  HolderInv'
<1> USE DEF HolderInv, TypeOK, Processes
<1>1. \A p \in Processes : procs[p] \in Process
  BY DEF Process
<1>2. /\ procs' = [procs EXCEPT ![s] = Idle]
      /\ claims' = [r \in Recipients |-> IF r \in procs[s].held
                                         THEN "created" ELSE claims[r]]
      /\ reminders' = [r \in Recipients |-> IF r \in procs[s].held
                                            THEN reminders[r] + 1 ELSE reminders[r]]
      /\ deaths' = deaths
  BY DEF CreateReminders, Finish
<1>3. procs'[s].held = {} /\ \A t \in Scanners \ {s} : procs'[t] = procs[t]
  BY <1>2 DEF Idle
<1>4. \A r \in procs[s].held : \A t \in Scanners \ {s} : r \notin procs[t].held
  BY <1>1 DEF OneHolderPerClaim, Process
<1>5. RemindedOnce'
  BY <1>2 DEF RemindedOnce
<1>6. OneHolderPerClaim'
  BY <1>2, <1>3 DEF OneHolderPerClaim
<1>7. \A t \in Scanners :
        /\ procs'[t].step \notin {"look", "claim"} => procs'[t].held = {}
        /\ \A r \in procs'[t].held : claims'[r] = "claimed"
  BY <1>1, <1>2, <1>3, <1>4 DEF Process
<1> QED
  BY <1>5, <1>6, <1>7

-----------------------------------------------------------------------------
(***************************************************************************)
(* The theorems.                                                           *)
(***************************************************************************)

\* The invariant holds in every state (create_due_schedule_reminders).
LEMMA HolderInvHolds == Spec => []HolderInv
<1>0. ASSUME Init
      PROVE  HolderInv
  <2>1. Idle \in Process /\ Idle.held = {}
    BY DEF Idle, Process, Step
  <2>2. TypeOK
    BY <1>0, <2>1, ReminderAssumption DEF Init, TypeOK, Claim
  <2> QED
    BY <1>0, <2>1, <2>2
    DEF Init, HolderInv, RemindedOnce, OneHolderPerClaim, Processes
<1>1. ASSUME HolderInv, [Next]_vars
      PROVE  HolderInv'
  <2>1. TypeOK'
    BY <1>1, ReminderTypes
  <2>2. CASE Harmless
    BY <1>1, <2>1, <2>2, HarmlessStep
  <2>3. ASSUME NEW s \in Scanners, NEW r \in Recipients,
               CreateClaim(s, r) \/ ClaimConflicts(s, r)
        PROVE  HolderInv'
    BY <1>1, <2>1, <2>3, ClaimSteps
  <2>4. ASSUME NEW s \in Scanners, CreateReminders(s)
        PROVE  HolderInv'
    BY <1>1, <2>1, <2>4, CreateStep
  <2>5. ASSUME NEW s \in Scanners, WriteConflicts(s) \/ Crash(s)
        PROVE  HolderInv'
    BY <1>1, <2>1, <2>5, DeathStep DEF WriteConflicts, Crash
  <2> QED
    BY <1>1, <2>1, <2>2, <2>3, <2>4, <2>5, OtherSteps
    DEF Next, Scan, Resolve, Processes
<1> QED
  BY <1>0, <1>1, PTL DEF Spec

\* TypeOK holds: no dispatch is notified twice, so reminders stays in 0 .. 1.
THEOREM ReminderTypeCorrect == Spec => []TypeOK
BY HolderInvHolds, PTL DEF HolderInv

\* RemindedOnce holds however many scans overlap, die or are killed: a dispatch
\* marked as created has exactly one notification
\* (_create_reminder_notifications).
THEOREM RemindersAreSentOnce == Spec => []RemindedOnce
BY HolderInvHolds, PTL DEF HolderInv

\* OneHolderPerClaim holds: two scans never work on the same dispatch, and only
\* a death strands one (create_due_schedule_reminders).
THEOREM ClaimsHaveOneHolder == Spec => []OneHolderPerClaim
BY HolderInvHolds, PTL DEF HolderInv
=============================================================================
