------------------------ MODULE NotificationDelivery ------------------------
(***************************************************************************)
(* E-mail delivery of notifications: apps/notifications/services.py and    *)
(* the Celery task deliver_due_notifications.                              *)
(*                                                                         *)
(* Beat starts the task every few minutes and the notifications queue has  *)
(* several worker processes, so two runs of it may overlap.  The task runs *)
(* in no transaction and locks nothing: a worker reads a batch of rows,    *)
(* then takes one after the other through queueing, SMTP and the record of *)
(* the result, always with the retry_count it read at the start.  A worker *)
(* may be killed (deploy, time limit) between any two of these steps.      *)
(*                                                                         *)
(* enqueue_notification is called in and out of transactions: out of them  *)
(* the row can be selected before the request has made its first attempt   *)
(* and saved what the recipient's preferences say.                         *)
(*                                                                         *)
(* Clock times are abstracted: due[n] says whether eligible_at has passed. *)
(* A run saves a notification row and its attempt row by two statements,   *)
(* one step here unless the run is killed in between (CrashBetweenSaves).  *)
(* The outcome of a follow-up and the e-mail status of a schedule dispatch *)
(* are copied from the result and left out.                                *)
(*                                                                         *)
(* tangled is a history variable: the properties speak of notifications    *)
(* that no two processes have held at once, none of them killed halfway.   *)
(***************************************************************************)
EXTENDS Integers, FiniteSets

CONSTANTS
  Notifications,  \* primary keys, in the order of creation
  Workers,        \* worker processes that may run the task
  Limit,          \* rows read by one run of the task (100)
  RetryLimit,     \* failures after which the next one is final (4)
  MaxCrashes      \* bound: workers killed

ASSUME DeliveryAssumption ==
  /\ Notifications \subseteq Nat
  /\ IsFiniteSet(Notifications)
  /\ Limit \in Nat \ {0}
  /\ RetryLimit \in Nat
  /\ MaxCrashes \in Nat

VARIABLES
  rows,       \* the Notification rows: status and retry_count
  due,        \* has eligible_at passed?
  queueing,   \* how far the request is that queues n
  history,    \* history[n][k]: the state of e-mail attempt k of n
  reachable,  \* notification_is_deliverable(n), at this moment
  workers,    \* what each run of the task is doing
  mailbox,    \* messages about n the mail server has accepted
  crashes,    \* workers killed so far
  tangled     \* notifications two processes have held at once, or one half saved

deliveryVars ==
  <<rows, due, queueing, history, reachable, workers, mailbox, crashes, tangled>>

-----------------------------------------------------------------------------
Attempts == 1 .. RetryLimit + 1

Status == {"absent", "pending", "queued", "sent", "failed", "retry_needed",
           "skipped", "in_app_only"}

AttemptState == {"none", "pending", "queued", "sent", "failed", "skipped"}

\* Mutant of Retryable: notifications that have failed for good are taken up
\* again.
RetryFailed == {"pending", "retry_needed", "failed"}

\* The statuses the task selects.
Retryable == {"pending", "retry_needed"}

Settled(n) == rows[n].status \in {"sent", "failed", "skipped", "in_app_only"}

Idle == [step |-> "idle"]

Run == [step : {"scanning", "sending", "accepted", "refused"},
        todo : (SUBSET Notifications) \ {{}},     \* the rest of the batch
        retries : [Notifications -> 0 .. RetryLimit]] \* retry_count when read

DeliveryTypeOK ==
  /\ rows \in [Notifications -> [status : Status, retries : 0 .. RetryLimit + 1]]
  /\ due \in [Notifications -> BOOLEAN]
  /\ queueing \in [Notifications -> {"no", "inserted", "silencing", "delaying"}]
  /\ history \in [Notifications -> [Attempts -> AttemptState]]
  /\ reachable \in [Notifications -> BOOLEAN]
  /\ workers \in [Workers -> {Idle} \cup Run]
  /\ mailbox \in [Notifications -> Nat]
  /\ crashes \in 0 .. MaxCrashes
  /\ tangled \subseteq Notifications

DeliveryInit ==
  /\ rows = [n \in Notifications |-> [status |-> "absent", retries |-> 0]]
  /\ due = [n \in Notifications |-> FALSE]
  /\ queueing = [n \in Notifications |-> "no"]
  /\ history = [n \in Notifications |-> [k \in Attempts |-> "none"]]
  /\ reachable = [n \in Notifications |-> TRUE]
  /\ workers = [w \in Workers |-> Idle]
  /\ mailbox = [n \in Notifications |-> 0]
  /\ crashes = 0
  /\ tangled = {}

-----------------------------------------------------------------------------
(***************************************************************************)
(* The rest of the system.                                                 *)
(***************************************************************************)

\* Primary keys are given in order.
IsNext(n) ==
  /\ rows[n].status = "absent"
  /\ \A m \in Notifications : m < n => rows[m].status # "absent"

\* enqueue_notification in a transaction of its caller, or a get_or_create that
\* leaves out the first attempt: the recipient may take e-mail, may have turned
\* it off for the category, or the notification may be in-app only.  Quiet
\* hours put eligible_at off.
Enqueue(n) ==
  /\ IsNext(n)
  /\ \E status \in {"pending", "in_app_only"} :
       /\ rows' = [rows EXCEPT ![n].status = status]
       /\ \E first \in {"none", IF status = "pending" THEN "pending" ELSE "skipped"} :
            history' = [history EXCEPT ![n][1] = first]
  /\ \E now \in BOOLEAN : due' = [due EXCEPT ![n] = now]
  /\ UNCHANGED <<queueing, reachable, workers, mailbox, crashes, tangled>>

\* enqueue_notification out of any transaction: first the row is inserted.
InsertRow(n) ==
  /\ IsNext(n)
  /\ rows' = [rows EXCEPT ![n].status = "pending"]
  /\ \E now \in BOOLEAN : due' = [due EXCEPT ![n] = now]
  /\ queueing' = [queueing EXCEPT ![n] = "inserted"]
  /\ UNCHANGED <<history, reachable, workers, mailbox, crashes, tangled>>

\* Then the first attempt, as the preferences say; a run that was faster has
\* made it, and the request fails (QueueingEnds).
InsertAttempt(n) ==
  /\ queueing[n] = "inserted"
  /\ history[n][1] = "none"
  /\ \E next \in {"no", "silencing", "delaying"} :
       /\ queueing' = [queueing EXCEPT ![n] = next]
       /\ history' = [history EXCEPT
                        ![n][1] = IF next = "silencing" THEN "skipped" ELSE "pending"]
  /\ UNCHANGED <<rows, due, reachable, workers, mailbox, crashes, tangled>>

\* Last the status, when the category is turned off, or eligible_at.
FinishQueueing(n) ==
  /\ \/ /\ queueing[n] = "silencing"
        /\ rows' = [rows EXCEPT ![n].status = "in_app_only"]
        /\ UNCHANGED due
     \/ /\ queueing[n] = "delaying"
        /\ due' = [due EXCEPT ![n] = FALSE]
        /\ UNCHANGED rows
  /\ queueing' = [queueing EXCEPT ![n] = "no"]
  /\ UNCHANGED <<history, reachable, workers, mailbox, crashes, tangled>>

\* The request fails or is killed.
QueueingEnds(n) ==
  /\ queueing[n] # "no"
  /\ queueing' = [queueing EXCEPT ![n] = "no"]
  /\ UNCHANGED <<rows, due, history, reachable, workers, mailbox, crashes, tangled>>

\* eligible_at passes.
BecomeDue(n) ==
  /\ rows[n].status \in Retryable
  /\ ~due[n]
  /\ due' = [due EXCEPT ![n] = TRUE]
  /\ UNCHANGED <<rows, queueing, history, reachable, workers, mailbox, crashes, tangled>>

\* A membership, a schedule grant or a verification code is withdrawn or given.
ChangeReach(n) ==
  /\ reachable' = [reachable EXCEPT ![n] = ~@]
  /\ UNCHANGED <<rows, due, queueing, history, workers, mailbox, crashes, tangled>>

-----------------------------------------------------------------------------
(***************************************************************************)
(* A run of deliver_due_notifications.                                     *)
(***************************************************************************)

\* Rows are ordered by creation, the newest first.
Newest(set) == {n \in set : Cardinality({m \in set : m > n}) < Limit}

\* Worker w has read the row of n and has not finished with it.
Holds(w, n) == workers[w] # Idle /\ n \in workers[w].todo

StartRun(w) ==
  LET selected == Newest({n \in Notifications :
                            rows[n].status \in Retryable /\ due[n]})
  IN  /\ workers[w] = Idle
      /\ selected # {}
      /\ workers' = [workers EXCEPT
                       ![w] = [step |-> "scanning", todo |-> selected,
                               retries |-> [n \in Notifications |->
                                  IF n \in selected THEN rows[n].retries ELSE 0]]]
      /\ tangled' = tangled \cup {n \in selected : \/ queueing[n] # "no"
                                                  \/ \E v \in Workers : Holds(v, n)}
      /\ UNCHANGED <<rows, due, queueing, history, reachable, mailbox, crashes>>

\* The notification that worker w is at, and the attempt it believes to make.
IsCurrent(w, n) ==
  workers[w].todo \cap {m \in Notifications : m >= n} = {n}

AttemptNumber(w, n) == workers[w].retries[n] + 1

\* The worker goes on to the next row of its batch.
Proceed(w, n) ==
  LET rest == workers[w].todo \ {n}
  IN  workers' = [workers EXCEPT
                    ![w] = IF rest = {} THEN Idle
                           ELSE [@ EXCEPT !.step = "scanning", !.todo = rest]]

\* The recipient may not receive this any more.
Skip(w, n) ==
  /\ workers[w].step = "scanning"
  /\ IsCurrent(w, n)
  /\ ~reachable[n]
  /\ rows' = [rows EXCEPT ![n].status = "skipped"]
  /\ history' = [history EXCEPT
                   ![n][AttemptNumber(w, n)] = IF @ = "none" THEN @ ELSE "skipped"]
  /\ Proceed(w, n)
  /\ UNCHANGED <<due, queueing, reachable, mailbox, crashes, tangled>>

Queue(w, n) ==
  /\ workers[w].step = "scanning"
  /\ IsCurrent(w, n)
  /\ reachable[n]
  /\ rows' = [rows EXCEPT ![n].status = "queued"]
  /\ history' = [history EXCEPT ![n][AttemptNumber(w, n)] = "queued"]
  /\ workers' = [workers EXCEPT ![w].step = "sending"]
  /\ UNCHANGED <<due, queueing, reachable, mailbox, crashes, tangled>>

\* send_mail: the message is accepted or refused, or accepted with an answer
\* that never arrives, which the worker cannot tell from a refusal.
Send(w, n) ==
  /\ workers[w].step = "sending"
  /\ IsCurrent(w, n)
  /\ \E accepted, answered \in BOOLEAN :
       /\ mailbox' = [mailbox EXCEPT ![n] = IF accepted THEN @ + 1 ELSE @]
       /\ workers' = [workers EXCEPT
                        ![w].step = IF accepted /\ answered THEN "accepted"
                                                            ELSE "refused"]
  /\ UNCHANGED <<rows, due, queueing, history, reachable, crashes, tangled>>

\* Mutant of RecordSent: the attempt is left as it was.
RecordSentOnly(w, n) ==
  /\ workers[w].step = "accepted"
  /\ IsCurrent(w, n)
  /\ rows' = [rows EXCEPT ![n].status = "sent"]
  /\ Proceed(w, n)
  /\ UNCHANGED <<due, queueing, history, reachable, mailbox, crashes, tangled>>

\* mark_notification_status(SENT)
RecordSent(w, n) ==
  /\ workers[w].step = "accepted"
  /\ IsCurrent(w, n)
  /\ rows' = [rows EXCEPT ![n].status = "sent"]
  /\ history' = [history EXCEPT ![n][AttemptNumber(w, n)] = "sent"]
  /\ Proceed(w, n)
  /\ UNCHANGED <<due, queueing, reachable, mailbox, crashes, tangled>>

\* Mutant of RecordFailed: a notification whose last attempt failed stays
\* queued.
RecordFailedQueued(w, n) ==
  /\ workers[w].step = "refused"
  /\ IsCurrent(w, n)
  /\ rows' = [rows EXCEPT
                ![n].status = IF workers[w].retries[n] < RetryLimit
                              THEN "retry_needed" ELSE @,
                ![n].retries = workers[w].retries[n] + 1]
  /\ due' = [due EXCEPT ![n] = FALSE]
  /\ history' = [history EXCEPT ![n][AttemptNumber(w, n)] = "failed"]
  /\ Proceed(w, n)
  /\ UNCHANGED <<queueing, reachable, mailbox, crashes, tangled>>

\* The row after a failure.
FailedRow(w, n) ==
  [status |-> IF workers[w].retries[n] < RetryLimit THEN "retry_needed" ELSE "failed",
   retries |-> workers[w].retries[n] + 1]

\* mark_notification_attempt_failed
RecordFailed(w, n) ==
  /\ workers[w].step = "refused"
  /\ IsCurrent(w, n)
  /\ rows' = [rows EXCEPT ![n] = FailedRow(w, n)]
  /\ due' = [due EXCEPT ![n] = FALSE]
  /\ history' = [history EXCEPT ![n][AttemptNumber(w, n)] = "failed"]
  /\ Proceed(w, n)
  /\ UNCHANGED <<queueing, reachable, mailbox, crashes, tangled>>

\* The worker process is killed; the rows stay as they are.
Crash(w) ==
  /\ workers[w] # Idle
  /\ crashes < MaxCrashes
  /\ workers' = [workers EXCEPT ![w] = Idle]
  /\ crashes' = crashes + 1
  /\ UNCHANGED <<rows, due, queueing, history, reachable, mailbox, tangled>>

\* It is killed after the first of the statements of Queue, RecordSent, Skip or
\* RecordFailed: the attempt is made and the row is not yet queued, or the row
\* says what the attempt does not.
CrashBetweenSaves(w, n) ==
  /\ workers[w] # Idle
  /\ IsCurrent(w, n)
  /\ crashes < MaxCrashes
  /\ \/ /\ workers[w].step = "scanning" /\ reachable[n]
        /\ rows' \in {rows, [rows EXCEPT ![n].status = "queued"]}
        /\ history' = [history EXCEPT
                         ![n][AttemptNumber(w, n)] = IF @ = "none" THEN "pending" ELSE @]
        /\ UNCHANGED due
     \/ /\ rows' = [rows EXCEPT
                      ![n] = CASE workers[w].step = "refused" -> FailedRow(w, n)
                               [] workers[w].step = "accepted" -> [@ EXCEPT !.status = "sent"]
                               [] OTHER -> [@ EXCEPT !.status = "skipped"]]
        /\ workers[w].step = "scanning" => ~reachable[n]
        /\ workers[w].step # "sending"
        /\ due' = [due EXCEPT ![n] = @ /\ workers[w].step # "refused"]
        /\ UNCHANGED history
  /\ workers' = [workers EXCEPT ![w] = Idle]
  /\ crashes' = crashes + 1
  /\ tangled' = tangled \cup {n}
  /\ UNCHANGED <<queueing, reachable, mailbox>>

Deliver(w) ==
  \/ StartRun(w)
  \/ \E n \in Notifications :
       \/ Skip(w, n)
       \/ Queue(w, n)
       \/ Send(w, n)
       \/ RecordSent(w, n)
       \/ RecordFailed(w, n)

DeliveryNext ==
  \/ \E n \in Notifications :
       \/ Enqueue(n) \/ InsertRow(n) \/ InsertAttempt(n) \/ FinishQueueing(n)
       \/ QueueingEnds(n) \/ BecomeDue(n) \/ ChangeReach(n)
  \/ \E w \in Workers :
       \/ Deliver(w)
       \/ Crash(w)
       \/ \E n \in Notifications : CrashBetweenSaves(w, n)

DeliverySpec == DeliveryInit /\ [][DeliveryNext]_deliveryVars

\* Time passes, and beat starts the task again and again.
FairDeliverySpec ==
  /\ DeliverySpec
  /\ \A n \in Notifications : WF_deliveryVars(BecomeDue(n))
  /\ \A w \in Workers : WF_deliveryVars(Deliver(w))

-----------------------------------------------------------------------------
(***************************************************************************)
(* Properties.                                                             *)
(***************************************************************************)

\* A notification is handled as it should unless two processes have held it at
\* once, two runs of the task or a run and the request that still queues it:
\* nothing is locked, so these repeat or undo each other's work
\* (deliver_due_notifications, enqueue_notification).  A run killed between its
\* saves of a row and of its attempt leaves them at odds.

\* Each attempt, named by its idempotency key, sends at most one message.
EachAttemptSendsOnce ==
  \A n \in Notifications \ tangled :
    mailbox[n] <= Cardinality({k \in Attempts :
                                 history[n][k] \notin {"none", "pending"}})

\* A notification that was delivered, given up or skipped is not touched again
\* (deliver_due_notifications selects no other).
SettledStaysSettled ==
  [][\A n \in Notifications \ tangled : Settled(n) => rows'[n] = rows[n]]_deliveryVars

\* The attempts an operator sees explain the status of the notification: every
\* counted failure is on record, and a delivery is recorded under the attempt
\* that made it (mark_notification_status, mark_notification_attempt_failed).
HistoryExplainsStatus ==
  \A n \in Notifications \ tangled :
    /\ \A k \in 1 .. rows[n].retries : history[n][k] = "failed"
    /\ rows[n].status = "failed" => rows[n].retries = RetryLimit + 1
    /\ rows[n].status = "sent" => history[n][rows[n].retries + 1] = "sent"
    /\ rows[n].status = "retry_needed" =>
         \A k \in Attempts : k > rows[n].retries => history[n][k] = "none"

\* What operators may rely on: the two invariants above.
AttemptsAreTrue == EachAttemptSendsOnce /\ HistoryExplainsStatus

\* A worker was killed, the row is marked queued and nobody is going to send or
\* record it.
Abandoned(n) ==
  /\ crashes > 0
  /\ rows[n].status = "queued"
  /\ \A w \in Workers : workers[w] # Idle => n \notin workers[w].todo

\* Whatever the mail server answers, a notification is delivered, skipped or
\* finally given up, unless the worker that had queued it was killed.
EventuallySettles ==
  \A n \in Notifications :
    rows[n].status \in Retryable ~> (Settled(n) \/ Abandoned(n))
=============================================================================
