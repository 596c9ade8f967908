-------------------------- MODULE NotificationProofs --------------------------
(***************************************************************************)
(* Theorems about notifications, for any number of notifications, workers, *)
(* risks, follow-ups and screens, first part by part and then of all parts *)
(* in MCNotifications, where each behaves as it does alone.                *)
(***************************************************************************)
EXTENDS MCNotifications, FiniteSetTheorems, SequenceTheorems, TLAPS

-----------------------------------------------------------------------------
(***************************************************************************)
(* Delivery by e-mail.                                                     *)
(***************************************************************************)

USE DeliveryAssumption

\* What the retry counter can be in each status: a row still to be sent has an
\* attempt left.
RetriesFit ==
  \A n \in Notifications :
    /\ rows[n].status \in {"absent", "pending"} => rows[n].retries = 0
    /\ rows[n].status \in Retryable => rows[n].retries <= RetryLimit
    /\ n \notin tangled =>
         (rows[n].status = "failed" <=> rows[n].retries = RetryLimit + 1)

\* The attempts up to the counter have failed, the next one is what the status
\* says, and those after it have not been made.
AttemptsFit ==
  \A n \in Notifications \ tangled : \A k \in Attempts :
    /\ k <= rows[n].retries => history[n][k] = "failed"
    /\ k = rows[n].retries + 1 =>
         /\ rows[n].status = "queued" => history[n][k] = "queued"
         /\ rows[n].status = "sent" => history[n][k] = "sent"
         /\ rows[n].status \in {"absent", "retry_needed"} => history[n][k] = "none"
    /\ k > rows[n].retries + 1 => history[n][k] = "none"

\* Each attempt up to the present one has sent a message at most.
MailFits ==
  \A n \in Notifications \ tangled :
    mailbox[n] <= rows[n].retries +
                  (IF rows[n].status \in {"queued", "sent"} THEN 1 ELSE 0)

\* The run has n before it, in the part of the batch it has not come to.
Awaits(w, n) == workers[w].step = "scanning" \/ ~IsCurrent(w, n)

\* One run holds the notification, and the row is still what the run has read
\* or has made of it itself.
HeldAsRead ==
  \A n \in Notifications \ tangled : \A w \in Workers :
    Holds(w, n) =>
      /\ \A v \in Workers : Holds(v, n) => v = w
      /\ workers[w].retries[n] = rows[n].retries
      /\ rows[n].retries <= RetryLimit
      /\ Awaits(w, n) => rows[n].status \in Retryable
      /\ ~Awaits(w, n) =>
           /\ rows[n].status = "queued"
           /\ workers[w].step = "sending" => mailbox[n] <= rows[n].retries

\* A request that still queues the notification is alone with it.
QueuedAlone ==
  \A n \in Notifications \ tangled :
    queueing[n] # "no" =>
      rows[n].status = "pending" /\ \A w \in Workers : ~Holds(w, n)

DeliveryInv ==
  /\ DeliveryTypeOK /\ RetriesFit /\ AttemptsFit /\ MailFits
  /\ HeldAsRead /\ QueuedAlone

\* What a run does to a row it holds concerns no request that queues another.
LEMMA StaysAlone ==
  ASSUME QueuedAlone, NEW w \in Workers, NEW n \in Notifications, Holds(w, n),
         queueing' = queueing, tangled \subseteq tangled',
         \A m \in Notifications : m # n => rows'[m] = rows[m],
         \A v \in Workers, m \in Notifications : Holds(v, m)' => Holds(v, m)
  PROVE  QueuedAlone'
BY DEF QueuedAlone

\* A request that queues a row is no business of the runs.
LEMMA HeldElsewhere ==
  ASSUME HeldAsRead, NEW n \in Notifications, UNCHANGED <<workers, mailbox, tangled>>,
         n \notin tangled => \A w \in Workers : ~Holds(w, n),
         \A m \in Notifications : m # n => rows'[m] = rows[m]
  PROVE  HeldAsRead'
<1>1. \A m \in Notifications \ tangled, w \in Workers : Holds(w, m) => m # n
  OBVIOUS
<1> QED
  BY <1>1 DEF HeldAsRead, Holds, Awaits, IsCurrent

\* The current notification of a run is the newest it has left.
LEMMA CurrentIsHeld ==
  ASSUME DeliveryTypeOK, NEW w \in Workers, NEW n \in Notifications,
         workers[w].step # "idle", IsCurrent(w, n)
  PROVE  /\ Holds(w, n) /\ workers[w] \in Run
         /\ \A m \in Notifications : Holds(w, m) /\ IsCurrent(w, m) => m = n
<1>1. workers[w] \in {Idle} \cup Run
  BY DEF DeliveryTypeOK
<1>2. workers[w] # Idle
  BY DEF Idle
<1>3. workers[w] \in Run
  BY <1>1, <1>2
<1>4. n \in workers[w].todo
  BY DEF IsCurrent
<1>5. Holds(w, n)
  BY <1>2, <1>4 DEF Holds
<1>6. ASSUME NEW m \in Notifications, Holds(w, m), IsCurrent(w, m)
      PROVE  m = n
  <2>1. m \in workers[w].todo
    BY <1>6 DEF Holds
  <2>2. m \in Int /\ n \in Int
    BY DeliveryAssumption
  <2>3. m >= n => m = n
    BY <2>1 DEF IsCurrent
  <2>4. n >= m => m = n
    BY <1>4, <1>6 DEF IsCurrent
  <2> QED
    BY <2>2, <2>3, <2>4
<1> QED
  BY <1>3, <1>5, <1>6

\* What proceeding to the next row does.
LEMMA ProceedLeaves ==
  ASSUME DeliveryTypeOK, NEW w \in Workers, NEW n \in Notifications,
         workers[w].step # "idle", IsCurrent(w, n), Proceed(w, n)
  PROVE  /\ workers' \in [Workers -> {Idle} \cup Run]
         /\ \A v \in Workers : v # w => workers'[v] = workers[v]
         /\ workers'[w] # Idle =>
              /\ workers'[w].step = "scanning"
              /\ workers'[w].todo = workers[w].todo \ {n}
              /\ workers'[w].retries = workers[w].retries
<1>1. workers[w] \in Run /\ n \in workers[w].todo
  BY CurrentIsHeld DEF Holds
<1>2. workers \in [Workers -> {Idle} \cup Run]
  BY DEF DeliveryTypeOK
<1>3. CASE workers[w].todo \ {n} = {}
  <2>1. workers' = [workers EXCEPT ![w] = Idle]
    BY <1>2, <1>3 DEF Proceed
  <2> QED
    BY <1>2, <2>1
<1>4. CASE workers[w].todo \ {n} # {}
  <2> DEFINE next == [workers[w] EXCEPT !.step = "scanning", !.todo = workers[w].todo \ {n}]
  <2>1. workers' = [workers EXCEPT ![w] = next]
    BY <1>2, <1>4 DEF Proceed
  <2>2. /\ next \in Run /\ next.step = "scanning" /\ next.todo = workers[w].todo \ {n}
        /\ next.retries = workers[w].retries
    BY <1>1, <1>4 DEF Run
  <2> HIDE DEF next
  <2> QED
    BY <1>2, <2>1, <2>2
<1> QED
  BY <1>3, <1>4

\* A run that has finished a row has left it, and waits for the others.
LEMMA FinishKeepsHeld ==
  ASSUME DeliveryTypeOK, HeldAsRead, NEW w \in Workers, NEW n \in Notifications,
         workers[w].step # "idle", IsCurrent(w, n), Proceed(w, n),
         tangled' = tangled, mailbox' = mailbox,
         \A m \in Notifications : m # n => rows'[m] = rows[m]
  PROVE  HeldAsRead'
<1>1. /\ \A v \in Workers : v # w => workers'[v] = workers[v]
      /\ workers'[w] # Idle =>
           /\ workers'[w].step = "scanning"
           /\ workers'[w].todo = workers[w].todo \ {n}
           /\ workers'[w].retries = workers[w].retries
  BY ProceedLeaves
<1>2. /\ Holds(w, n)
      /\ \A m \in Notifications : Holds(w, m) /\ IsCurrent(w, m) => m = n
  BY CurrentIsHeld
<1>3. ASSUME NEW v \in Workers, NEW m \in Notifications, Holds(v, m)'
      PROVE  /\ Holds(v, m) /\ (v = w => m # n)
             /\ workers'[v].retries = workers[v].retries
             /\ v = w => Awaits(v, m)'
             /\ v # w => /\ Awaits(v, m)' <=> Awaits(v, m)
                         /\ workers'[v].step = workers[v].step
  BY <1>1, <1>2, <1>3 DEF Holds, Awaits, IsCurrent
<1>4. SUFFICES ASSUME NEW m \in Notifications \ tangled, NEW v \in Workers, Holds(v, m)'
               PROVE  /\ \A u \in Workers : Holds(u, m)' => u = v
                      /\ workers'[v].retries[m] = rows'[m].retries
                      /\ rows'[m].retries <= RetryLimit
                      /\ Awaits(v, m)' => rows'[m].status \in Retryable
                      /\ ~Awaits(v, m)' =>
                           /\ rows'[m].status = "queued"
                           /\ workers'[v].step = "sending" =>
                                mailbox'[m] <= rows'[m].retries
  BY DEF HeldAsRead
<1>5. Holds(v, m) /\ m \in Notifications
  BY <1>3, <1>4
<1>6. \A u \in Workers : Holds(u, m)' => u = v
  BY <1>3, <1>5 DEF HeldAsRead
<1>7. m # n
  BY <1>2, <1>3, <1>4, <1>5 DEF HeldAsRead
<1>8. rows'[m] = rows[m] /\ mailbox'[m] = mailbox[m]
  BY <1>5, <1>7
<1>9. CASE v = w
  <2>1. Awaits(w, m)
    BY <1>2, <1>5, <1>7, <1>9 DEF Awaits
  <2> QED
    BY <1>3, <1>4, <1>5, <1>6, <1>8, <1>9, <2>1 DEF HeldAsRead
<1>10. CASE v # w
  <2>1. /\ workers[v].retries[m] = rows[m].retries
        /\ rows[m].retries <= RetryLimit
        /\ Awaits(v, m) => rows[m].status \in Retryable
        /\ ~Awaits(v, m) =>
             /\ rows[m].status = "queued"
             /\ workers[v].step = "sending" => mailbox[m] <= rows[m].retries
    BY <1>4, <1>5 DEF HeldAsRead
  <2>2. /\ workers'[v].retries = workers[v].retries
        /\ Awaits(v, m)' <=> Awaits(v, m)
        /\ workers'[v].step = workers[v].step
    BY <1>3, <1>4, <1>10
  <2> QED
    BY <1>6, <1>8, <2>1, <2>2
<1> QED
  BY <1>9, <1>10

\* The current row of a run that nobody shares is as the run has read it.
LEMMA CurrentAsRead ==
  ASSUME DeliveryInv, NEW w \in Workers, NEW n \in Notifications,
         workers[w].step # "idle", IsCurrent(w, n)
  PROVE  /\ workers[w].retries[n] \in 0 .. RetryLimit
         /\ rows[n] \in [status : Status, retries : 0 .. RetryLimit + 1]
         /\ AttemptNumber(w, n) \in Attempts
         /\ n \notin tangled =>
              /\ workers[w].retries[n] = rows[n].retries
              /\ rows[n].retries \in 0 .. RetryLimit
              /\ workers[w].step = "scanning" => rows[n].status \in Retryable
              /\ workers[w].step # "scanning" => rows[n].status = "queued"
              /\ workers[w].step = "sending" => mailbox[n] <= rows[n].retries
<1>1. DeliveryTypeOK /\ HeldAsRead
  BY DEF DeliveryInv
<1>2. Holds(w, n) /\ workers[w] \in Run
  BY <1>1, CurrentIsHeld
<1>3. rows[n] \in [status : Status, retries : 0 .. RetryLimit + 1]
  BY <1>1 DEF DeliveryTypeOK
<1>4. workers[w].retries[n] \in 0 .. RetryLimit
  BY <1>2 DEF Run
<1>5. AttemptNumber(w, n) \in Attempts
  BY <1>4 DEF AttemptNumber, Attempts
<1>6. ASSUME n \notin tangled
      PROVE  /\ workers[w].retries[n] = rows[n].retries
             /\ workers[w].step = "scanning" => rows[n].status \in Retryable
             /\ workers[w].step # "scanning" => rows[n].status = "queued"
             /\ workers[w].step = "sending" => mailbox[n] <= rows[n].retries
  BY <1>1, <1>2, <1>6 DEF HeldAsRead, Awaits
<1> QED
  BY <1>3, <1>4, <1>5, <1>6

\* A row that is not there yet is held and queued by nobody.
LEMMA NextIsFree ==
  ASSUME DeliveryInv, NEW n \in Notifications, IsNext(n)
  PROVE  /\ rows[n].status = "absent" /\ rows[n].retries = 0
         /\ rows[n] \in [status : Status, retries : 0 .. RetryLimit + 1]
         /\ n \notin tangled =>
              queueing[n] = "no" /\ \A w \in Workers : ~Holds(w, n)
<1>1. DeliveryTypeOK /\ RetriesFit /\ HeldAsRead /\ QueuedAlone
  BY DEF DeliveryInv
<1>2. rows[n].status = "absent"
  BY DEF IsNext
<1> QED
  BY <1>1, <1>2 DEF DeliveryTypeOK, RetriesFit, HeldAsRead, QueuedAlone, Retryable

\* enqueue_notification in one transaction.
LEMMA EnqueueKeeps ==
  ASSUME DeliveryInv, NEW n \in Notifications, Enqueue(n)
  PROVE  DeliveryInv'
<1>1. /\ DeliveryTypeOK /\ RetriesFit /\ AttemptsFit /\ MailFits /\ HeldAsRead
      /\ QueuedAlone
  BY DEF DeliveryInv
<1>2. /\ rows[n].status = "absent" /\ rows[n].retries = 0
      /\ rows[n] \in [status : Status, retries : 0 .. RetryLimit + 1]
      /\ n \notin tangled =>
           queueing[n] = "no" /\ \A w \in Workers : ~Holds(w, n)
  BY NextIsFree DEF Enqueue
<1>3. PICK status \in {"pending", "in_app_only"},
           first \in {"none", "pending", "skipped"} :
        /\ rows' = [rows EXCEPT ![n].status = status]
        /\ history' = [history EXCEPT ![n][1] = first]
  BY DEF Enqueue
<1>4. /\ due' \in [Notifications -> BOOLEAN]
      /\ UNCHANGED <<queueing, reachable, workers, mailbox, crashes, tangled>>
  BY <1>1 DEF Enqueue, DeliveryTypeOK
<1>5. 1 \in Attempts
  BY DEF Attempts
<1>6. /\ rows' \in [Notifications -> [status : Status, retries : 0 .. RetryLimit + 1]]
      /\ rows'[n].status = status /\ rows'[n].retries = 0
      /\ \A m \in Notifications : m # n => rows'[m] = rows[m]
  <2>1. [rows[n] EXCEPT !.status = status]
          \in [status : Status, retries : 0 .. RetryLimit + 1]
    BY <1>2 DEF Status
  <2> QED
    BY <1>1, <1>2, <1>3, <2>1 DEF DeliveryTypeOK
<1>7. /\ history' \in [Notifications -> [Attempts -> AttemptState]]
      /\ \A m \in Notifications : m # n => history'[m] = history[m]
      /\ \A k \in Attempts : k # 1 => history'[n][k] = history[n][k]
  BY <1>1, <1>3, <1>5 DEF DeliveryTypeOK, AttemptState
<1>8. DeliveryTypeOK'
  BY <1>1, <1>4, <1>6, <1>7 DEF DeliveryTypeOK
<1>9. RetriesFit'
  BY <1>1, <1>4, <1>6 DEF RetriesFit, Retryable
<1>10. AttemptsFit'
  <2>1. ASSUME NEW m \in Notifications \ tangled, NEW k \in Attempts, m # n
        PROVE  rows'[m] = rows[m] /\ history'[m][k] = history[m][k]
    BY <1>6, <1>7, <2>1
  <2>2. ASSUME n \notin tangled, NEW k \in Attempts, k > 1
        PROVE  history'[n][k] = "none"
    <3>1. history[n][k] = "none"
      BY <1>1, <1>2, <2>2 DEF AttemptsFit, Attempts
    <3> QED
      BY <1>7, <2>2, <3>1
  <2>3. status \notin {"queued", "sent", "absent", "retry_needed"}
    OBVIOUS
  <2>4. ASSUME NEW m \in Notifications \ tangled, NEW k \in Attempts
        PROVE  /\ k <= rows'[m].retries => history'[m][k] = "failed"
               /\ k = rows'[m].retries + 1 =>
                    /\ rows'[m].status = "queued" => history'[m][k] = "queued"
                    /\ rows'[m].status = "sent" => history'[m][k] = "sent"
                    /\ rows'[m].status \in {"absent", "retry_needed"} =>
                         history'[m][k] = "none"
               /\ k > rows'[m].retries + 1 => history'[m][k] = "none"
    <3>1. CASE m = n
      BY <1>6, <2>2, <2>3, <2>4, <3>1 DEF Attempts
    <3>2. CASE m # n
      BY <1>1, <2>1, <2>4, <3>2 DEF AttemptsFit
    <3> QED
      BY <3>1, <3>2
  <2> QED
    BY <1>4, <2>4 DEF AttemptsFit
<1>11. MailFits'
  BY <1>1, <1>2, <1>4, <1>6 DEF MailFits
<1>12. HeldAsRead'
  BY <1>1, <1>2, <1>4, <1>6, HeldElsewhere
<1>13. QueuedAlone'
  BY <1>1, <1>2, <1>4, <1>6 DEF QueuedAlone, Holds
<1> QED
  BY <1>8, <1>9, <1>10, <1>11, <1>12, <1>13 DEF DeliveryInv

\* The row alone.
LEMMA InsertRowKeeps ==
  ASSUME DeliveryInv, NEW n \in Notifications, InsertRow(n)
  PROVE  DeliveryInv'
<1>1. /\ DeliveryTypeOK /\ RetriesFit /\ AttemptsFit /\ MailFits /\ HeldAsRead
      /\ QueuedAlone
  BY DEF DeliveryInv
<1>2. /\ rows[n].status = "absent" /\ rows[n].retries = 0
      /\ rows[n] \in [status : Status, retries : 0 .. RetryLimit + 1]
      /\ n \notin tangled => \A w \in Workers : ~Holds(w, n)
  BY NextIsFree DEF InsertRow
<1>3. /\ rows' = [rows EXCEPT ![n].status = "pending"]
      /\ due' \in [Notifications -> BOOLEAN]
      /\ queueing' = [queueing EXCEPT ![n] = "inserted"]
      /\ UNCHANGED <<history, reachable, workers, mailbox, crashes, tangled>>
  BY <1>1 DEF InsertRow, DeliveryTypeOK
<1>4. /\ rows' \in [Notifications -> [status : Status, retries : 0 .. RetryLimit + 1]]
      /\ rows'[n].status = "pending" /\ rows'[n].retries = 0
      /\ \A m \in Notifications : m # n => rows'[m] = rows[m]
  <2>1. [rows[n] EXCEPT !.status = "pending"]
          \in [status : Status, retries : 0 .. RetryLimit + 1]
    BY <1>2 DEF Status
  <2> QED
    BY <1>1, <1>2, <1>3, <2>1 DEF DeliveryTypeOK
<1>5. DeliveryTypeOK'
  BY <1>1, <1>3, <1>4 DEF DeliveryTypeOK
<1>6. RetriesFit'
  BY <1>1, <1>3, <1>4 DEF RetriesFit, Retryable
<1>7. AttemptsFit'
  BY <1>1, <1>2, <1>3, <1>4 DEF AttemptsFit
<1>8. MailFits'
  BY <1>1, <1>2, <1>3, <1>4 DEF MailFits
<1>9. HeldAsRead'
  BY <1>1, <1>2, <1>3, <1>4, HeldElsewhere
<1>10. QueuedAlone'
  <2>1. \A m \in Notifications : m # n => queueing'[m] = queueing[m]
    BY <1>1, <1>3 DEF DeliveryTypeOK
  <2> QED
    BY <1>1, <1>2, <1>3, <1>4, <2>1 DEF QueuedAlone, Holds
<1> QED
  BY <1>5, <1>6, <1>7, <1>8, <1>9, <1>10 DEF DeliveryInv

\* The first attempt of a row that nobody else has taken up says nothing yet.
LEMMA InsertAttemptKeeps ==
  ASSUME DeliveryInv, NEW n \in Notifications, InsertAttempt(n)
  PROVE  DeliveryInv'
<1>1. /\ DeliveryTypeOK /\ RetriesFit /\ AttemptsFit /\ MailFits /\ HeldAsRead
      /\ QueuedAlone
  BY DEF DeliveryInv
<1>2. PICK next \in {"no", "silencing", "delaying"}, first \in {"skipped", "pending"} :
        /\ queueing' = [queueing EXCEPT ![n] = next]
        /\ history' = [history EXCEPT ![n][1] = first]
  BY DEF InsertAttempt
<1>3. /\ queueing[n] = "inserted" /\ 1 \in Attempts
      /\ UNCHANGED <<rows, due, reachable, workers, mailbox, crashes, tangled>>
  BY DEF InsertAttempt, Attempts
<1>4. /\ history' \in [Notifications -> [Attempts -> AttemptState]]
      /\ \A m \in Notifications, k \in Attempts :
           m # n \/ k # 1 => history'[m][k] = history[m][k]
  BY <1>1, <1>2, <1>3 DEF DeliveryTypeOK, AttemptState
<1>5. /\ queueing' \in [Notifications -> {"no", "inserted", "silencing", "delaying"}]
      /\ \A m \in Notifications : m # n => queueing'[m] = queueing[m]
  BY <1>1, <1>2 DEF DeliveryTypeOK
<1>6. DeliveryTypeOK'
  BY <1>1, <1>3, <1>4, <1>5 DEF DeliveryTypeOK
<1>7. RetriesFit' /\ MailFits' /\ HeldAsRead'
  BY <1>1, <1>3 DEF RetriesFit, MailFits, HeldAsRead, Holds, Awaits, IsCurrent
<1>8. AttemptsFit'
  <2>1. n \notin tangled => rows[n].status = "pending" /\ rows[n].retries = 0
    BY <1>1, <1>3 DEF QueuedAlone, RetriesFit
  <2>2. ASSUME NEW m \in Notifications \ tangled, NEW k \in Attempts, m = n, k = 1
        PROVE  /\ k <= rows[m].retries => history'[m][k] = "failed"
               /\ k = rows[m].retries + 1 =>
                    rows[m].status \notin {"queued", "sent", "absent", "retry_needed"}
               /\ k > rows[m].retries + 1 => history'[m][k] = "none"
    BY <2>1, <2>2
  <2>3. ASSUME NEW m \in Notifications \ tangled, NEW k \in Attempts
        PROVE  /\ k <= rows[m].retries => history'[m][k] = "failed"
               /\ k = rows[m].retries + 1 =>
                    /\ rows[m].status = "queued" => history'[m][k] = "queued"
                    /\ rows[m].status = "sent" => history'[m][k] = "sent"
                    /\ rows[m].status \in {"absent", "retry_needed"} =>
                         history'[m][k] = "none"
               /\ k > rows[m].retries + 1 => history'[m][k] = "none"
    <3>1. CASE m = n /\ k = 1
      BY <2>2, <2>3, <3>1
    <3>2. CASE ~(m = n /\ k = 1)
      BY <1>1, <1>4, <2>3, <3>2 DEF AttemptsFit
    <3> QED
      BY <3>1, <3>2
  <2> QED
    BY <1>3, <2>3 DEF AttemptsFit
<1>9. QueuedAlone'
  BY <1>1, <1>3, <1>5 DEF QueuedAlone, Holds
<1> QED
  BY <1>6, <1>7, <1>8, <1>9 DEF DeliveryInv

\* What the preferences say is saved last, in a row nobody else has taken up.
LEMMA FinishQueueingKeeps ==
  ASSUME DeliveryInv, NEW n \in Notifications, FinishQueueing(n) \/ QueueingEnds(n)
  PROVE  DeliveryInv'
<1>1. /\ DeliveryTypeOK /\ RetriesFit /\ AttemptsFit /\ MailFits /\ HeldAsRead
      /\ QueuedAlone
  BY DEF DeliveryInv
<1>2. /\ queueing[n] # "no" /\ queueing' = [queueing EXCEPT ![n] = "no"]
      /\ rows' = rows \/ rows' = [rows EXCEPT ![n].status = "in_app_only"]
      /\ due' \in [Notifications -> BOOLEAN]
      /\ UNCHANGED <<history, reachable, workers, mailbox, crashes, tangled>>
  BY <1>1 DEF FinishQueueing, QueueingEnds, DeliveryTypeOK
<1>3. /\ n \notin tangled =>
           rows[n].status = "pending" /\ \A w \in Workers : ~Holds(w, n)
      /\ rows[n].status = "pending" => rows[n].retries = 0
  BY <1>1, <1>2 DEF QueuedAlone, RetriesFit
<1>4. /\ rows' \in [Notifications -> [status : Status, retries : 0 .. RetryLimit + 1]]
      /\ rows'[n].retries = rows[n].retries
      /\ rows'[n] = rows[n] \/ rows'[n].status = "in_app_only"
      /\ \A m \in Notifications : m # n => rows'[m] = rows[m]
  <2>1. rows[n] \in [status : Status, retries : 0 .. RetryLimit + 1]
    BY <1>1 DEF DeliveryTypeOK
  <2>2. [rows[n] EXCEPT !.status = "in_app_only"]
          \in [status : Status, retries : 0 .. RetryLimit + 1]
    BY <2>1 DEF Status
  <2> QED
    BY <1>1, <1>2, <2>1, <2>2 DEF DeliveryTypeOK
<1>5. /\ queueing' \in [Notifications -> {"no", "inserted", "silencing", "delaying"}]
      /\ queueing'[n] = "no" /\ \A m \in Notifications : m # n => queueing'[m] = queueing[m]
  BY <1>1, <1>2 DEF DeliveryTypeOK
<1>6. DeliveryTypeOK'
  BY <1>1, <1>2, <1>4, <1>5 DEF DeliveryTypeOK
<1>7. RetriesFit'
  <2>1. n \notin tangled => rows[n].retries # RetryLimit + 1
    BY <1>3
  <2>2. ASSUME NEW m \in Notifications
        PROVE  /\ rows'[m].status \in {"absent", "pending"} => rows'[m].retries = 0
               /\ rows'[m].status \in Retryable => rows'[m].retries <= RetryLimit
               /\ m \notin tangled =>
                    (rows'[m].status = "failed" <=> rows'[m].retries = RetryLimit + 1)
    <3>1. CASE rows'[m] = rows[m]
      BY <1>1, <3>1 DEF RetriesFit
    <3>2. CASE m = n /\ rows'[n].status = "in_app_only"
      BY <1>4, <2>1, <3>2 DEF Retryable
    <3> QED
      BY <1>4, <3>1, <3>2
  <2> QED
    BY <1>2, <2>2 DEF RetriesFit
<1>8. AttemptsFit'
  BY <1>1, <1>2, <1>4 DEF AttemptsFit
<1>9. MailFits'
  <2>1. ASSUME NEW m \in Notifications \ tangled
        PROVE  mailbox[m] <= rows'[m].retries +
                             (IF rows'[m].status \in {"queued", "sent"} THEN 1 ELSE 0)
    <3>1. CASE m = n
      <4>1. rows[m].status = "pending" /\ mailbox[m] <= rows[m].retries + 0
        BY <1>1, <1>3, <2>1, <3>1 DEF MailFits
      <4> QED
        BY <1>4, <3>1, <4>1
    <3>2. CASE m # n
      BY <1>1, <1>4, <2>1, <3>2 DEF MailFits
    <3> QED
      BY <3>1, <3>2
  <2> QED
    BY <1>2, <2>1 DEF MailFits
<1>10. HeldAsRead'
  BY <1>1, <1>2, <1>3, <1>4, HeldElsewhere
<1>11. QueuedAlone'
  BY <1>1, <1>2, <1>4, <1>5 DEF QueuedAlone, Holds
<1> QED
  BY <1>6, <1>7, <1>8, <1>9, <1>10, <1>11 DEF DeliveryInv

\* Time and the recipients' rights change nothing that is on record.
LEMMA OutsideKeeps ==
  ASSUME DeliveryInv, NEW n \in Notifications, BecomeDue(n) \/ ChangeReach(n)
  PROVE  DeliveryInv'
<1>1. /\ DeliveryTypeOK /\ RetriesFit /\ AttemptsFit /\ MailFits /\ HeldAsRead
      /\ QueuedAlone
  BY DEF DeliveryInv
<1>2. /\ due' \in [Notifications -> BOOLEAN] /\ reachable' \in [Notifications -> BOOLEAN]
      /\ UNCHANGED <<rows, queueing, history, workers, mailbox, crashes, tangled>>
  BY <1>1 DEF BecomeDue, ChangeReach, DeliveryTypeOK
<1>3. DeliveryTypeOK'
  BY <1>1, <1>2 DEF DeliveryTypeOK
<1>4. RetriesFit' /\ AttemptsFit' /\ MailFits'
  BY <1>1, <1>2 DEF RetriesFit, AttemptsFit, MailFits
<1>5. HeldAsRead' /\ QueuedAlone'
  BY <1>1, <1>2 DEF HeldAsRead, QueuedAlone, Holds, Awaits, IsCurrent
<1> QED
  BY <1>3, <1>4, <1>5 DEF DeliveryInv

\* A run reads rows that are to be sent; whoever holds or queues one of them is
\* tangled with it from now on.
LEMMA StartKeeps ==
  ASSUME DeliveryInv, NEW w \in Workers, StartRun(w)
  PROVE  DeliveryInv'
<1> DEFINE selected == Newest({n \in Notifications :
                                 rows[n].status \in Retryable /\ due[n]})
           retries == [n \in Notifications |-> IF n \in selected THEN rows[n].retries ELSE 0]
           run == [step |-> "scanning", todo |-> selected, retries |-> retries]
<1>1. /\ DeliveryTypeOK /\ RetriesFit /\ AttemptsFit /\ MailFits /\ HeldAsRead
      /\ QueuedAlone
  BY DEF DeliveryInv
<1>2. /\ workers[w] = Idle /\ selected # {}
      /\ workers' = [workers EXCEPT ![w] = run]
      /\ tangled' = tangled \cup {n \in selected : \/ queueing[n] # "no"
                                                   \/ \E v \in Workers : Holds(v, n)}
      /\ UNCHANGED <<rows, due, queueing, history, reachable, mailbox, crashes>>
  BY DEF StartRun
<1>3. \A n \in selected : n \in Notifications /\ rows[n].status \in Retryable
  BY DEF Newest
<1>4. retries \in [Notifications -> 0 .. RetryLimit]
  <2>1. \A n \in selected : rows[n].retries \in 0 .. RetryLimit
    <3>1. SUFFICES ASSUME NEW n \in selected
                   PROVE  rows[n].retries \in 0 .. RetryLimit
      OBVIOUS
    <3>2. n \in Notifications /\ rows[n].retries <= RetryLimit
      BY <1>1, <1>3 DEF RetriesFit
    <3>3. rows[n].retries \in 0 .. RetryLimit + 1
      BY <1>1, <3>2 DEF DeliveryTypeOK
    <3> HIDE DEF selected
    <3> QED
      BY <3>2, <3>3
  <2> HIDE DEF selected
  <2> QED
    BY <2>1
<1>5. \A n \in selected : retries[n] = rows[n].retries
  BY <1>3
<1> HIDE DEF selected, retries
<1>6. /\ run \in Run /\ run.step = "scanning" /\ run.todo = selected
      /\ run.retries = retries /\ run # Idle
  <2>1. selected \in (SUBSET Notifications) \ {{}}
    BY <1>2, <1>3
  <2> QED
    BY <1>4, <2>1 DEF Run, Idle
<1> HIDE DEF run
<1>7. /\ workers' \in [Workers -> {Idle} \cup Run]
      /\ workers'[w] = run
      /\ \A v \in Workers : v # w => workers'[v] = workers[v]
  BY <1>1, <1>2, <1>6 DEF DeliveryTypeOK
<1>8. DeliveryTypeOK'
  BY <1>1, <1>2, <1>3, <1>7 DEF DeliveryTypeOK
<1>9. RetriesFit' /\ AttemptsFit' /\ MailFits'
  BY <1>1, <1>2 DEF RetriesFit, AttemptsFit, MailFits
<1>10. ASSUME NEW n \in Notifications \ tangled', NEW v \in Workers, Holds(v, n)'
       PROVE  /\ \A u \in Workers : Holds(u, n)' => u = v
              /\ workers'[v].retries[n] = rows[n].retries
              /\ rows[n].retries <= RetryLimit
              /\ Awaits(v, n)' => rows[n].status \in Retryable
              /\ ~Awaits(v, n)' =>
                   /\ rows[n].status = "queued"
                   /\ workers'[v].step = "sending" => mailbox[n] <= rows[n].retries
  <2>1. n \in Notifications \ tangled
    BY <1>2, <1>10
  <2>2. \A u \in Workers : n \in selected => ~Holds(u, n)
    BY <1>2, <1>10
  <2>3. \A u \in Workers : Holds(u, n)' =>
          \/ u = w /\ n \in selected
          \/ u # w /\ Holds(u, n)
    BY <1>6, <1>7 DEF Holds
  <2>4. CASE v = w
    <3>1. n \in selected
      BY <1>10, <2>3, <2>4
    <3>2. \A u \in Workers : Holds(u, n)' => u = v
      BY <2>2, <2>3, <2>4, <3>1
    <3>3. /\ workers'[v].retries[n] = rows[n].retries
          /\ rows[n].status \in Retryable /\ rows[n].retries <= RetryLimit
      BY <1>1, <1>3, <1>5, <1>6, <1>7, <2>4, <3>1 DEF RetriesFit
    <3>4. Awaits(v, n)'
      BY <1>6, <1>7, <2>4 DEF Awaits
    <3> QED
      BY <3>2, <3>3, <3>4
  <2>5. CASE v # w
    <3>1. Holds(v, n) /\ n \notin selected
      BY <1>10, <2>2, <2>3, <2>5
    <3>2. workers'[v] = workers[v] /\ (Awaits(v, n)' <=> Awaits(v, n))
      BY <1>7, <2>5 DEF Awaits, IsCurrent
    <3>3. \A u \in Workers : Holds(u, n)' => u = v
      BY <1>1, <2>1, <2>3, <3>1 DEF HeldAsRead
    <3> QED
      BY <1>1, <2>1, <3>1, <3>2, <3>3 DEF HeldAsRead
  <2> QED
    BY <2>4, <2>5
<1>11. HeldAsRead'
  BY <1>2, <1>10 DEF HeldAsRead
<1>12. QueuedAlone'
  <2>1. ASSUME NEW n \in Notifications \ tangled', queueing[n] # "no"
        PROVE  /\ rows[n].status = "pending"
               /\ \A v \in Workers : ~Holds(v, n)'
    <3>1. n \notin tangled /\ n \notin selected
      BY <1>2, <2>1
    <3>2. rows[n].status = "pending" /\ \A v \in Workers : ~Holds(v, n)
      BY <1>1, <2>1, <3>1 DEF QueuedAlone
    <3> QED
      BY <1>6, <1>7, <3>1, <3>2 DEF Holds
  <2> QED
    BY <1>2, <2>1 DEF QueuedAlone
<1> QED
  BY <1>8, <1>9, <1>11, <1>12 DEF DeliveryInv

\* The last step of a run about a row: the row and its attempt get a result that
\* fits the row the run has read.
LEMMA FinishKeeps ==
  ASSUME DeliveryInv, NEW w \in Workers, NEW n \in Notifications,
         workers[w].step # "idle", IsCurrent(w, n), Proceed(w, n),
         NEW row \in [status : Status, retries : 0 .. RetryLimit + 1],
         NEW state \in AttemptState,
         rows' = [rows EXCEPT ![n] = row],
         history' = [history EXCEPT ![n][AttemptNumber(w, n)] = state],
         due' \in [Notifications -> BOOLEAN],
         UNCHANGED <<queueing, reachable, mailbox, crashes, tangled>>,
         row.status \in {"skipped", "sent", "retry_needed", "failed"},
         row.status = "retry_needed" => row.retries <= RetryLimit,
         n \notin tangled =>
           /\ row.status = "failed" <=> row.retries = RetryLimit + 1
           /\ \/ /\ row.retries = rows[n].retries
                 /\ row.status # "skipped" => row.status = "sent" /\ state = "sent"
              \/ /\ row.retries = rows[n].retries + 1 /\ state = "failed"
                 /\ row.status \in {"retry_needed", "failed"}
           /\ mailbox[n] <= row.retries + (IF row.status = "sent" THEN 1 ELSE 0)
  PROVE  DeliveryInv'
<1> DEFINE a == AttemptNumber(w, n)
<1>1. /\ DeliveryTypeOK /\ RetriesFit /\ AttemptsFit /\ MailFits /\ HeldAsRead
      /\ QueuedAlone
  BY DEF DeliveryInv
<1>2. /\ a \in Attempts /\ a = workers[w].retries[n] + 1
      /\ rows[n] \in [status : Status, retries : 0 .. RetryLimit + 1]
      /\ n \notin tangled => a = rows[n].retries + 1 /\ rows[n].retries \in 0 .. RetryLimit
  <2>1. a = workers[w].retries[n] + 1
    BY DEF AttemptNumber
  <2> QED
    BY <2>1, CurrentAsRead
<1>3. history' = [history EXCEPT ![n][a] = state]
  OBVIOUS
<1> HIDE DEF a
<1>4. /\ rows' \in [Notifications -> [status : Status, retries : 0 .. RetryLimit + 1]]
      /\ rows'[n] = row
      /\ \A m \in Notifications : m # n => rows'[m] = rows[m]
  BY <1>1 DEF DeliveryTypeOK
<1>5. /\ history' \in [Notifications -> [Attempts -> AttemptState]]
      /\ \A m \in Notifications : m # n => history'[m] = history[m]
      /\ history'[n][a] = state
      /\ \A k \in Attempts : k # a => history'[n][k] = history[n][k]
  <2> DEFINE attempts == [history[n] EXCEPT ![a] = state]
  <2>1. history \in [Notifications -> [Attempts -> AttemptState]]
    BY <1>1 DEF DeliveryTypeOK
  <2>2. history' = [history EXCEPT ![n] = attempts]
    BY <1>3
  <2>3. /\ attempts \in [Attempts -> AttemptState] /\ attempts[a] = state
        /\ \A k \in Attempts : k # a => attempts[k] = history[n][k]
    BY <1>2, <2>1
  <2> HIDE DEF attempts
  <2>4. history' \in [Notifications -> [Attempts -> AttemptState]]
    BY <2>1, <2>2, <2>3
  <2>5. history'[n] = attempts /\ \A m \in Notifications : m # n => history'[m] = history[m]
    BY <2>1, <2>2
  <2> QED
    BY <2>3, <2>4, <2>5
<1>6. DeliveryTypeOK'
  <2>1. workers' \in [Workers -> {Idle} \cup Run]
    BY <1>1, ProceedLeaves
  <2> QED
    BY <1>1, <1>4, <1>5, <2>1 DEF DeliveryTypeOK
<1>7. RetriesFit'
  BY <1>1, <1>4 DEF RetriesFit, Retryable
<1>8. AttemptsFit'
  <2>1. SUFFICES ASSUME NEW m \in Notifications \ tangled, NEW k \in Attempts
                 PROVE  /\ k <= rows'[m].retries => history'[m][k] = "failed"
                        /\ k = rows'[m].retries + 1 =>
                             /\ rows'[m].status = "queued" => history'[m][k] = "queued"
                             /\ rows'[m].status = "sent" => history'[m][k] = "sent"
                             /\ rows'[m].status \in {"absent", "retry_needed"} =>
                                  history'[m][k] = "none"
                        /\ k > rows'[m].retries + 1 => history'[m][k] = "none"
    BY DEF AttemptsFit
  <2>2. CASE m # n
    BY <1>1, <1>4, <1>5, <2>1, <2>2 DEF AttemptsFit
  <2>3. CASE m = n
    <3>1. /\ k \in Int /\ a \in Int /\ rows[n].retries \in Int
          /\ a = rows[n].retries + 1
      BY <1>2, <2>1, <2>3 DEF Attempts
    <3>2. /\ k <= rows[n].retries => history[n][k] = "failed"
          /\ k > rows[n].retries + 1 => history[n][k] = "none"
      BY <1>1, <2>1, <2>3 DEF AttemptsFit
    <3> QED
      BY <1>4, <1>5, <2>1, <2>3, <3>1, <3>2
  <2> QED
    BY <2>2, <2>3
<1>9. MailFits'
  BY <1>1, <1>4 DEF MailFits
<1>10. HeldAsRead'
  BY <1>1, <1>4, FinishKeepsHeld
<1>11. QueuedAlone'
  <2>1. Holds(w, n)
    BY <1>1, CurrentIsHeld
  <2>2. \A v \in Workers, m \in Notifications : Holds(v, m)' => Holds(v, m)
    BY <1>1, <2>1, ProceedLeaves DEF Holds
  <2> QED
    BY <1>1, <1>4, <2>1, <2>2, StaysAlone
<1> QED
  BY <1>6, <1>7, <1>8, <1>9, <1>10, <1>11 DEF DeliveryInv

\* notification_is_deliverable refuses the recipient.
LEMMA SkipKeeps ==
  ASSUME DeliveryInv, NEW w \in Workers, NEW n \in Notifications, Skip(w, n)
  PROVE  DeliveryInv'
<1> DEFINE row == [rows[n] EXCEPT !.status = "skipped"]
           a == AttemptNumber(w, n)
           state == IF history[n][a] = "none" THEN "none" ELSE "skipped"
<1>1. /\ workers[w].step = "scanning" /\ IsCurrent(w, n) /\ Proceed(w, n)
      /\ UNCHANGED <<due, queueing, reachable, mailbox, crashes, tangled>>
  BY DEF Skip
<1>2. /\ DeliveryTypeOK /\ MailFits
      /\ rows[n] \in [status : Status, retries : 0 .. RetryLimit + 1]
      /\ n \notin tangled =>
           rows[n].retries \in 0 .. RetryLimit /\ rows[n].status \in Retryable
  BY <1>1, CurrentAsRead DEF DeliveryInv
<1>3. /\ row \in [status : Status, retries : 0 .. RetryLimit + 1]
      /\ row.status = "skipped" /\ row.retries = rows[n].retries
  BY <1>2 DEF Status
<1>4. state \in AttemptState
  BY DEF AttemptState
<1>5. rows' = [rows EXCEPT ![n] = row] /\ due' \in [Notifications -> BOOLEAN]
  BY <1>1, <1>2 DEF Skip, DeliveryTypeOK
<1>6. history' = [history EXCEPT ![n][AttemptNumber(w, n)] = state]
  BY <1>2 DEF Skip, DeliveryTypeOK
<1>7. n \notin tangled => row.retries # RetryLimit + 1 /\ mailbox[n] <= row.retries + 0
  BY <1>2, <1>3 DEF MailFits, Retryable
<1> HIDE DEF row, state, a
<1>8. workers[w].step # "idle"
  BY <1>1
<1> QED
  BY <1>1, <1>3, <1>4, <1>5, <1>6, <1>7, <1>8, FinishKeeps

\* mark_notification_status(SENT)
LEMMA RecordSentKeeps ==
  ASSUME DeliveryInv, NEW w \in Workers, NEW n \in Notifications, RecordSent(w, n)
  PROVE  DeliveryInv'
<1> DEFINE row == [rows[n] EXCEPT !.status = "sent"]
<1>1. /\ workers[w].step = "accepted" /\ IsCurrent(w, n) /\ Proceed(w, n)
      /\ UNCHANGED <<due, queueing, reachable, mailbox, crashes, tangled>>
      /\ history' = [history EXCEPT ![n][AttemptNumber(w, n)] = "sent"]
  BY DEF RecordSent
<1>2. /\ DeliveryTypeOK /\ MailFits
      /\ rows[n] \in [status : Status, retries : 0 .. RetryLimit + 1]
      /\ n \notin tangled =>
           rows[n].retries \in 0 .. RetryLimit /\ rows[n].status = "queued"
  BY <1>1, CurrentAsRead DEF DeliveryInv
<1>3. /\ row \in [status : Status, retries : 0 .. RetryLimit + 1]
      /\ row.status = "sent" /\ row.retries = rows[n].retries
  BY <1>2 DEF Status
<1>4. "sent" \in AttemptState
  BY DEF AttemptState
<1>5. rows' = [rows EXCEPT ![n] = row] /\ due' \in [Notifications -> BOOLEAN]
  BY <1>1, <1>2 DEF RecordSent, DeliveryTypeOK
<1>6. n \notin tangled => row.retries # RetryLimit + 1 /\ mailbox[n] <= row.retries + 1
  BY <1>2, <1>3 DEF MailFits
<1> HIDE DEF row
<1> QED
  BY <1>1, <1>3, <1>4, <1>5, <1>6, FinishKeeps

\* mark_notification_attempt_failed
LEMMA RecordFailedKeeps ==
  ASSUME DeliveryInv, NEW w \in Workers, NEW n \in Notifications, RecordFailed(w, n)
  PROVE  DeliveryInv'
<1> DEFINE r == workers[w].retries[n]
           row == FailedRow(w, n)
<1>1. /\ workers[w].step = "refused" /\ IsCurrent(w, n) /\ Proceed(w, n)
      /\ UNCHANGED <<queueing, reachable, mailbox, crashes, tangled>>
      /\ history' = [history EXCEPT ![n][AttemptNumber(w, n)] = "failed"]
      /\ rows' = [rows EXCEPT ![n] = row]
      /\ due' = [due EXCEPT ![n] = FALSE]
  BY DEF RecordFailed
<1>2. /\ DeliveryTypeOK /\ MailFits
      /\ r \in 0 .. RetryLimit
      /\ n \notin tangled => r = rows[n].retries /\ rows[n].status = "queued"
  BY <1>1, CurrentAsRead DEF DeliveryInv
<1>0. row = [status |-> IF r < RetryLimit THEN "retry_needed" ELSE "failed",
             retries |-> r + 1]
  BY DEF FailedRow
<1> HIDE DEF r, row
<1>3. /\ row \in [status : Status, retries : 0 .. RetryLimit + 1]
      /\ row.retries = r + 1 /\ row.status \in {"retry_needed", "failed"}
      /\ row.status = "retry_needed" => row.retries <= RetryLimit
      /\ row.status = "failed" <=> row.retries = RetryLimit + 1
  BY <1>0, <1>2 DEF Status
<1>4. "failed" \in AttemptState /\ due' \in [Notifications -> BOOLEAN]
  BY <1>1, <1>2 DEF AttemptState, DeliveryTypeOK
<1>5. n \notin tangled => mailbox[n] <= row.retries + 0
  <2>1. n \notin tangled => mailbox[n] <= r + 1
    BY <1>2 DEF MailFits
  <2>2. row.retries + 0 = r + 1
    BY <1>2, <1>3
  <2> QED
    BY <2>1, <2>2
<1> QED
  BY <1>1, <1>2, <1>3, <1>4, <1>5, FinishKeeps

\* A run that stays at its current row holds what it held and, but for that row,
\* awaits what it awaited.
StaysAt(w, n, step) ==
  /\ workers' \in [Workers -> {Idle} \cup Run]
  /\ workers'[w].step = step /\ Holds(w, n) /\ ~Awaits(w, n)'
  /\ \A v \in Workers :
       /\ v # w => workers'[v] = workers[v]
       /\ workers'[v].retries = workers[v].retries
       /\ \A m \in Notifications :
            /\ Holds(v, m)' <=> Holds(v, m)
            /\ v # w => (Awaits(v, m)' <=> Awaits(v, m))
            /\ Holds(v, m) /\ v = w /\ m # n => Awaits(v, m) /\ Awaits(v, m)'

\* A run that only changes its step stays at its current row.
LEMMA StayingHolds ==
  ASSUME DeliveryTypeOK, NEW w \in Workers, NEW n \in Notifications,
         workers[w].step # "idle", IsCurrent(w, n),
         NEW step \in {"sending", "accepted", "refused"},
         workers' = [workers EXCEPT ![w].step = step]
  PROVE  StaysAt(w, n, step)
<1> DEFINE run == [workers[w] EXCEPT !.step = step]
<1>1. /\ Holds(w, n) /\ workers[w] \in Run
      /\ \A m \in Notifications : Holds(w, m) /\ IsCurrent(w, m) => m = n
  BY CurrentIsHeld
<1>2. /\ run \in Run /\ run.step = step /\ run.todo = workers[w].todo
      /\ run.retries = workers[w].retries /\ run # Idle
  BY <1>1 DEF Run, Idle
<1>3. workers' = [workers EXCEPT ![w] = run]
  OBVIOUS
<1> HIDE DEF run
<1>4. /\ workers' \in [Workers -> {Idle} \cup Run] /\ workers'[w] = run
      /\ \A v \in Workers : v # w => workers'[v] = workers[v]
  BY <1>2, <1>3 DEF DeliveryTypeOK
<1>5. workers[w] # Idle
  BY DEF Idle
<1>6. \A v \in Workers : /\ workers'[v].retries = workers[v].retries
                         /\ workers'[v].todo = workers[v].todo
                         /\ workers'[v] # Idle <=> workers[v] # Idle
  BY <1>2, <1>4, <1>5
<1>7. \A v \in Workers, m \in Notifications :
        /\ Holds(v, m)' <=> Holds(v, m)
        /\ IsCurrent(v, m)' <=> IsCurrent(v, m)
  BY <1>6 DEF Holds, IsCurrent
<1>8. \A v \in Workers, m \in Notifications :
        v # w => (Awaits(v, m)' <=> Awaits(v, m))
  BY <1>4, <1>7 DEF Awaits
<1>9. \A m \in Notifications :
        Holds(w, m) /\ m # n => Awaits(w, m) /\ Awaits(w, m)'
  BY <1>1, <1>7 DEF Awaits
<1>10. ~Awaits(w, n)'
  BY <1>2, <1>4, <1>7 DEF Awaits
<1> QED
  BY <1>1, <1>2, <1>4, <1>6, <1>7, <1>8, <1>9, <1>10 DEF StaysAt

\* While a run stays at a row, only that row's status and mail may change: the
\* row is then queued and has sent nothing before.
LEMMA StayingKeepsHeld ==
  ASSUME DeliveryInv, NEW w \in Workers, NEW n \in Notifications,
         workers[w].step # "idle", IsCurrent(w, n),
         NEW step \in {"sending", "accepted", "refused"},
         workers' = [workers EXCEPT ![w].step = step],
         tangled' = tangled,
         \A m \in Notifications :
           /\ rows'[m].retries = rows[m].retries
           /\ m # n => rows'[m] = rows[m] /\ mailbox'[m] = mailbox[m],
         n \notin tangled => rows'[n].status = "queued",
         n \notin tangled /\ step = "sending" => mailbox'[n] <= rows[n].retries
  PROVE  HeldAsRead'
<1>1. DeliveryTypeOK /\ HeldAsRead
  BY DEF DeliveryInv
<1>2. /\ workers'[w].step = step /\ Holds(w, n) /\ ~Awaits(w, n)'
      /\ \A v \in Workers :
           /\ v # w => workers'[v] = workers[v]
           /\ workers'[v].retries = workers[v].retries
           /\ \A m \in Notifications :
                /\ Holds(v, m)' <=> Holds(v, m)
                /\ v # w => (Awaits(v, m)' <=> Awaits(v, m))
                /\ Holds(v, m) /\ v = w /\ m # n => Awaits(v, m) /\ Awaits(v, m)'
  <2>1. StaysAt(w, n, step)
    BY <1>1, StayingHolds
  <2> QED
    BY <2>1 DEF StaysAt
<1>3. SUFFICES ASSUME NEW m \in Notifications \ tangled, NEW v \in Workers, Holds(v, m)'
               PROVE  /\ \A u \in Workers : Holds(u, m)' => u = v
                      /\ workers'[v].retries[m] = rows'[m].retries
                      /\ rows'[m].retries <= RetryLimit
                      /\ Awaits(v, m)' => rows'[m].status \in Retryable
                      /\ ~Awaits(v, m)' =>
                           /\ rows'[m].status = "queued"
                           /\ workers'[v].step = "sending" =>
                                mailbox'[m] <= rows'[m].retries
  BY DEF HeldAsRead
<1>4. m \in Notifications /\ m \notin tangled /\ Holds(v, m)
  BY <1>2, <1>3
<1>5. /\ \A u \in Workers : Holds(u, m) => u = v
      /\ workers[v].retries[m] = rows[m].retries
      /\ rows[m].retries <= RetryLimit
      /\ Awaits(v, m) => rows[m].status \in Retryable
      /\ ~Awaits(v, m) =>
           /\ rows[m].status = "queued"
           /\ workers[v].step = "sending" => mailbox[m] <= rows[m].retries
  BY <1>1, <1>4 DEF HeldAsRead
<1>6. /\ \A u \in Workers : Holds(u, m)' => u = v
      /\ workers'[v].retries[m] = rows'[m].retries
      /\ rows'[m].retries <= RetryLimit
  BY <1>2, <1>4, <1>5
<1>7. CASE m = n
  <2>1. v = w
    BY <1>2, <1>5, <1>7
  <2> QED
    BY <1>2, <1>4, <1>6, <1>7, <2>1
<1>8. CASE m # n
  <2>1. rows'[m] = rows[m] /\ mailbox'[m] = mailbox[m]
    BY <1>4, <1>8
  <2>2. CASE v = w
    BY <1>2, <1>4, <1>5, <1>6, <1>8, <2>1, <2>2
  <2>3. CASE v # w
    <3>1. workers'[v] = workers[v] /\ (Awaits(v, m)' <=> Awaits(v, m))
      BY <1>2, <1>4, <2>3
    <3> QED
      BY <1>5, <1>6, <2>1, <3>1
  <2> QED
    BY <2>2, <2>3
<1> QED
  BY <1>7, <1>8

\* The row is marked queued, and so is its attempt.
LEMMA QueueKeeps ==
  ASSUME DeliveryInv, NEW w \in Workers, NEW n \in Notifications, Queue(w, n)
  PROVE  DeliveryInv'
<1> DEFINE row == [rows[n] EXCEPT !.status = "queued"]
           a == AttemptNumber(w, n)
<1>1. /\ workers[w].step = "scanning" /\ workers[w].step # "idle" /\ IsCurrent(w, n)
      /\ workers' = [workers EXCEPT ![w].step = "sending"]
      /\ history' = [history EXCEPT ![n][a] = "queued"]
      /\ UNCHANGED <<due, queueing, reachable, mailbox, crashes, tangled>>
  BY DEF Queue
<1>2. /\ DeliveryTypeOK /\ RetriesFit /\ AttemptsFit /\ MailFits
      /\ rows[n] \in [status : Status, retries : 0 .. RetryLimit + 1]
      /\ a \in Attempts
      /\ n \notin tangled => /\ a = rows[n].retries + 1
                            /\ rows[n].retries \in 0 .. RetryLimit
                            /\ rows[n].status \in Retryable
  BY <1>1, CurrentAsRead DEF DeliveryInv, AttemptNumber
<1>3. /\ row \in [status : Status, retries : 0 .. RetryLimit + 1]
      /\ row.status = "queued" /\ row.retries = rows[n].retries
  BY <1>2 DEF Status
<1>4. rows' = [rows EXCEPT ![n] = row]
  BY <1>2 DEF Queue, DeliveryTypeOK
<1> HIDE DEF row, a
<1>5. /\ rows' \in [Notifications -> [status : Status, retries : 0 .. RetryLimit + 1]]
      /\ rows'[n] = row
      /\ \A m \in Notifications : m # n => rows'[m] = rows[m]
  BY <1>2, <1>3, <1>4 DEF DeliveryTypeOK
<1>6. /\ history' \in [Notifications -> [Attempts -> AttemptState]]
      /\ \A m \in Notifications : m # n => history'[m] = history[m]
      /\ history'[n][a] = "queued"
      /\ \A k \in Attempts : k # a => history'[n][k] = history[n][k]
  <2> DEFINE attempts == [history[n] EXCEPT ![a] = "queued"]
  <2>1. history \in [Notifications -> [Attempts -> AttemptState]]
    BY <1>2 DEF DeliveryTypeOK
  <2>2. history' = [history EXCEPT ![n] = attempts]
    BY <1>1
  <2>3. /\ attempts \in [Attempts -> AttemptState] /\ attempts[a] = "queued"
        /\ \A k \in Attempts : k # a => attempts[k] = history[n][k]
    BY <1>2, <2>1 DEF AttemptState
  <2> HIDE DEF attempts
  <2> QED
    BY <2>1, <2>2, <2>3
<1>7. DeliveryTypeOK'
  <2>1. workers' \in [Workers -> {Idle} \cup Run]
    BY <1>1, <1>2, StayingHolds DEF StaysAt
  <2> QED
    BY <1>1, <1>2, <1>5, <1>6, <2>1 DEF DeliveryTypeOK
<1>8. RetriesFit'
  BY <1>1, <1>2, <1>3, <1>5 DEF RetriesFit, Retryable
<1>9. AttemptsFit'
  <2>1. SUFFICES ASSUME NEW m \in Notifications \ tangled, NEW k \in Attempts
                 PROVE  /\ k <= rows'[m].retries => history'[m][k] = "failed"
                        /\ k = rows'[m].retries + 1 =>
                             /\ rows'[m].status = "queued" => history'[m][k] = "queued"
                             /\ rows'[m].status = "sent" => history'[m][k] = "sent"
                             /\ rows'[m].status \in {"absent", "retry_needed"} =>
                                  history'[m][k] = "none"
                        /\ k > rows'[m].retries + 1 => history'[m][k] = "none"
    BY <1>1 DEF AttemptsFit
  <2>2. CASE m # n
    BY <1>2, <1>5, <1>6, <2>1, <2>2 DEF AttemptsFit
  <2>3. CASE m = n
    <3>1. /\ k \in Int /\ a \in Int /\ rows[n].retries \in Int
          /\ a = rows[n].retries + 1
      BY <1>2, <2>1, <2>3 DEF Attempts
    <3>2. /\ k <= rows[n].retries => history[n][k] = "failed"
          /\ k > rows[n].retries + 1 => history[n][k] = "none"
      BY <1>2, <2>1, <2>3 DEF AttemptsFit
    <3> QED
      BY <1>3, <1>5, <1>6, <2>1, <2>3, <3>1, <3>2
  <2> QED
    BY <2>2, <2>3
<1>10. n \notin tangled => mailbox[n] <= rows[n].retries /\ mailbox[n] <= rows[n].retries + 1
  <2>1. n \notin tangled => mailbox[n] <= rows[n].retries + 0
    BY <1>2 DEF MailFits, Retryable
  <2>2. mailbox[n] \in Nat /\ rows[n].retries \in Nat
    BY <1>2 DEF DeliveryTypeOK
  <2> QED
    BY <2>1, <2>2
<1>11. MailFits'
  <2>1. ASSUME NEW m \in Notifications \ tangled
        PROVE  mailbox[m] <= rows'[m].retries +
                             (IF rows'[m].status \in {"queued", "sent"} THEN 1 ELSE 0)
    BY <1>2, <1>3, <1>5, <1>10, <2>1 DEF MailFits
  <2> QED
    BY <1>1, <2>1 DEF MailFits
<1>12. HeldAsRead'
  BY <1>1, <1>3, <1>5, <1>10, StayingKeepsHeld
<1>13. QueuedAlone'
  <2>1. StaysAt(w, n, "sending") /\ QueuedAlone
    BY <1>1, <1>2, StayingHolds DEF DeliveryInv
  <2> QED
    BY <1>1, <1>5, <2>1, StaysAlone DEF StaysAt
<1> QED
  BY <1>7, <1>8, <1>9, <1>11, <1>12, <1>13 DEF DeliveryInv

\* The mail server accepts the message or not, and the run hears of it or not.
LEMMA SendKeeps ==
  ASSUME DeliveryInv, NEW w \in Workers, NEW n \in Notifications, Send(w, n)
  PROVE  DeliveryInv'
<1>1. /\ workers[w].step = "sending" /\ workers[w].step # "idle" /\ IsCurrent(w, n)
      /\ UNCHANGED <<rows, due, queueing, history, reachable, crashes, tangled>>
  BY DEF Send
<1>2. PICK accepted \in BOOLEAN, answered \in BOOLEAN :
        /\ mailbox' = [mailbox EXCEPT ![n] = IF accepted THEN @ + 1 ELSE @]
        /\ workers' = [workers EXCEPT
                         ![w].step = IF accepted /\ answered THEN "accepted"
                                                             ELSE "refused"]
  BY DEF Send
<1>3. PICK step \in {"accepted", "refused"} :
        workers' = [workers EXCEPT ![w].step = step]
  BY <1>2
<1>4. /\ DeliveryTypeOK /\ RetriesFit /\ AttemptsFit /\ MailFits
      /\ n \notin tangled => rows[n].status = "queued" /\ mailbox[n] <= rows[n].retries
  BY <1>1, CurrentAsRead DEF DeliveryInv
<1>5. /\ mailbox' \in [Notifications -> Nat]
      /\ mailbox'[n] <= mailbox[n] + 1
      /\ \A m \in Notifications : m # n => mailbox'[m] = mailbox[m]
  BY <1>2, <1>4 DEF DeliveryTypeOK
<1>6. DeliveryTypeOK'
  <2>1. workers' \in [Workers -> {Idle} \cup Run]
    BY <1>1, <1>3, <1>4, StayingHolds DEF StaysAt
  <2> QED
    BY <1>1, <1>4, <1>5, <2>1 DEF DeliveryTypeOK
<1>7. RetriesFit' /\ AttemptsFit'
  BY <1>1, <1>4 DEF RetriesFit, AttemptsFit
<1>8. n \notin tangled => mailbox'[n] <= rows[n].retries + 1
  <2>1. mailbox[n] \in Nat /\ mailbox'[n] \in Nat /\ rows[n].retries \in Nat
    BY <1>4, <1>5 DEF DeliveryTypeOK
  <2> QED
    BY <1>4, <1>5, <2>1
<1>9. MailFits'
  <2>1. ASSUME NEW m \in Notifications \ tangled
        PROVE  mailbox'[m] <= rows[m].retries +
                              (IF rows[m].status \in {"queued", "sent"} THEN 1 ELSE 0)
    BY <1>4, <1>5, <1>8, <2>1 DEF MailFits
  <2> QED
    BY <1>1, <2>1 DEF MailFits
<1>10. HeldAsRead'
  BY <1>1, <1>3, <1>4, <1>5, StayingKeepsHeld
<1>11. QueuedAlone'
  <2>1. StaysAt(w, n, step) /\ QueuedAlone
    BY <1>1, <1>3, <1>4, StayingHolds DEF DeliveryInv
  <2> QED
    BY <1>1, <2>1, StaysAlone DEF StaysAt
<1> QED
  BY <1>6, <1>7, <1>9, <1>10, <1>11 DEF DeliveryInv

\* A killed worker lets its batch go.
LEMMA CrashKeeps ==
  ASSUME DeliveryInv, NEW w \in Workers, Crash(w)
  PROVE  DeliveryInv'
<1>1. /\ DeliveryTypeOK /\ RetriesFit /\ AttemptsFit /\ MailFits /\ HeldAsRead
      /\ QueuedAlone
  BY DEF DeliveryInv
<1>2. /\ workers' \in [Workers -> {Idle} \cup Run] /\ workers'[w] = Idle
      /\ \A v \in Workers : v # w => workers'[v] = workers[v]
      /\ crashes' \in 0 .. MaxCrashes
      /\ UNCHANGED <<rows, due, queueing, history, reachable, mailbox, tangled>>
  BY <1>1 DEF Crash, DeliveryTypeOK
<1>3. DeliveryTypeOK'
  BY <1>1, <1>2 DEF DeliveryTypeOK
<1>4. RetriesFit' /\ AttemptsFit' /\ MailFits'
  BY <1>1, <1>2 DEF RetriesFit, AttemptsFit, MailFits
<1>5. \A v \in Workers, n \in Notifications :
        Holds(v, n)' => /\ Holds(v, n) /\ workers'[v] = workers[v]
                        /\ Awaits(v, n)' <=> Awaits(v, n)
  BY <1>2 DEF Holds, Awaits, IsCurrent
<1>6. ASSUME NEW n \in Notifications \ tangled, NEW x \in Workers, Holds(x, n)'
      PROVE  /\ \A v \in Workers : Holds(v, n)' => v = x
             /\ workers'[x].retries[n] = rows[n].retries
             /\ rows[n].retries <= RetryLimit
             /\ Awaits(x, n)' => rows[n].status \in Retryable
             /\ ~Awaits(x, n)' =>
                  /\ rows[n].status = "queued"
                  /\ workers'[x].step = "sending" => mailbox[n] <= rows[n].retries
  <2>1. /\ Holds(x, n) /\ workers'[x] = workers[x]
        /\ Awaits(x, n)' <=> Awaits(x, n)
        /\ \A v \in Workers : Holds(v, n)' => Holds(v, n)
    BY <1>5, <1>6
  <2> QED
    BY <1>1, <1>6, <2>1 DEF HeldAsRead
<1>7. HeldAsRead'
  BY <1>2, <1>6 DEF HeldAsRead
<1>8. QueuedAlone'
  BY <1>1, <1>2, <1>5 DEF QueuedAlone
<1> QED
  BY <1>3, <1>4, <1>7, <1>8 DEF DeliveryInv

\* Killed halfway, it leaves a row behind of which nothing more is said.
LEMMA HalfSavedKeeps ==
  ASSUME DeliveryInv, NEW w \in Workers, NEW n \in Notifications,
         CrashBetweenSaves(w, n)
  PROVE  DeliveryInv'
<1> DEFINE a == AttemptNumber(w, n)
           row == rows'[n]
<1>1. /\ DeliveryTypeOK /\ RetriesFit /\ AttemptsFit /\ MailFits /\ HeldAsRead
      /\ QueuedAlone
  BY DEF DeliveryInv
<1>2. /\ workers[w] # Idle /\ IsCurrent(w, n) /\ crashes < MaxCrashes
      /\ workers' = [workers EXCEPT ![w] = Idle]
      /\ crashes' = crashes + 1
      /\ tangled' = tangled \cup {n}
      /\ UNCHANGED <<queueing, reachable, mailbox>>
  BY DEF CrashBetweenSaves
<1>3. workers[w] \in Run /\ workers[w].step # "idle" /\ Holds(w, n)
  BY <1>1, <1>2 DEF DeliveryTypeOK, Run, Holds, IsCurrent
<1>4. /\ a \in Attempts /\ workers[w].retries[n] \in 0 .. RetryLimit
      /\ rows[n] \in [status : Status, retries : 0 .. RetryLimit + 1]
  BY <1>2, <1>3, CurrentAsRead
<1>5. /\ FailedRow(w, n) \in [status : Status, retries : 0 .. RetryLimit + 1]
      /\ FailedRow(w, n).status \in {"retry_needed", "failed"}
      /\ FailedRow(w, n).status = "retry_needed" => FailedRow(w, n).retries <= RetryLimit
  BY <1>4 DEF FailedRow, Status
<1>6. /\ \A m \in Notifications : m # n => rows'[m] = rows[m]
      /\ rows' \in [Notifications -> [status : Status, retries : 0 .. RetryLimit + 1]]
      /\ \/ row = rows[n]
         \/ row.status \in {"queued", "sent", "skipped", "failed"}
         \/ row.status = "retry_needed" /\ row.retries <= RetryLimit
  <2>1. \A status \in {"queued", "sent", "skipped"} :
          [rows[n] EXCEPT !.status = status]
            \in [status : Status, retries : 0 .. RetryLimit + 1]
    BY <1>4 DEF Status
  <2>2. \/ rows' = rows
        \/ \E status \in {"queued", "sent", "skipped"} :
             rows' = [rows EXCEPT ![n] = [rows[n] EXCEPT !.status = status]]
        \/ rows' = [rows EXCEPT ![n] = FailedRow(w, n)]
    BY <1>1 DEF CrashBetweenSaves, DeliveryTypeOK
  <2>3. rows \in [Notifications -> [status : Status, retries : 0 .. RetryLimit + 1]]
    BY <1>1 DEF DeliveryTypeOK
  <2> QED
    BY <1>5, <2>1, <2>2, <2>3
<1>7. /\ history' \in [Notifications -> [Attempts -> AttemptState]]
      /\ \A m \in Notifications : m # n => history'[m] = history[m]
  <2>1. history \in [Notifications -> [Attempts -> AttemptState]]
    BY <1>1 DEF DeliveryTypeOK
  <2>2. \/ history' = history
        \/ history' = [history EXCEPT
             ![n] = [history[n] EXCEPT ![a] = IF @ = "none" THEN "pending" ELSE @]]
    BY <2>1 DEF CrashBetweenSaves
  <2>3. [history[n] EXCEPT ![a] = IF @ = "none" THEN "pending" ELSE @]
          \in [Attempts -> AttemptState]
    BY <1>4, <2>1 DEF AttemptState
  <2> QED
    BY <2>1, <2>2, <2>3
<1>8. /\ due' \in [Notifications -> BOOLEAN] /\ crashes' \in 0 .. MaxCrashes
      /\ workers' \in [Workers -> {Idle} \cup Run] /\ workers'[w] = Idle
      /\ \A v \in Workers : v # w => workers'[v] = workers[v]
  <2>1. due' \in [Notifications -> BOOLEAN]
    BY <1>1, <1>2 DEF CrashBetweenSaves, DeliveryTypeOK
  <2> QED
    BY <1>1, <1>2, <2>1 DEF DeliveryTypeOK
<1> HIDE DEF a, row
<1>9. DeliveryTypeOK'
  BY <1>1, <1>2, <1>6, <1>7, <1>8 DEF DeliveryTypeOK
<1>10. RetriesFit'
  <2>1. ASSUME NEW m \in Notifications
        PROVE  /\ rows'[m].status \in {"absent", "pending"} => rows'[m].retries = 0
               /\ rows'[m].status \in Retryable => rows'[m].retries <= RetryLimit
               /\ m \notin tangled' =>
                    (rows'[m].status = "failed" <=> rows'[m].retries = RetryLimit + 1)
    <3>1. CASE rows'[m] = rows[m]
      BY <1>1, <1>2, <3>1 DEF RetriesFit
    <3>2. CASE m = n
      BY <1>1, <1>2, <1>6, <3>1, <3>2 DEF RetriesFit, Retryable, row
    <3> QED
      BY <1>6, <3>1, <3>2
  <2> QED
    BY <2>1 DEF RetriesFit
<1>11. \A m \in Notifications \ tangled' :
         m \notin tangled /\ m # n /\ rows'[m] = rows[m] /\ history'[m] = history[m]
  BY <1>2, <1>6, <1>7
<1>12. AttemptsFit' /\ MailFits'
  BY <1>1, <1>2, <1>11 DEF AttemptsFit, MailFits
<1>13. \A v \in Workers, m \in Notifications :
         Holds(v, m)' => /\ Holds(v, m) /\ workers'[v] = workers[v]
                         /\ Awaits(v, m)' <=> Awaits(v, m)
  BY <1>8 DEF Holds, Awaits, IsCurrent
<1>14. HeldAsRead'
  <2>1. ASSUME NEW m \in Notifications \ tangled', NEW x \in Workers, Holds(x, m)'
        PROVE  /\ \A v \in Workers : Holds(v, m)' => v = x
               /\ workers'[x].retries[m] = rows'[m].retries
               /\ rows'[m].retries <= RetryLimit
               /\ Awaits(x, m)' => rows'[m].status \in Retryable
               /\ ~Awaits(x, m)' =>
                    /\ rows'[m].status = "queued"
                    /\ workers'[x].step = "sending" => mailbox[m] <= rows'[m].retries
    <3>1. /\ Holds(x, m) /\ workers'[x] = workers[x]
          /\ Awaits(x, m)' <=> Awaits(x, m)
          /\ \A v \in Workers : Holds(v, m)' => Holds(v, m)
      BY <1>13, <2>1
    <3>2. m \in Notifications \ tangled /\ rows'[m] = rows[m]
      BY <1>11, <2>1
    <3> QED
      BY <1>1, <3>1, <3>2 DEF HeldAsRead
  <2> QED
    BY <1>2, <2>1 DEF HeldAsRead
<1>15. QueuedAlone'
  BY <1>1, <1>2, <1>3, <1>6, <1>13, StaysAlone
<1> QED
  BY <1>9, <1>10, <1>12, <1>14, <1>15 DEF DeliveryInv

\* DeliveryInv is inductive.
LEMMA DeliveryStep ==
  ASSUME DeliveryInv, [DeliveryNext]_deliveryVars
  PROVE  DeliveryInv'
<1>1. CASE UNCHANGED deliveryVars
  <2>1. UNCHANGED <<rows, due, queueing, history, reachable, workers, mailbox, crashes,
                   tangled>>
    BY <1>1 DEF deliveryVars
  <2>2. /\ DeliveryTypeOK /\ RetriesFit /\ AttemptsFit /\ MailFits /\ HeldAsRead
        /\ QueuedAlone
    BY DEF DeliveryInv
  <2>3. DeliveryTypeOK' /\ RetriesFit' /\ AttemptsFit' /\ MailFits'
    BY <2>1, <2>2 DEF DeliveryTypeOK, RetriesFit, AttemptsFit, MailFits
  <2>4. HeldAsRead' /\ QueuedAlone'
    BY <2>1, <2>2 DEF HeldAsRead, QueuedAlone, Holds, Awaits, IsCurrent
  <2> QED
    BY <2>3, <2>4 DEF DeliveryInv
<1>2. ASSUME NEW n \in Notifications,
             \/ Enqueue(n) \/ InsertRow(n) \/ InsertAttempt(n) \/ FinishQueueing(n)
             \/ QueueingEnds(n) \/ BecomeDue(n) \/ ChangeReach(n)
      PROVE  DeliveryInv'
  BY <1>2, EnqueueKeeps, InsertRowKeeps, InsertAttemptKeeps, FinishQueueingKeeps,
     OutsideKeeps
<1>3. ASSUME NEW w \in Workers,
             \/ Deliver(w) \/ Crash(w)
             \/ \E n \in Notifications : CrashBetweenSaves(w, n)
      PROVE  DeliveryInv'
  BY <1>3, StartKeeps, SkipKeeps, QueueKeeps, SendKeeps, RecordSentKeeps,
     RecordFailedKeeps, CrashKeeps, HalfSavedKeeps DEF Deliver
<1> QED
  BY <1>1, <1>2, <1>3 DEF DeliveryNext

\* At first nothing is there to be delivered.
LEMMA DeliveryBegins == DeliveryInit => DeliveryInv
<1> SUFFICES ASSUME DeliveryInit PROVE DeliveryInv
  OBVIOUS
<1>1. DeliveryTypeOK
  BY DEF DeliveryInit, DeliveryTypeOK, Status, AttemptState
<1>2. \A n \in Notifications : /\ rows[n].status = "absent" /\ rows[n].retries = 0
                               /\ mailbox[n] = 0
                               /\ \A k \in Attempts : history[n][k] = "none"
  BY DEF DeliveryInit
<1>3. RetriesFit /\ MailFits
  <2>1. 0 # RetryLimit + 1 /\ 0 <= RetryLimit /\ 0 <= 0 + 0
    BY DeliveryAssumption
  <2> QED
    BY <1>2, <2>1 DEF RetriesFit, MailFits
<1>4. AttemptsFit
  <2>1. \A k \in Attempts : ~(k <= 0)
    BY DEF Attempts
  <2> QED
    BY <1>2, <2>1 DEF AttemptsFit
<1>5. HeldAsRead /\ QueuedAlone
  BY DEF DeliveryInit, HeldAsRead, QueuedAlone, Holds
<1> QED
  BY <1>1, <1>3, <1>4, <1>5 DEF DeliveryInv

\* What the counter and the status tell is on record.
LEMMA AttemptsFollow == DeliveryInv => AttemptsAreTrue
<1> SUFFICES ASSUME DeliveryInv PROVE AttemptsAreTrue
  OBVIOUS
<1>1. DeliveryTypeOK /\ RetriesFit /\ AttemptsFit /\ MailFits
  BY DEF DeliveryInv
<1>2. \A n \in Notifications \ tangled :
        /\ rows[n].retries \in 0 .. RetryLimit + 1 /\ rows[n].status \in Status
        /\ mailbox[n] \in Nat
        /\ rows[n].status # "failed" => rows[n].retries + 1 \in Attempts
        /\ rows[n].status = "failed" => rows[n].retries = RetryLimit + 1
  <2>1. SUFFICES ASSUME NEW n \in Notifications \ tangled
                 PROVE  /\ rows[n].retries \in 0 .. RetryLimit + 1
                        /\ rows[n].status \in Status
                        /\ mailbox[n] \in Nat
                        /\ rows[n].status # "failed" => rows[n].retries + 1 \in Attempts
                        /\ rows[n].status = "failed" => rows[n].retries = RetryLimit + 1
    OBVIOUS
  <2>2. /\ rows[n].retries \in 0 .. RetryLimit + 1 /\ rows[n].status \in Status
        /\ mailbox[n] \in Nat
    BY <1>1 DEF DeliveryTypeOK
  <2>3. rows[n].status = "failed" <=> rows[n].retries = RetryLimit + 1
    BY <1>1 DEF RetriesFit
  <2> QED
    BY <2>2, <2>3 DEF Attempts
<1>3. ASSUME NEW n \in Notifications \ tangled
      PROVE  mailbox[n] <= Cardinality({k \in Attempts :
                                          history[n][k] \notin {"none", "pending"}})
  <2> DEFINE made == {k \in Attempts : history[n][k] \notin {"none", "pending"}}
             last == rows[n].retries +
                     (IF rows[n].status \in {"queued", "sent"} THEN 1 ELSE 0)
  <2>1. last \in 0 .. RetryLimit + 1
    BY <1>2, <1>3 DEF Attempts
  <2>2. \A k \in 1 .. last : k \in made
    <3>1. SUFFICES ASSUME NEW k \in 1 .. last PROVE k \in made
      OBVIOUS
    <3>2. k \in Attempts /\ k \in Int
      BY <2>1 DEF Attempts
    <3>3. CASE k <= rows[n].retries
      <4>1. history[n][k] = "failed"
        BY <1>1, <1>3, <3>2, <3>3 DEF AttemptsFit
      <4> QED
        BY <3>2, <4>1
    <3>4. CASE ~(k <= rows[n].retries)
      <4>1. k = rows[n].retries + 1 /\ rows[n].status \in {"queued", "sent"}
        BY <1>2, <1>3, <3>2, <3>4
      <4>2. history[n][k] \in {"queued", "sent"}
        BY <1>1, <1>3, <3>2, <4>1 DEF AttemptsFit
      <4> QED
        BY <3>2, <4>2
    <3> QED
      BY <3>3, <3>4
  <2>3. IsFiniteSet(Attempts) /\ IsFiniteSet(made)
    <3>1. IsFiniteSet(Attempts)
      BY FS_Interval DEF Attempts
    <3> QED
      BY <3>1, FS_Subset
  <2> HIDE DEF made, last
  <2>4. Cardinality(1 .. last) = last
    <3>1. /\ last \in Int /\ 1 \in Int /\ last >= 0
      BY <2>1
    <3>2. Cardinality(1 .. last) = IF 1 > last THEN 0 ELSE last - 1 + 1
      BY <3>1, FS_Interval
    <3> QED
      BY <3>1, <3>2
  <2>5. /\ Cardinality(1 .. last) <= Cardinality(made)
        /\ Cardinality(made) \in Nat
    BY <2>2, <2>3, FS_Subset, FS_CardinalityType
  <2>6. mailbox[n] <= last
    BY <1>1, <1>3 DEF MailFits, last
  <2>7. mailbox[n] \in Nat
    BY <1>2, <1>3
  <2> QED
    BY <2>1, <2>4, <2>5, <2>6, <2>7 DEF made
<1>4. EachAttemptSendsOnce
  BY <1>3 DEF EachAttemptSendsOnce
<1>5. ASSUME NEW n \in Notifications \ tangled
      PROVE  /\ \A k \in 1 .. rows[n].retries : history[n][k] = "failed"
             /\ rows[n].status = "failed" => rows[n].retries = RetryLimit + 1
             /\ rows[n].status = "sent" => history[n][rows[n].retries + 1] = "sent"
             /\ rows[n].status = "retry_needed" =>
                  \A k \in Attempts : k > rows[n].retries => history[n][k] = "none"
  <2>1. \A k \in 1 .. rows[n].retries : k \in Attempts /\ k <= rows[n].retries
    BY <1>2, <1>5 DEF Attempts
  <2>2. \A k \in Attempts :
          k > rows[n].retries => k = rows[n].retries + 1 \/ k > rows[n].retries + 1
    BY <1>2, <1>5 DEF Attempts
  <2> QED
    BY <1>1, <1>2, <1>5, <2>1, <2>2 DEF AttemptsFit
<1>6. HistoryExplainsStatus
  BY <1>5 DEF HistoryExplainsStatus
<1> QED
  BY <1>4, <1>6 DEF AttemptsAreTrue

\* A step about a row that is not tangled is a step of the run that holds it,
\* which has read a row still to be sent, or of the request that queues it.
LEMMA SettledStays ==
  ASSUME DeliveryInv, [DeliveryNext]_deliveryVars
  PROVE  \A n \in Notifications \ tangled : Settled(n) => rows'[n] = rows[n]
<1>1. SUFFICES ASSUME NEW n \in Notifications \ tangled, Settled(n)
               PROVE  rows'[n] = rows[n]
  OBVIOUS
<1>2. DeliveryTypeOK /\ rows \in [Notifications -> [status : Status, retries : 0 .. RetryLimit + 1]]
  BY DEF DeliveryInv, DeliveryTypeOK
<1>3. rows[n].status \in {"sent", "failed", "skipped", "in_app_only"}
  BY <1>1 DEF Settled
<1>4. CASE UNCHANGED deliveryVars
  BY <1>4 DEF deliveryVars
<1>5. ASSUME NEW m \in Notifications,
             \/ Enqueue(m) \/ InsertRow(m) \/ InsertAttempt(m) \/ FinishQueueing(m)
             \/ QueueingEnds(m) \/ BecomeDue(m) \/ ChangeReach(m)
      PROVE  rows'[n] = rows[n]
  <2>1. CASE Enqueue(m) \/ InsertRow(m)
    BY <1>1, <1>2, <1>3, <2>1 DEF Enqueue, InsertRow, IsNext
  <2>2. CASE FinishQueueing(m)
    <3>1. m # n
      BY <1>1, <1>3, <2>2 DEF FinishQueueing, DeliveryInv, QueuedAlone
    <3> QED
      BY <1>2, <2>2, <3>1 DEF FinishQueueing
  <2> QED
    BY <1>5, <2>1, <2>2 DEF InsertAttempt, QueueingEnds, BecomeDue, ChangeReach
<1>6. ASSUME NEW w \in Workers,
             \/ Deliver(w) \/ Crash(w)
             \/ \E m \in Notifications : CrashBetweenSaves(w, m)
      PROVE  rows'[n] = rows[n]
  <2>1. CASE StartRun(w) \/ Crash(w)
    BY <2>1 DEF StartRun, Crash
  <2>2. ASSUME NEW m \in Notifications,
               \/ Skip(w, m) \/ Queue(w, m) \/ Send(w, m)
               \/ RecordSent(w, m) \/ RecordFailed(w, m)
        PROVE  rows'[n] = rows[n]
    <3>1. workers[w].step # "idle" /\ IsCurrent(w, m)
      BY <2>2 DEF Skip, Queue, Send, RecordSent, RecordFailed
    <3>2. m # n
      BY <1>1, <1>3, <3>1, CurrentAsRead DEF Retryable
    <3> QED
      BY <1>1, <1>2, <2>2, <3>2 DEF Skip, Queue, Send, RecordSent, RecordFailed
  <2>3. ASSUME NEW m \in Notifications, CrashBetweenSaves(w, m)
        PROVE  rows'[n] = rows[n]
    <3>1. workers[w] # Idle /\ IsCurrent(w, m)
      BY <2>3 DEF CrashBetweenSaves
    <3>2. workers[w].step # "idle"
      BY <1>2, <3>1 DEF DeliveryTypeOK, Run
    <3>3. m # n
      BY <1>1, <1>3, <3>1, <3>2, CurrentAsRead DEF Retryable
    <3> QED
      BY <1>1, <1>2, <2>3, <3>3 DEF CrashBetweenSaves
  <2> QED
    BY <1>6, <2>1, <2>2, <2>3 DEF Deliver
<1> QED
  BY <1>4, <1>5, <1>6 DEF DeliveryNext

\* A message is delivered at most once for each attempt, and the attempts on
\* record explain the status of a notification that no two processes have held
\* and none has left half saved (deliver_due_notifications,
\* mark_notification_status, enqueue_notification).
THEOREM AttemptsHold == DeliverySpec => [](DeliveryTypeOK /\ AttemptsAreTrue)
<1>1. DeliveryInit => DeliveryInv
  BY DeliveryBegins
<1>2. DeliveryInv /\ [DeliveryNext]_deliveryVars => DeliveryInv'
  BY DeliveryStep
<1>3. DeliveryInv => DeliveryTypeOK /\ AttemptsAreTrue
  BY AttemptsFollow DEF DeliveryInv
<1> QED
  BY <1>1, <1>2, <1>3, PTL DEF DeliverySpec

HIDE DeliveryAssumption

-----------------------------------------------------------------------------
(***************************************************************************)
(* Risks and their revisions.                                              *)
(***************************************************************************)

USE RiskAssumption

Turn == [from : RiskState, to : RiskState]

\* A risk gets an owner before it can be due: triage, which sets the severity
\* and the review date, names one, and reopening keeps or names one.
UnownedAreLow ==
  \A r \in Risks :
    risks[r].state # "absent" /\ risks[r].owner = Nobody =>
      risks[r].severity = "low" /\ risks[r].review = "none"

\* A desk shows a risk that has been raised.
ScreensShowRisks ==
  \A k \in RiskDesks :
    riskDesks[k].step = "shown" => risks[riskDesks[k].risk].state # "absent"

RisksHold == RiskTypeOK /\ HistoryIsUnbroken /\ UnownedAreLow /\ ScreensShowRisks

\* A risk and its revisions.
LEMMA RiskRows ==
  ASSUME RiskTypeOK, NEW r \in Risks, risks[r].state # "absent"
  PROVE  /\ risks[r] \in Risk /\ revisions[r] \in Seq(Turn)
         /\ Len(revisions[r]) \in Nat
<1>1. risks[r] \in {Unraised} \cup Risk /\ revisions[r] \in Seq(Turn)
  BY DEF RiskTypeOK, Turn
<1>2. risks[r] # Unraised
  BY DEF Unraised
<1> QED
  BY <1>1, <1>2, LenProperties

\* One risk is written, with revisions that tell its history.
LEMMA UnbrokenElsewhere ==
  ASSUME HistoryIsUnbroken, NEW r \in Risks,
         \A s \in Risks : s # r => risks'[s] = risks[s] /\ revisions'[s] = revisions[s],
         Len(revisions'[r]) = risks'[r].version,
         revisions'[r][Len(revisions'[r])].to = risks'[r].state,
         \A n \in 1 .. Len(revisions'[r]) - 1 :
           revisions'[r][n + 1].from = revisions'[r][n].to,
         risks'[r].state \in Closed => risks'[r].closedAt
  PROVE  HistoryIsUnbroken'
<1>1. SUFFICES ASSUME NEW s \in Risks, risks'[s].state # "absent"
               PROVE  /\ Len(revisions'[s]) = risks'[s].version
                      /\ revisions'[s][Len(revisions'[s])].to = risks'[s].state
                      /\ \A n \in 1 .. Len(revisions'[s]) - 1 :
                           revisions'[s][n + 1].from = revisions'[s][n].to
                      /\ risks'[s].state \in Closed => risks'[s].closedAt
  BY DEF HistoryIsUnbroken
<1>2. CASE s = r
  BY <1>2
<1>3. CASE s # r
  <2>1. risks'[s] = risks[s] /\ revisions'[s] = revisions[s]
    BY <1>3
  <2> QED
    BY <1>1, <2>1 DEF HistoryIsUnbroken
<1> QED
  BY <1>2, <1>3

\* Save the row with the next version and append a revision.
LEMMA SavedKeeps ==
  ASSUME RisksHold, NEW k \in RiskDesks, NEW r \in Risks, MayChange(k, r),
         risks[r].state # "absent",
         NEW row \in Risk, Saved(k, r, row), row.version = risks[r].version,
         row.state \in Closed => row.closedAt,
         row.owner = Nobody => row.severity = "low" /\ row.review = "none"
  PROVE  RisksHold'
<1> DEFINE next == [row EXCEPT !.version = @ + 1]
           turn == [from |-> risks[r].state, to |-> row.state]
<1>1. RiskTypeOK /\ HistoryIsUnbroken /\ UnownedAreLow /\ ScreensShowRisks
  BY DEF RisksHold
<1>2. /\ risks[r] \in Risk /\ revisions[r] \in Seq(Turn) /\ Len(revisions[r]) \in Nat
      /\ risks[r].version < MaxRevisions
  BY <1>1, RiskRows DEF MayChange
<1>3. /\ next \in Risk /\ next.version = risks[r].version + 1
      /\ next.state = row.state /\ next.owner = row.owner /\ next.review = row.review
      /\ next.severity = row.severity /\ next.closedAt = row.closedAt
      /\ next.state # "absent"
  <2>1. risks[r].version \in 1 .. MaxRevisions /\ row.state \in RiskState
    BY <1>2 DEF Risk
  <2>2. row.version + 1 \in 1 .. MaxRevisions /\ row.version + 1 = risks[r].version + 1
    BY <1>2, <2>1, RiskAssumption
  <2> QED
    BY <2>1, <2>2 DEF Risk, RiskState
<1>4. turn \in Turn /\ turn.to = row.state /\ turn.from = risks[r].state
  BY <1>2 DEF Turn, Risk
<1>5. /\ risks' = [risks EXCEPT ![r] = next]
      /\ revisions' = [revisions EXCEPT ![r] = Append(@, turn)]
      /\ riskDesks' = [riskDesks EXCEPT ![k] = NoScreen]
      /\ UNCHANGED <<riskProject, reminders, batch>>
  BY DEF Saved
<1> HIDE DEF next, turn
<1> DEFINE longer == Append(revisions[r], turn)
<1>6. /\ longer \in Seq(Turn) /\ Len(longer) = Len(revisions[r]) + 1
      /\ longer[Len(revisions[r]) + 1] = turn
      /\ \A i \in 1 .. Len(revisions[r]) : longer[i] = revisions[r][i]
  BY <1>2, <1>4, AppendProperties
<1> HIDE DEF longer
<1>7. /\ risks' \in [Risks -> {Unraised} \cup Risk] /\ risks'[r] = next
      /\ \A s \in Risks : s # r => risks'[s] = risks[s]
  BY <1>1, <1>3, <1>5 DEF RiskTypeOK
<1>8. /\ revisions' \in [Risks -> Seq(Turn)] /\ revisions'[r] = longer
      /\ \A s \in Risks : s # r => revisions'[s] = revisions[s]
  BY <1>1, <1>5, <1>6 DEF RiskTypeOK, Turn, longer
<1>9. RiskTypeOK'
  BY <1>1, <1>5, <1>7, <1>8 DEF RiskTypeOK, Turn
<1>10. HistoryIsUnbroken'
  <2>1. /\ Len(revisions[r]) = risks[r].version
        /\ revisions[r][Len(revisions[r])].to = risks[r].state
        /\ \A n \in 1 .. Len(revisions[r]) - 1 :
             revisions[r][n + 1].from = revisions[r][n].to
    BY <1>1 DEF HistoryIsUnbroken
  <2>2. Len(revisions[r]) >= 1
    BY <1>2, <2>1 DEF Risk
  <2>3. ASSUME NEW n \in 1 .. Len(longer) - 1
        PROVE  longer[n + 1].from = longer[n].to
    <3>1. n \in 1 .. Len(revisions[r]) /\ longer[n] = revisions[r][n] /\ n \in Int
      BY <1>2, <1>6, <2>3
    <3>2. CASE n = Len(revisions[r])
      BY <1>4, <1>6, <2>1, <3>1, <3>2
    <3>3. CASE n # Len(revisions[r])
      <4>1. n + 1 \in 1 .. Len(revisions[r]) /\ n \in 1 .. Len(revisions[r]) - 1
        BY <1>2, <3>1, <3>3
      <4> QED
        BY <1>6, <2>1, <3>1, <4>1
    <3> QED
      BY <3>2, <3>3
  <2>4. /\ Len(longer) = next.version /\ longer[Len(longer)].to = next.state
        /\ next.state \in Closed => next.closedAt
    BY <1>3, <1>4, <1>6, <2>1
  <2> QED
    BY <1>1, <1>7, <1>8, <2>3, <2>4, UnbrokenElsewhere
<1>11. UnownedAreLow'
  BY <1>1, <1>3, <1>7 DEF UnownedAreLow
<1>12. ScreensShowRisks'
  <2>1. \A l \in RiskDesks : riskDesks'[l] = riskDesks[l] \/ riskDesks'[l] = NoScreen
    BY <1>1, <1>5 DEF RiskTypeOK
  <2>2. \A s \in Risks : risks[s].state # "absent" => risks'[s].state # "absent"
    BY <1>3, <1>7
  <2>3. \A l \in RiskDesks :
          riskDesks[l].step = "shown" => riskDesks[l].risk \in Risks
    BY <1>1 DEF RiskTypeOK, NoScreen
  <2> QED
    BY <1>1, <2>1, <2>2, <2>3 DEF ScreensShowRisks, NoScreen
<1> QED
  BY <1>9, <1>10, <1>11, <1>12 DEF RisksHold

\* triage_risk names an owner.
LEMMA TriageKeeps ==
  ASSUME RisksHold, NEW k \in RiskDesks, NEW r \in Risks, NEW severity \in Level,
         NEW owner \in Owners, NEW review \in {"later", "due"},
         risks[r].state # "absent", Triage(k, r, severity, owner, review)
  PROVE  RisksHold'
<1> DEFINE row == [risks[r] EXCEPT !.severity = severity, !.owner = owner,
                                   !.review = review, !.state = "open"]
<1>1. risks[r] \in Risk
  BY RiskRows DEF RisksHold
<1>2. /\ row \in Risk /\ row.version = risks[r].version /\ row.state = "open"
      /\ row.owner \in Owners
  BY <1>1 DEF Risk, RiskState
<1>3. MayChange(k, r) /\ Saved(k, r, row)
  BY DEF Triage
<1> HIDE DEF row
<1>4. row.state \notin Closed /\ row.owner # Nobody
  BY <1>2, RiskAssumption DEF Closed
<1> QED
  BY <1>2, <1>3, <1>4, SavedKeeps

\* transition_risk keeps severity and review date of a risk without an owner.
LEMMA TransitionKeeps ==
  ASSUME RisksHold, NEW k \in RiskDesks, NEW r \in Risks,
         risks[r].state # "absent", Transition(k, r)
  PROVE  RisksHold'
<1>1. /\ risks[r] \in Risk
      /\ risks[r].owner = Nobody => risks[r].severity = "low" /\ risks[r].review = "none"
  BY RiskRows DEF RisksHold, UnownedAreLow
<1>2. CASE StartMitigation(k, r)
  <2> DEFINE row == [risks[r] EXCEPT !.state = "mitigating"]
  <2>1. /\ row \in Risk /\ row.version = risks[r].version /\ row.state = "mitigating"
        /\ row.owner = risks[r].owner /\ row.severity = risks[r].severity
        /\ row.review = risks[r].review
    BY <1>1 DEF Risk, RiskState
  <2>2. MayChange(k, r) /\ Saved(k, r, row)
    BY <1>2 DEF StartMitigation
  <2> HIDE DEF row
  <2>3. row.state \notin Closed
    BY <2>1 DEF Closed
  <2> QED
    BY <1>1, <2>1, <2>2, <2>3, SavedKeeps
<1>3. ASSUME NEW how \in Closed, Close(k, r, how)
      PROVE  RisksHold'
  <2> DEFINE row == [risks[r] EXCEPT !.state = how, !.closedAt = TRUE]
  <2>1. /\ row \in Risk /\ row.version = risks[r].version /\ row.closedAt
        /\ row.owner = risks[r].owner /\ row.severity = risks[r].severity
        /\ row.review = risks[r].review
    BY <1>1, <1>3 DEF Risk, RiskState, Closed
  <2>2. MayChange(k, r) /\ Saved(k, r, row)
    BY <1>3 DEF Close
  <2> HIDE DEF row
  <2> QED
    BY <1>1, <2>1, <2>2, SavedKeeps
<1>4. ASSUME NEW owner \in Owners \cup {Nobody}, NEW review \in {"later", "due"},
             Reopen(k, r, owner, review)
      PROVE  RisksHold'
  <2>1. PICK new \in {owner, risks[r].owner} \ {Nobody} :
          Saved(k, r, [risks[r] EXCEPT !.owner = new, !.review = review,
                                       !.closedAt = FALSE, !.state = "open"])
    BY <1>4 DEF Reopen
  <2> DEFINE row == [risks[r] EXCEPT !.owner = new, !.review = review,
                                     !.closedAt = FALSE, !.state = "open"]
  <2>2. new \in Owners /\ new # Nobody
    BY <1>1 DEF Risk
  <2>3. /\ row \in Risk /\ row.version = risks[r].version /\ row.state = "open"
        /\ row.owner = new
    BY <1>1, <2>2 DEF Risk, RiskState
  <2>4. MayChange(k, r) /\ Saved(k, r, row)
    BY <1>4, <2>1 DEF Reopen
  <2> HIDE DEF row
  <2>5. row.state \notin Closed
    BY <2>3 DEF Closed
  <2> QED
    BY <2>2, <2>3, <2>4, <2>5, SavedKeeps
<1> QED
  BY <1>2, <1>3, <1>4 DEF Transition

\* A desk can change the risk it shows only, and shows a risk that exists.
LEMMA PageKeeps ==
  ASSUME RisksHold, NEW k \in RiskDesks, NEW r \in Risks, RiskPage(k, r)
  PROVE  RisksHold'
<1>1. RiskTypeOK
  BY DEF RisksHold
<1>2. CASE ShowRisk(k, r)
  <2> DEFINE screen == [step |-> "shown", risk |-> r, version |-> risks[r].version]
  <2>1. risks[r] \in Risk
    BY <1>1, <1>2, RiskRows DEF ShowRisk
  <2>2. screen \in [step : {"shown"}, risk : Risks, version : 1 .. MaxRevisions]
    BY <2>1 DEF Risk
  <2>3. /\ riskDesks' = [riskDesks EXCEPT ![k] = screen]
        /\ UNCHANGED <<riskProject, risks, revisions, reminders, batch>>
    BY <1>2 DEF ShowRisk
  <2> HIDE DEF screen
  <2>4. RiskTypeOK'
    BY <1>1, <2>2, <2>3 DEF RiskTypeOK
  <2>5. HistoryIsUnbroken' /\ UnownedAreLow'
    BY <2>3 DEF RisksHold, HistoryIsUnbroken, UnownedAreLow
  <2>6. ScreensShowRisks'
    <3>1. \A l \in RiskDesks : riskDesks'[l] = IF l = k THEN screen ELSE riskDesks[l]
      BY <1>1, <2>3 DEF RiskTypeOK
    <3>2. screen.risk = r /\ risks[r].state # "absent"
      BY <1>2 DEF screen, ShowRisk
    <3> QED
      BY <2>3, <3>1, <3>2 DEF RisksHold, ScreensShowRisks
  <2> QED
    BY <2>4, <2>5, <2>6 DEF RisksHold
<1>3. ASSUME NEW l \in Level, NEW i \in Level, NEW owner \in Owners,
             NEW review \in {"later", "due"},
             Triage(k, r, Severity(l, i), owner, review)
      PROVE  RisksHold'
  <2>1. Severity(l, i) \in Level
    BY DEF Severity, Level
  <2>2. risks[r].state # "absent"
    BY <1>3 DEF Triage, MayChange, RisksHold, ScreensShowRisks
  <2> QED
    BY <1>3, <2>1, <2>2, TriageKeeps
<1>4. CASE Transition(k, r)
  <2>1. risks[r].state # "absent"
    BY <1>4 DEF Transition, StartMitigation, Close, Reopen, MayChange, RisksHold,
                ScreensShowRisks
  <2> QED
    BY <1>4, <2>1, TransitionKeeps
<1> QED
  BY <1>2, <1>3, <1>4 DEF RiskPage

\* A risk is raised without an owner, low and without a review date.
LEMMA RaiseKeeps ==
  ASSUME RisksHold, NEW r \in Risks, Raise(r)
  PROVE  RisksHold'
<1> DEFINE row == [state |-> "raised", severity |-> "low", owner |-> Nobody,
                   review |-> "none", closedAt |-> FALSE, version |-> 1]
           turn == [from |-> "raised", to |-> "raised"]
<1>1. RiskTypeOK /\ HistoryIsUnbroken /\ UnownedAreLow /\ ScreensShowRisks
  BY DEF RisksHold
<1>2. /\ risks' = [risks EXCEPT ![r] = row]
      /\ revisions' = [revisions EXCEPT ![r] = <<turn>>]
      /\ UNCHANGED <<riskProject, riskDesks, reminders, batch>>
  BY DEF Raise
<1>3. /\ row \in Risk /\ row.state = "raised" /\ row.owner = Nobody /\ row.severity = "low"
      /\ row.review = "none" /\ row.version = 1
  BY RiskAssumption DEF Risk, RiskState, Level
<1>4. turn \in Turn /\ turn.to = "raised"
  BY DEF Turn, RiskState
<1> HIDE DEF row, turn
<1>5. <<turn>> \in Seq(Turn) /\ Len(<<turn>>) = 1 /\ <<turn>>[1] = turn
  BY <1>4
<1>6. /\ risks' \in [Risks -> {Unraised} \cup Risk] /\ risks'[r] = row
      /\ \A s \in Risks : s # r => risks'[s] = risks[s]
  BY <1>1, <1>2, <1>3 DEF RiskTypeOK
<1>7. /\ revisions' \in [Risks -> Seq(Turn)] /\ revisions'[r] = <<turn>>
      /\ \A s \in Risks : s # r => revisions'[s] = revisions[s]
  BY <1>1, <1>2, <1>5 DEF RiskTypeOK, Turn
<1>8. RiskTypeOK'
  BY <1>1, <1>2, <1>6, <1>7 DEF RiskTypeOK, Turn
<1>9. HistoryIsUnbroken'
  <2> HIDE DEF turn
  <2> DEFINE first == <<turn>>
  <2>2. /\ Len(first) = row.version /\ first[Len(first)].to = row.state
        /\ row.state \notin Closed
        /\ \A n \in 1 .. Len(first) - 1 : first[n + 1].from = first[n].to
    BY <1>3, <1>4, <1>5 DEF Closed
  <2>3. revisions'[r] = first
    BY <1>7
  <2> HIDE DEF first
  <2> QED
    BY <1>1, <1>6, <1>7, <2>2, <2>3, UnbrokenElsewhere
<1>10. UnownedAreLow'
  BY <1>1, <1>3, <1>6 DEF UnownedAreLow
<1>11. ScreensShowRisks'
  <2>1. \A s \in Risks : risks[s].state # "absent" => risks'[s].state # "absent"
    BY <1>3, <1>6
  <2>2. \A k \in RiskDesks :
          riskDesks[k].step = "shown" => riskDesks[k].risk \in Risks
    BY <1>1 DEF RiskTypeOK, NoScreen
  <2> QED
    BY <1>1, <1>2, <2>1, <2>2 DEF ScreensShowRisks
<1> QED
  BY <1>8, <1>9, <1>10, <1>11 DEF RisksHold

\* A risk with a review date has an owner.
LEMMA FallsDueKeeps ==
  ASSUME RisksHold, NEW r \in Risks, ReviewFallsDue(r)
  PROVE  RisksHold'
<1> DEFINE row == [risks[r] EXCEPT !.review = "due"]
<1>1. RiskTypeOK /\ HistoryIsUnbroken /\ UnownedAreLow /\ ScreensShowRisks
  BY DEF RisksHold
<1>2. /\ risks[r] \in Risk /\ risks[r].state # "absent" /\ risks[r].review = "later"
      /\ risks[r].owner # Nobody
  BY <1>1, RiskRows DEF ReviewFallsDue, UnownedAreLow
<1>3. /\ row \in Risk /\ row.state = risks[r].state /\ row.owner = risks[r].owner
      /\ row.version = risks[r].version /\ row.closedAt = risks[r].closedAt
  BY <1>2 DEF Risk
<1>4. risks' = [risks EXCEPT ![r] = row]
  BY <1>1, <1>2 DEF ReviewFallsDue, RiskTypeOK
<1>5. UNCHANGED <<riskProject, revisions, riskDesks, reminders, batch>>
  BY DEF ReviewFallsDue
<1> HIDE DEF row
<1>6. /\ risks' \in [Risks -> {Unraised} \cup Risk] /\ risks'[r] = row
      /\ \A s \in Risks : s # r => risks'[s] = risks[s]
  BY <1>1, <1>3, <1>4 DEF RiskTypeOK
<1>7. RiskTypeOK'
  BY <1>1, <1>5, <1>6 DEF RiskTypeOK
<1>8. HistoryIsUnbroken'
  BY <1>1, <1>2, <1>3, <1>5, <1>6 DEF HistoryIsUnbroken
<1>9. UnownedAreLow'
  BY <1>1, <1>2, <1>3, <1>6 DEF UnownedAreLow
<1>10. ScreensShowRisks'
  <2>1. \A s \in Risks : risks[s].state # "absent" => risks'[s].state # "absent"
    BY <1>2, <1>3, <1>6
  <2>2. \A k \in RiskDesks :
          riskDesks[k].step = "shown" => riskDesks[k].risk \in Risks
    BY <1>1 DEF RiskTypeOK, NoScreen
  <2> QED
    BY <1>1, <1>5, <2>1, <2>2 DEF ScreensShowRisks
<1> QED
  BY <1>7, <1>8, <1>9, <1>10 DEF RisksHold

\* RisksHold is inductive: the task, the mail and the project write no risk.
LEMMA RiskStep ==
  ASSUME RisksHold, [RiskNext]_riskVars
  PROVE  RisksHold'
<1>1. RiskTypeOK /\ HistoryIsUnbroken /\ UnownedAreLow /\ ScreensShowRisks
  BY DEF RisksHold
<1>2. ASSUME UNCHANGED <<risks, revisions, riskDesks>>, RiskTypeOK'
      PROVE  RisksHold'
  BY <1>1, <1>2 DEF RisksHold, HistoryIsUnbroken, UnownedAreLow, ScreensShowRisks
<1>3. CASE UNCHANGED riskVars
  <2>1. RiskTypeOK'
    BY <1>1, <1>3 DEF riskVars, RiskTypeOK
  <2> QED
    BY <1>2, <1>3, <2>1 DEF riskVars
<1>4. CASE RiskProjectTurns
  <2>1. RiskTypeOK'
    BY <1>1, <1>4 DEF RiskProjectTurns, RiskTypeOK
  <2> QED
    BY <1>2, <1>4, <2>1 DEF RiskProjectTurns
<1>5. ASSUME NEW r \in Risks, NEW owner \in Owners, WithdrawReminder(r, owner)
      PROVE  RisksHold'
  <2>1. RiskTypeOK'
    BY <1>1, <1>5 DEF WithdrawReminder, RiskTypeOK
  <2> QED
    BY <1>2, <1>5, <2>1 DEF WithdrawReminder
<1>6. ASSUME NEW r \in Risks, NEW owner \in Owners, Remind(r, owner)
      PROVE  RisksHold'
  <2>1. RiskTypeOK'
    BY <1>1, <1>6 DEF Remind, RiskTypeOK
  <2> QED
    BY <1>2, <1>6, <2>1 DEF Remind
<1>7. CASE ReadBatch
  <2>1. PICK set \in SUBSET Risks :
          FirstRows(set) /\ batch' = {<<r, risks[r].owner>> : r \in set}
    BY <1>7 DEF ReadBatch
  <2>2. \A r \in set : r \in Risks /\ risks[r].state # "absent"
    BY <2>1 DEF FirstRows, DueRisks, RiskState, Closed
  <2>3. \A r \in set : risks[r].owner \in Owners \cup {Nobody}
    BY <1>1, <2>2, RiskRows DEF Risk
  <2>4. batch' \subseteq Risks \X (Owners \cup {Nobody})
    BY <2>1, <2>2, <2>3
  <2>5. UNCHANGED <<riskProject, risks, revisions, riskDesks, reminders>>
    BY <1>7 DEF ReadBatch
  <2>6. RiskTypeOK'
    BY <1>1, <2>4, <2>5 DEF RiskTypeOK
  <2> QED
    BY <1>2, <2>5, <2>6
<1> QED
  BY <1>3, <1>4, <1>5, <1>6, <1>7, RaiseKeeps, FallsDueKeeps, PageKeeps
     DEF RiskNext, ReminderTask

\* No risk has been raised.
LEMMA RiskBegins == RiskInit => RisksHold
<1> SUFFICES ASSUME RiskInit PROVE RisksHold
  OBVIOUS
<1>1. << >> \in Seq([from : RiskState, to : RiskState])
  OBVIOUS
<1>2. RiskTypeOK
  BY <1>1 DEF RiskInit, RiskTypeOK
<1>3. HistoryIsUnbroken /\ UnownedAreLow /\ ScreensShowRisks
  BY DEF RiskInit, HistoryIsUnbroken, UnownedAreLow, ScreensShowRisks, Unraised, NoScreen
<1> QED
  BY <1>2, <1>3 DEF RisksHold

\* A risk without an owner is low and has no review date.
LEMMA DueAreOwned == RisksHold => DueRisksAreOwned
BY DEF RisksHold, UnownedAreLow, DueRisksAreOwned, DueRisks, RiskState, Closed

\* The revisions of a risk tell its whole history, and a risk that is due for
\* review has an owner to remind (_append_risk_revision, triage_risk).
THEOREM RiskHistoryHolds ==
  RiskSpec => [](RiskTypeOK /\ HistoryIsUnbroken /\ DueRisksAreOwned)
<1>1. RiskInit => RisksHold
  BY RiskBegins
<1>2. RisksHold /\ [RiskNext]_riskVars => RisksHold'
  BY RiskStep
<1>3. RisksHold => RiskTypeOK /\ HistoryIsUnbroken /\ DueRisksAreOwned
  BY DueAreOwned DEF RisksHold
<1> QED
  BY <1>1, <1>2, <1>3, PTL DEF RiskSpec

HIDE RiskAssumption

-----------------------------------------------------------------------------
(***************************************************************************)
(* Follow-ups and settings.                                                *)
(***************************************************************************)

USE FollowUpAssumption

\* The rows before a run were there when it read them, and rows never go away.
RowsWereRead ==
  \A w \in TaskRuns :
    taskRuns[w] # NoRun =>
      \A f \in taskRuns[w].todo : followUps[f] # Unasked /\ taskRuns[w].seen[f] # Unasked

\* A screen shows settings there were, and the present ones when the versions
\* agree; those of the preferences start again with a blind save.
DesksKnowSettings ==
  /\ \A k \in PolicyDesks :
       LET row == policyDesks[k].row
       IN  policyDesks[k].step # "none" =>
             /\ row.version <= policy.version
             /\ row.version = policy.version => row = policy
             /\ policyDesks[k].step = "creating" => row.version = 0
  /\ \A k \in PreferenceDesks :
       LET row == preferenceDesks[k].row
       IN  preferenceDesks[k].step = "shown" =>
             /\ row.blind <= profile.blind
             /\ row.blind = profile.blind =>
                  /\ row.version <= profile.version
                  /\ row.version = profile.version => row = profile

FollowUpsHold == FollowUpTypeOK /\ RowsWereRead /\ DesksKnowSettings

\* Only rows change, one of them, and into a row.
LEMMA RowChanged ==
  ASSUME FollowUpsHold, NEW f \in FollowUps, NEW row \in FollowUp,
         followUps' = [followUps EXCEPT ![f] = row],
         UNCHANGED <<taskRuns, settingVars>>
  PROVE  FollowUpsHold'
<1>1. FollowUpTypeOK /\ RowsWereRead /\ DesksKnowSettings
  BY DEF FollowUpsHold
<1>2. row # Unasked
  BY DEF FollowUp, Unasked
<1>3. /\ followUps' \in [FollowUps -> {Unasked} \cup FollowUp]
      /\ \A g \in FollowUps : followUps'[g] = IF g = f THEN row ELSE followUps[g]
  BY <1>1 DEF FollowUpTypeOK
<1>4. UNCHANGED <<taskRuns, policy, policyDesks, profile, preferenceDesks>>
  BY DEF settingVars
<1>5. FollowUpTypeOK'
  BY <1>1, <1>3, <1>4 DEF FollowUpTypeOK
<1>6. \A w \in TaskRuns : taskRuns[w] # NoRun => taskRuns[w].todo \subseteq FollowUps
  BY <1>1 DEF FollowUpTypeOK, TaskRun
<1>7. RowsWereRead' /\ DesksKnowSettings'
  BY <1>1, <1>2, <1>3, <1>4, <1>6 DEF RowsWereRead, DesksKnowSettings
<1> QED
  BY <1>5, <1>7 DEF FollowUpsHold

\* The events in the life of a row.
LEMMA RowActs ==
  ASSUME FollowUpsHold, NEW f \in FollowUps,
         AskForAction(f) \/ TimePasses(f) \/ CompleteAction(f) \/ MarkUnavailable(f)
  PROVE  FollowUpsHold'
<1>1. FollowUpTypeOK
  BY DEF FollowUpsHold
<1>2. CASE AskForAction(f)
  <2>1. PICK about \in {"revision", "risk"} :
          followUps' = [followUps EXCEPT
            ![f] = [outcome |-> "pending", about |-> about, time |-> "early",
                    rested |-> TRUE, count |-> 0, escalated |-> FALSE]]
    BY <1>2 DEF AskForAction
  <2> DEFINE row == [outcome |-> "pending", about |-> about, time |-> "early",
                     rested |-> TRUE, count |-> 0, escalated |-> FALSE]
  <2>2. row \in FollowUp
    BY FollowUpAssumption DEF FollowUp
  <2>3. followUps' = [followUps EXCEPT ![f] = row] /\ UNCHANGED <<taskRuns, settingVars>>
    BY <1>2, <2>1 DEF AskForAction
  <2> HIDE DEF row
  <2> QED
    BY <2>2, <2>3, RowChanged
<1>3. CASE TimePasses(f) \/ CompleteAction(f) \/ MarkUnavailable(f)
  <2>1. followUps[f] \in FollowUp
    BY <1>1, <1>3 DEF FollowUpTypeOK, TimePasses, CompleteAction, MarkUnavailable, Active,
       Unasked
  <2>2. PICK row \in FollowUp : followUps' = [followUps EXCEPT ![f] = row]
    <3>1. /\ [followUps[f] EXCEPT !.time = "lead"] \in FollowUp
          /\ [followUps[f] EXCEPT !.time = "late"] \in FollowUp
          /\ [followUps[f] EXCEPT !.rested = TRUE] \in FollowUp
          /\ [followUps[f] EXCEPT !.outcome = "completed"] \in FollowUp
          /\ [followUps[f] EXCEPT !.outcome = "unavailable"] \in FollowUp
      BY <2>1 DEF FollowUp
    <3> QED
      BY <1>3, <3>1 DEF TimePasses, CompleteAction, MarkUnavailable
  <2>3. UNCHANGED <<taskRuns, settingVars>>
    BY <1>3 DEF TimePasses, CompleteAction, MarkUnavailable
  <2> QED
    BY <2>2, <2>3, RowChanged
<1> QED
  BY <1>2, <1>3

\* A run reads rows that are pending.
LEMMA StartReads ==
  ASSUME FollowUpsHold, NEW w \in TaskRuns, StartFollowUps(w)
  PROVE  FollowUpsHold'
<1> DEFINE selected == FirstDue({f \in FollowUps : Active(f)})
           seen == [f \in FollowUps |-> IF f \in selected THEN followUps[f] ELSE Unasked]
           run == [step |-> "checking", todo |-> selected, seen |-> seen]
<1>1. FollowUpTypeOK /\ RowsWereRead /\ DesksKnowSettings
  BY DEF FollowUpsHold
<1>2. /\ selected # {} /\ taskRuns' = [taskRuns EXCEPT ![w] = run]
      /\ UNCHANGED <<followUps, policy, policyDesks, profile, preferenceDesks>>
  BY DEF StartFollowUps, settingVars
<1>3. \A f \in selected : f \in FollowUps /\ followUps[f] # Unasked
  BY DEF FirstDue, Active, Unasked
<1>4. seen \in [FollowUps -> {Unasked} \cup FollowUp]
  BY <1>1 DEF FollowUpTypeOK
<1>5. \A f \in selected : seen[f] # Unasked
  BY <1>3
<1> HIDE DEF selected, seen
<1>6. selected \in (SUBSET FollowUps) \ {{}}
  BY <1>2, <1>3
<1>7. run \in TaskRun /\ run.todo = selected /\ run.seen = seen
  BY <1>4, <1>6 DEF TaskRun
<1> HIDE DEF run
<1>8. /\ taskRuns' \in [TaskRuns -> {NoRun} \cup TaskRun] /\ taskRuns'[w] = run
      /\ \A v \in TaskRuns : v # w => taskRuns'[v] = taskRuns[v]
  BY <1>1, <1>2, <1>7 DEF FollowUpTypeOK
<1>9. FollowUpTypeOK'
  BY <1>1, <1>2, <1>8 DEF FollowUpTypeOK
<1>10. RowsWereRead' /\ DesksKnowSettings'
  BY <1>1, <1>2, <1>3, <1>5, <1>7, <1>8 DEF RowsWereRead, DesksKnowSettings
<1> QED
  BY <1>9, <1>10 DEF FollowUpsHold

\* A run that goes on has less before it.
LEMMA GoesOn ==
  ASSUME FollowUpTypeOK, NEW w \in TaskRuns, taskRuns[w].step # "idle", NEW f \in FollowUps,
         \/ RowDone(w, f)
         \/ \E step \in {"reminding", "escalating"} :
              taskRuns' = [taskRuns EXCEPT ![w].step = step]
  PROVE  /\ taskRuns' \in [TaskRuns -> {NoRun} \cup TaskRun]
         /\ \A v \in TaskRuns : v # w => taskRuns'[v] = taskRuns[v]
         /\ taskRuns[w] # NoRun
         /\ taskRuns'[w] # NoRun =>
              /\ taskRuns'[w].todo \subseteq taskRuns[w].todo
              /\ taskRuns'[w].seen = taskRuns[w].seen
<1> DEFINE rest == taskRuns[w].todo \ {f}
           next == [taskRuns[w] EXCEPT !.step = "checking", !.todo = rest]
           saving(step) == [taskRuns[w] EXCEPT !.step = step]
<1>1. taskRuns[w] \in TaskRun /\ taskRuns[w] # NoRun
  BY DEF FollowUpTypeOK, NoRun
<1>2. rest # {} =>
        next \in TaskRun /\ next.todo = rest /\ next.seen = taskRuns[w].seen
  BY <1>1 DEF TaskRun
<1>3. \A step \in {"reminding", "escalating"} :
        /\ saving(step) \in TaskRun /\ saving(step).todo = taskRuns[w].todo
        /\ saving(step).seen = taskRuns[w].seen
  BY <1>1 DEF TaskRun
<1>4. \/ taskRuns' = [taskRuns EXCEPT ![w] = NoRun]
      \/ rest # {} /\ taskRuns' = [taskRuns EXCEPT ![w] = next]
      \/ \E step \in {"reminding", "escalating"} :
           taskRuns' = [taskRuns EXCEPT ![w] = saving(step)]
  <2>1. CASE RowDone(w, f) /\ rest = {}
    BY <2>1 DEF RowDone
  <2>2. CASE RowDone(w, f) /\ rest # {}
    BY <2>2 DEF RowDone
  <2> QED
    BY <2>1, <2>2
<1>5. rest \subseteq taskRuns[w].todo
  OBVIOUS
<1>6. taskRuns \in [TaskRuns -> {NoRun} \cup TaskRun]
  BY DEF FollowUpTypeOK
<1> HIDE DEF rest, next, saving
<1> QED
  BY <1>1, <1>2, <1>3, <1>4, <1>5, <1>6

\* A row is saved with what the run adds to the row it has read.
LEMMA RowSaved ==
  ASSUME FollowUpsHold, NEW w \in TaskRuns, NEW f \in FollowUps,
         taskRuns[w].step # "idle",
         \/ RowDone(w, f)
         \/ \E step \in {"reminding", "escalating"} :
              taskRuns' = [taskRuns EXCEPT ![w].step = step],
         NEW row \in {Unasked} \cup FollowUp,
         followUps[f] # Unasked => row # Unasked,
         followUps' = [followUps EXCEPT ![f] = row],
         UNCHANGED settingVars
  PROVE  FollowUpsHold'
<1>1. FollowUpTypeOK /\ RowsWereRead /\ DesksKnowSettings
  BY DEF FollowUpsHold
<1>2. UNCHANGED <<policy, policyDesks, profile, preferenceDesks>>
  BY DEF settingVars
<1>3. /\ taskRuns' \in [TaskRuns -> {NoRun} \cup TaskRun]
      /\ \A v \in TaskRuns : v # w => taskRuns'[v] = taskRuns[v]
      /\ taskRuns[w] # NoRun
      /\ taskRuns'[w] # NoRun =>
           /\ taskRuns'[w].todo \subseteq taskRuns[w].todo
           /\ taskRuns'[w].seen = taskRuns[w].seen
  BY <1>1, GoesOn
<1>4. /\ followUps' \in [FollowUps -> {Unasked} \cup FollowUp]
      /\ \A g \in FollowUps : followUps[g] # Unasked => followUps'[g] # Unasked
  BY <1>1 DEF FollowUpTypeOK
<1>5. FollowUpTypeOK'
  BY <1>1, <1>2, <1>3, <1>4 DEF FollowUpTypeOK
<1>6. \A v \in TaskRuns : taskRuns[v] # NoRun => taskRuns[v].todo \subseteq FollowUps
  BY <1>1 DEF FollowUpTypeOK, TaskRun
<1>7. RowsWereRead'
  BY <1>1, <1>3, <1>4, <1>6 DEF RowsWereRead
<1>8. DesksKnowSettings'
  BY <1>1, <1>2 DEF DesksKnowSettings
<1> QED
  BY <1>5, <1>7, <1>8 DEF FollowUpsHold

\* The rows of a batch are checked, reminded of and escalated one by one.
LEMMA RunActs ==
  ASSUME FollowUpsHold, NEW w \in TaskRuns, FollowUpRun(w)
  PROVE  FollowUpsHold'
<1>1. FollowUpTypeOK /\ RowsWereRead
  BY DEF FollowUpsHold
<1>2. ASSUME NEW f \in FollowUps, Check(w, f) PROVE FollowUpsHold'
  <2>1. /\ taskRuns[w].step # "idle"
        /\ RowDone(w, f) \/ taskRuns' = [taskRuns EXCEPT ![w].step = "reminding"]
        /\ UNCHANGED settingVars
    BY <1>2 DEF Check
  <2>2. /\ followUps[f] \in {Unasked} \cup FollowUp
        /\ followUps' = [followUps EXCEPT ![f] = followUps[f]]
    BY <1>1, <1>2 DEF Check, FollowUpTypeOK
  <2> QED
    BY <2>1, <2>2, RowSaved
<1>3. ASSUME NEW f \in FollowUps, taskRuns[w].step # "idle", IsNextRow(w, f)
      PROVE  followUps[f] \in FollowUp /\ taskRuns[w].seen[f] \in FollowUp
  <2>1. taskRuns[w] \in TaskRun /\ taskRuns[w] # NoRun
    BY <1>1, <1>3 DEF FollowUpTypeOK, NoRun
  <2>2. f \in taskRuns[w].todo
    BY <1>3 DEF IsNextRow
  <2> QED
    BY <1>1, <2>1, <2>2 DEF RowsWereRead, FollowUpTypeOK, TaskRun
<1>4. ASSUME NEW f \in FollowUps, SaveReminder(w, f) PROVE FollowUpsHold'
  <2> DEFINE seen == taskRuns[w].seen[f]
             row == IF ToBeReminded(seen)
                    THEN [followUps[f] EXCEPT !.count = seen.count + 1, !.rested = FALSE]
                    ELSE followUps[f]
  <2>1. /\ taskRuns[w].step # "idle" /\ IsNextRow(w, f)
        /\ taskRuns' = [taskRuns EXCEPT ![w].step = "escalating"]
        /\ UNCHANGED settingVars
    BY <1>4 DEF SaveReminder
  <2>2. followUps[f] \in FollowUp /\ seen \in FollowUp
    BY <1>3, <2>1
  <2>3. ToBeReminded(seen) => seen.count + 1 \in 0 .. MaxReminders
    <3>1. policy.max \in 0 .. MaxReminders
      BY <1>1 DEF FollowUpTypeOK, Policy
    <3>2. seen.count \in 0 .. MaxReminders
      BY <2>2 DEF FollowUp
    <3>3. ToBeReminded(seen) => seen.count < policy.max
      BY DEF ToBeReminded
    <3> HIDE DEF seen
    <3> QED
      BY <3>1, <3>2, <3>3, FollowUpAssumption
  <2>4. row \in FollowUp
    <3> HIDE DEF seen
    <3> QED
      BY <2>2, <2>3 DEF FollowUp
  <2>5. followUps' = [followUps EXCEPT ![f] = row]
    BY <1>1, <1>4 DEF SaveReminder, FollowUpTypeOK
  <2>6. row # Unasked
    BY <2>4 DEF FollowUp, Unasked
  <2> HIDE DEF row
  <2> QED
    BY <2>1, <2>4, <2>5, <2>6, RowSaved
<1>5. ASSUME NEW f \in FollowUps, SaveEscalation(w, f) PROVE FollowUpsHold'
  <2> DEFINE late == followUps[f].escalated \/ taskRuns[w].seen[f].time = "late"
             row == [followUps[f] EXCEPT !.escalated = late]
  <2>1. /\ taskRuns[w].step # "idle" /\ IsNextRow(w, f) /\ RowDone(w, f)
        /\ UNCHANGED settingVars
    BY <1>5 DEF SaveEscalation
  <2>2. followUps[f] \in FollowUp
    BY <1>3, <2>1
  <2>3. late \in BOOLEAN
    BY <2>2 DEF FollowUp
  <2>4. row \in FollowUp
    <3> HIDE DEF late
    <3> QED
      BY <2>2, <2>3 DEF FollowUp
  <2>5. followUps' = [followUps EXCEPT ![f] = row]
    BY <1>1, <1>5 DEF SaveEscalation, FollowUpTypeOK
  <2>6. row # Unasked
    BY <2>4 DEF FollowUp, Unasked
  <2> HIDE DEF row
  <2> QED
    BY <2>1, <2>4, <2>5, <2>6, RowSaved
<1> QED
  BY <1>2, <1>4, <1>5, StartReads DEF FollowUpRun

\* A change of the settings replaces the row its author was shown, but for the
\* saves of clients that have seen none and those that follow them.
NothingIsUndone ==
  /\ policy' # policy =>
       \E k \in PolicyDesks : policyDesks'[k] = NoDesk /\ policyDesks[k].step # "none"
                              /\ policyDesks[k].row = policy
  /\ profile' # profile /\ profile'.version > 1 =>
       LET author == preferenceDesks[profile'.by]
       IN  \/ Blind(profile'.by)
           \/ author.row = profile
           \/ author.row.blind < profile.blind

\* The settings change no row and no run.
LEMMA SettingsApart ==
  ASSUME FollowUpsHold, UNCHANGED rowVars,
         policy' \in Policy, policyDesks' \in [PolicyDesks -> PolicyDesk],
         profile' \in Profile,
         preferenceDesks' \in [PreferenceDesks -> PreferenceDesk],
         DesksKnowSettings'
  PROVE  FollowUpsHold'
BY DEF FollowUpsHold, FollowUpTypeOK, RowsWereRead, rowVars

\* A screen shows a policy there was; the present one when the versions agree.
LEMMA PolicyScreen ==
  ASSUME FollowUpsHold, NEW k \in PolicyDesks
  PROVE  /\ policyDesks[k].step = "none" => policyDesks[k] = NoDesk
         /\ policyDesks[k].step # "none" =>
              /\ policyDesks[k].step \in {"shown", "creating"}
              /\ policyDesks[k].row \in Policy
              /\ policyDesks[k].row.version <= policy.version
              /\ policyDesks[k].row.version = policy.version => policyDesks[k].row = policy
BY DEF FollowUpsHold, FollowUpTypeOK, PolicyDesk, NoDesk, DesksKnowSettings

\* A policy that is replaced gets a version that no screen shows.
LEMMA PolicyReplaced ==
  ASSUME FollowUpsHold, NEW k \in PolicyDesks, policyDesks[k].step # "none",
         policyDesks[k].row.version = policy.version,
         NEW max \in 0 .. MaxReminders, policy.version < MaxEdits,
         policy' = [version |-> policy.version + 1, max |-> max],
         policyDesks' = [policyDesks EXCEPT ![k] = NoDesk],
         UNCHANGED <<rowVars, profile, preferenceDesks>>
  PROVE  FollowUpsHold' /\ NothingIsUndone
<1>1. /\ FollowUpTypeOK /\ DesksKnowSettings
      /\ policy \in Policy /\ policy.version \in 0 .. MaxEdits
  BY DEF FollowUpsHold, FollowUpTypeOK, Policy
<1>2. policy' \in Policy /\ policy'.version = policy.version + 1
  BY <1>1, FollowUpAssumption DEF Policy
<1>3. /\ policyDesks' \in [PolicyDesks -> PolicyDesk] /\ policyDesks'[k] = NoDesk
      /\ \A j \in PolicyDesks : j # k => policyDesks'[j] = policyDesks[j]
  BY <1>1 DEF FollowUpTypeOK, PolicyDesk
<1>4. ASSUME NEW j \in PolicyDesks, policyDesks'[j].step # "none"
      PROVE  /\ policyDesks'[j].row.version <= policy'.version
             /\ policyDesks'[j].row.version # policy'.version
             /\ policyDesks'[j].step = "creating" => policyDesks'[j].row.version = 0
  <2>1. j # k /\ policyDesks'[j] = policyDesks[j]
    BY <1>3, <1>4 DEF NoDesk
  <2>2. policyDesks[j].row \in Policy /\ policyDesks[j].row.version <= policy.version
    BY <1>4, <2>1, PolicyScreen
  <2>3. policyDesks[j].row.version \in 0 .. MaxEdits
    BY <2>2 DEF Policy
  <2> QED
    BY <1>1, <1>2, <1>4, <2>1, <2>2, <2>3 DEF DesksKnowSettings
<1>5. DesksKnowSettings'
  BY <1>1, <1>4 DEF DesksKnowSettings
<1>6. FollowUpsHold'
  BY <1>1, <1>2, <1>3, <1>5, SettingsApart DEF FollowUpTypeOK
<1>7. policyDesks[k].row = policy
  BY PolicyScreen
<1> QED
  BY <1>3, <1>6, <1>7 DEF NothingIsUndone

\* ProjectNotificationPolicyView: the row is compared under its lock, or created
\* when there is none.
LEMMA PolicyActs ==
  ASSUME FollowUpsHold, NEW k \in PolicyDesks,
         ShowPolicy(k) \/ SavePolicy(k) \/ BeginPolicy(k) \/ CreatePolicy(k)
  PROVE  FollowUpsHold' /\ NothingIsUndone
<1>1. /\ FollowUpTypeOK /\ DesksKnowSettings
      /\ policy \in Policy /\ policy.version \in 0 .. MaxEdits
      /\ policyDesks \in [PolicyDesks -> PolicyDesk]
  BY DEF FollowUpsHold, FollowUpTypeOK, Policy
<1>2. ASSUME NEW desk \in PolicyDesk,
             policyDesks' = [policyDesks EXCEPT ![k] = desk],
             UNCHANGED <<rowVars, policy, profile, preferenceDesks>>,
             desk # NoDesk =>
               /\ desk.row.version <= policy.version
               /\ desk.row.version = policy.version => desk.row = policy
               /\ desk.step = "creating" => desk.row.version = 0
      PROVE  FollowUpsHold' /\ NothingIsUndone
  <2>1. /\ policyDesks' \in [PolicyDesks -> PolicyDesk] /\ policyDesks'[k] = desk
        /\ \A j \in PolicyDesks : j # k => policyDesks'[j] = policyDesks[j]
    BY <1>1, <1>2
  <2>2. DesksKnowSettings'
    BY <1>1, <1>2, <2>1 DEF DesksKnowSettings, NoDesk
  <2>3. FollowUpsHold'
    BY <1>1, <1>2, <2>1, <2>2, SettingsApart DEF FollowUpTypeOK
  <2> QED
    BY <1>2, <2>3 DEF NothingIsUndone
<1>3. CASE ShowPolicy(k)
  <2> DEFINE desk == [step |-> "shown", row |-> policy]
  <2>1. /\ desk \in PolicyDesk
        /\ desk.row.version <= policy.version
        /\ desk.row.version = policy.version => desk.row = policy
        /\ desk.step = "creating" => desk.row.version = 0
    BY <1>1 DEF PolicyDesk
  <2>2. policyDesks' = [policyDesks EXCEPT ![k] = desk]
    BY <1>3 DEF ShowPolicy
  <2>3. UNCHANGED <<rowVars, policy, profile, preferenceDesks>>
    BY <1>3 DEF ShowPolicy
  <2> HIDE DEF desk
  <2> QED
    BY <1>2, <2>1, <2>2, <2>3
<1>4. CASE BeginPolicy(k)
  <2> DEFINE desk == [policyDesks[k] EXCEPT !.step = "creating"]
  <2>1. /\ policyDesks[k].step = "shown" /\ policyDesks[k].row.version = 0
        /\ policyDesks' = [policyDesks EXCEPT ![k] = desk]
        /\ UNCHANGED <<rowVars, policy, profile, preferenceDesks>>
    BY <1>4 DEF BeginPolicy
  <2>2. policyDesks[k] \in [step : {"shown", "creating"}, row : Policy]
    BY <1>1, <2>1 DEF PolicyDesk, NoDesk
  <2>3. desk \in PolicyDesk /\ desk.row = policyDesks[k].row
    BY <2>2 DEF PolicyDesk
  <2> HIDE DEF desk
  <2> QED
    BY <1>2, <2>1, <2>3, PolicyScreen
<1>5. CASE SavePolicy(k)
  <2>1. PICK max \in 0 .. MaxReminders :
          policy' = [version |-> policy.version + 1, max |-> max]
    BY <1>5 DEF SavePolicy
  <2>2. policy.version < MaxEdits
    BY <1>1, <1>5, FollowUpAssumption DEF SavePolicy
  <2> QED
    BY <1>5, <2>1, <2>2, PolicyReplaced DEF SavePolicy
<1>6. CASE CreatePolicy(k)
  <2>1. CASE UNCHANGED policy
    <3>1. NoDesk \in PolicyDesk
      BY DEF PolicyDesk
    <3> QED
      BY <1>2, <1>6, <2>1, <3>1 DEF CreatePolicy
  <2>2. CASE policy.version = 0 /\ \E max \in 0 .. MaxReminders :
                                     policy' = [version |-> 1, max |-> max]
    <3>1. PICK max \in 0 .. MaxReminders :
            policy' = [version |-> policy.version + 1, max |-> max]
      BY <2>2
    <3>2. policy.version < MaxEdits /\ policyDesks[k].row.version = policy.version
      BY <1>1, <1>6, <2>2, FollowUpAssumption DEF CreatePolicy, DesksKnowSettings
    <3> QED
      BY <1>6, <3>1, <3>2, PolicyReplaced DEF CreatePolicy
  <2> QED
    BY <1>6, <2>1, <2>2 DEF CreatePolicy
<1> QED
  BY <1>3, <1>4, <1>5, <1>6

\* What a screen shows of the preferences: an older profile, the present one, or
\* one that a client has overwritten that had seen none.
LEMMA PreferenceScreen ==
  ASSUME FollowUpsHold, NEW k \in PreferenceDesks, preferenceDesks[k].step = "shown"
  PROVE  /\ preferenceDesks[k].row \in Profile
         /\ preferenceDesks[k].row.version \in Nat /\ preferenceDesks[k].row.blind \in Nat
         /\ preferenceDesks[k].row.blind <= profile.blind
         /\ preferenceDesks[k].row.blind = profile.blind =>
              /\ preferenceDesks[k].row.version <= profile.version
              /\ preferenceDesks[k].row.version = profile.version =>
                   preferenceDesks[k].row = profile
<1>1. preferenceDesks[k] \in [step : {"shown"}, row : Profile]
  BY DEF FollowUpsHold, FollowUpTypeOK, PreferenceDesk, NoDesk
<1>2. preferenceDesks[k].row \in Profile
  BY <1>1
<1>3. preferenceDesks[k].row.version \in Nat /\ preferenceDesks[k].row.blind \in Nat
  BY <1>2, FollowUpAssumption DEF Profile
<1> QED
  BY <1>2, <1>3 DEF FollowUpsHold, DesksKnowSettings

\* A saved profile has a version, or a count of blind saves, that no screen
\* shows.
LEMMA ProfileSaved ==
  ASSUME FollowUpsHold, NEW k \in PreferenceDesks, NEW version \in Nat, NEW blind \in Nat,
         PreferencesSaved(k, version, blind),
         \/ blind = profile.blind /\ version > profile.version
         \/ blind = profile.blind + 1,
         \/ preferenceDesks[k].step \in {"creating", "saving"}
         \/ preferenceDesks[k].row = profile
         \/ preferenceDesks[k].row.blind < profile.blind
  PROVE  FollowUpsHold' /\ NothingIsUndone
<1>1. /\ FollowUpTypeOK /\ DesksKnowSettings /\ profile \in Profile
      /\ preferenceDesks \in [PreferenceDesks -> PreferenceDesk]
  BY DEF FollowUpsHold, FollowUpTypeOK
<1>2. profile.version \in Nat /\ profile.blind \in Nat
  BY <1>1, FollowUpAssumption DEF Profile
<1>3. /\ version \in 0 .. MaxEdits
      /\ profile' = [version |-> version, by |-> k, blind |-> blind]
      /\ preferenceDesks' = [preferenceDesks EXCEPT ![k] = NoDesk]
      /\ UNCHANGED <<rowVars, policy, policyDesks>>
  BY FollowUpAssumption DEF PreferencesSaved
<1>4. /\ profile' \in Profile /\ profile'.version = version /\ profile'.by = k
      /\ profile'.blind = blind
  BY <1>3 DEF Profile
<1>5. /\ preferenceDesks' \in [PreferenceDesks -> PreferenceDesk]
      /\ preferenceDesks'[k] = NoDesk
      /\ \A j \in PreferenceDesks : j # k => preferenceDesks'[j] = preferenceDesks[j]
  BY <1>1, <1>3 DEF PreferenceDesk
<1>6. ASSUME NEW j \in PreferenceDesks, preferenceDesks'[j].step = "shown"
      PROVE  LET row == preferenceDesks'[j].row
             IN  /\ row.blind <= profile'.blind
                 /\ row.blind = profile'.blind =>
                      row.version <= profile'.version /\ row.version # profile'.version
  <2>1. j # k /\ preferenceDesks'[j] = preferenceDesks[j]
    BY <1>5, <1>6 DEF NoDesk
  <2>2. /\ preferenceDesks[j].row.version \in Nat /\ preferenceDesks[j].row.blind \in Nat
        /\ preferenceDesks[j].row.blind <= profile.blind
        /\ preferenceDesks[j].row.blind = profile.blind =>
             preferenceDesks[j].row.version <= profile.version
    BY <1>6, <2>1, PreferenceScreen
  <2> QED
    BY <1>2, <1>4, <2>1, <2>2
<1>7. DesksKnowSettings'
  BY <1>1, <1>3, <1>6 DEF DesksKnowSettings
<1>8. FollowUpsHold'
  BY <1>1, <1>3, <1>4, <1>5, <1>7, SettingsApart DEF FollowUpTypeOK
<1> QED
  BY <1>3, <1>4, <1>8 DEF NothingIsUndone, Blind

\* NotificationPreferenceView: only a client that has never asked for the
\* profile saves over one it has not seen.
LEMMA PreferenceActs ==
  ASSUME FollowUpsHold, NEW k \in PreferenceDesks,
         \/ ShowPreferences(k) \/ SavePreferences(k)
         \/ BeginPreferences(k) \/ FindPreferences(k) \/ FinishPreferences(k)
  PROVE  FollowUpsHold' /\ NothingIsUndone
<1>1. /\ FollowUpTypeOK /\ DesksKnowSettings /\ profile \in Profile
      /\ preferenceDesks \in [PreferenceDesks -> PreferenceDesk]
  BY DEF FollowUpsHold, FollowUpTypeOK
<1>2. /\ profile.version \in Nat /\ profile.blind \in Nat /\ profile.version <= MaxEdits
      /\ 1 \in 0 .. MaxEdits /\ profile.blind + 1 \in Nat
  BY <1>1, FollowUpAssumption DEF Profile
<1>3. ASSUME NEW desk \in PreferenceDesk,
             preferenceDesks' = [preferenceDesks EXCEPT ![k] = desk],
             profile' \in Profile, UNCHANGED <<rowVars, policy, policyDesks>>,
             \/ profile' = profile
             \/ profile.version = 0 /\ profile'.version = 1 /\ profile'.blind = profile.blind,
             desk.step = "shown" => desk.row = profile'
      PROVE  FollowUpsHold' /\ NothingIsUndone
  <2>1. /\ preferenceDesks' \in [PreferenceDesks -> PreferenceDesk]
        /\ preferenceDesks'[k] = desk
        /\ \A j \in PreferenceDesks : j # k => preferenceDesks'[j] = preferenceDesks[j]
    BY <1>1, <1>3
  <2>2. profile'.version \in Nat /\ profile'.blind \in Nat
    BY <1>3, FollowUpAssumption DEF Profile
  <2>3. ASSUME NEW j \in PreferenceDesks, preferenceDesks'[j].step = "shown"
        PROVE  LET row == preferenceDesks'[j].row
               IN  /\ row.blind <= profile'.blind
                   /\ row.blind = profile'.blind =>
                        /\ row.version <= profile'.version
                        /\ row.version = profile'.version => row = profile'
    <3>1. CASE j = k
      BY <1>3, <2>1, <2>2, <2>3, <3>1
    <3>2. CASE j # k
      <4>1. /\ preferenceDesks[j].row.version \in Nat /\ preferenceDesks[j].row.blind \in Nat
            /\ preferenceDesks[j].row.blind <= profile.blind
            /\ preferenceDesks[j].row.blind = profile.blind =>
                 /\ preferenceDesks[j].row.version <= profile.version
                 /\ preferenceDesks[j].row.version = profile.version =>
                      preferenceDesks[j].row = profile
        BY <2>1, <2>3, <3>2, PreferenceScreen
      <4> QED
        BY <1>2, <1>3, <2>1, <3>2, <4>1
    <3> QED
      BY <3>1, <3>2
  <2>4. DesksKnowSettings'
    BY <1>1, <1>3, <2>3 DEF DesksKnowSettings
  <2>5. FollowUpsHold'
    BY <1>1, <1>3, <2>1, <2>4, SettingsApart DEF FollowUpTypeOK
  <2> QED
    BY <1>3, <2>5 DEF NothingIsUndone
<1>4. CASE ShowPreferences(k)
  <2> DEFINE desk == [step |-> "shown", row |-> profile']
  <2>1. /\ profile' = IF profile.version = 0 THEN [profile EXCEPT !.version = 1] ELSE profile
        /\ preferenceDesks' = [preferenceDesks EXCEPT ![k] = desk]
        /\ UNCHANGED <<rowVars, policy, policyDesks>>
    BY <1>4 DEF ShowPreferences
  <2>2. /\ profile' \in Profile
        /\ \/ profile' = profile
           \/ profile.version = 0 /\ profile'.version = 1 /\ profile'.blind = profile.blind
    BY <1>1, <1>2, <2>1 DEF Profile
  <2>3. desk \in PreferenceDesk /\ desk.row = profile'
    BY <2>2 DEF PreferenceDesk
  <2> HIDE DEF desk
  <2> QED
    BY <1>3, <2>1, <2>2, <2>3
<1>5. CASE SavePreferences(k)
  <2>1. profile.version + 1 \in Nat /\ profile.version + 1 > profile.version
    BY <1>2
  <2>2. \/ preferenceDesks[k].row = profile
        \/ preferenceDesks[k].row.blind < profile.blind
    BY <1>2, <1>5, PreferenceScreen DEF SavePreferences
  <2> QED
    BY <1>2, <1>5, <2>1, <2>2, ProfileSaved DEF SavePreferences
<1>6. CASE BeginPreferences(k)
  <2> DEFINE desk == [step |-> "creating"]
  <2>1. desk \in PreferenceDesk /\ desk.step # "shown"
    BY DEF PreferenceDesk
  <2> HIDE DEF desk
  <2> QED
    BY <1>1, <1>3, <1>6, <2>1 DEF BeginPreferences, desk
<1>7. CASE FindPreferences(k)
  <2>1. preferenceDesks[k].step = "creating"
    BY <1>7 DEF FindPreferences
  <2>2. CASE profile.version = 0 /\ PreferencesSaved(k, 2, profile.blind + 1)
    BY <1>2, <2>1, <2>2, ProfileSaved
  <2>3. CASE ~(profile.version = 0 /\ PreferencesSaved(k, 2, profile.blind + 1))
    <3> DEFINE desk == IF profile.version = 1 THEN [preferenceDesks[k] EXCEPT !.step = "saving"]
                                              ELSE NoDesk
    <3>1. /\ preferenceDesks' = [preferenceDesks EXCEPT ![k] = desk]
          /\ UNCHANGED <<rowVars, policy, policyDesks, profile>>
      BY <1>7, <2>3 DEF FindPreferences
    <3>2. preferenceDesks[k] \in [step : {"creating", "saving"}]
      BY <1>1, <2>1 DEF PreferenceDesk, NoDesk
    <3>3. desk \in PreferenceDesk /\ desk.step # "shown"
      BY <3>2 DEF PreferenceDesk, NoDesk
    <3> HIDE DEF desk
    <3> QED
      BY <1>1, <1>3, <3>1, <3>3
  <2> QED
    BY <2>2, <2>3
<1>8. CASE FinishPreferences(k)
  BY <1>2, <1>8, ProfileSaved DEF FinishPreferences
<1> QED
  BY <1>4, <1>5, <1>6, <1>7, <1>8

\* FollowUpsHold is inductive, and no change of the settings is undone.
LEMMA FollowUpStep ==
  ASSUME FollowUpsHold, [FollowUpNext]_followUpVars
  PROVE  FollowUpsHold' /\ [NothingIsUndone]_followUpVars
<1>1. CASE UNCHANGED followUpVars
  BY <1>1 DEF followUpVars, FollowUpsHold, FollowUpTypeOK, RowsWereRead, DesksKnowSettings
<1>2. CASE ActionNext
  <2>1. FollowUpsHold'
    BY <1>2, RowActs, RunActs DEF ActionNext
  <2>2. UNCHANGED settingVars
    BY <1>2 DEF ActionNext, AskForAction, TimePasses, CompleteAction, MarkUnavailable,
       FollowUpRun, StartFollowUps, Check, SaveReminder, SaveEscalation
  <2> QED
    BY <2>1, <2>2 DEF NothingIsUndone, settingVars
<1>3. CASE PolicyNext \/ PreferenceNext
  BY <1>3, PolicyActs, PreferenceActs DEF PolicyNext, PreferenceNext
<1> QED
  BY <1>1, <1>2, <1>3 DEF FollowUpNext

\* There are no rows and no settings at first.
LEMMA FollowUpBegins == FollowUpInit => FollowUpsHold
<1> SUFFICES ASSUME FollowUpInit PROVE FollowUpsHold
  OBVIOUS
<1>1. FollowUpTypeOK
  BY FollowUpAssumption DEF FollowUpInit, FollowUpTypeOK, Policy, Profile, PolicyDesk,
     PreferenceDesk
<1>2. RowsWereRead /\ DesksKnowSettings
  BY DEF FollowUpInit, RowsWereRead, DesksKnowSettings, NoDesk
<1> QED
  BY <1>1, <1>2 DEF FollowUpsHold

HIDE FollowUpAssumption

-----------------------------------------------------------------------------
(***************************************************************************)
(* All parts.                                                              *)
(***************************************************************************)

NotificationsHold == DeliveryInv /\ RisksHold /\ FollowUpsHold

\* Delivery, risks and follow-ups share nothing.
NotificationParts == DeliverySpec /\ RiskSpec /\ FollowUpSpec

\* The parts keep what is known of them.
LEMMA NotificationsAlwaysHold == NotificationParts => []NotificationsHold
<1>1. DeliveryInit /\ RiskInit /\ FollowUpInit => NotificationsHold
  BY DeliveryBegins, RiskBegins, FollowUpBegins DEF NotificationsHold
<1>2. /\ NotificationsHold /\ [DeliveryNext]_deliveryVars
      /\ [RiskNext]_riskVars /\ [FollowUpNext]_followUpVars
      => NotificationsHold'
  BY DeliveryStep, RiskStep, FollowUpStep DEF NotificationsHold
<1> QED
  BY <1>1, <1>2, PTL DEF NotificationParts, DeliverySpec, RiskSpec, FollowUpSpec

\* The settings are kept by the follow-ups alone.
LEMMA FollowUpsAlwaysHold == FollowUpSpec => []FollowUpsHold
<1>1. FollowUpsHold /\ [FollowUpNext]_followUpVars => FollowUpsHold'
  BY FollowUpStep
<1> QED
  BY <1>1, FollowUpBegins, PTL DEF FollowUpSpec

\* Every part keeps its types, and the records that explain a notification or a
\* risk tell what happened (mark_notification_status, _append_risk_revision).
THEOREM NotificationRecordsAreTrue == NotificationParts => []RecordsAreTrue
<1>1. NotificationsHold => RecordsAreTrue
  BY AttemptsFollow, DueAreOwned
     DEF NotificationsHold, RecordsAreTrue, DeliveryInv, RisksHold, FollowUpsHold
<1> QED
  BY <1>1, NotificationsAlwaysHold, PTL

\* A notification that was delivered, given up or skipped is not touched again,
\* unless two processes have held it or one has left it half saved
\* (deliver_due_notifications, enqueue_notification).
THEOREM SettledNotificationsStay == DeliverySpec => SettledStaysSettled
<1>1. ASSUME DeliveryInv, [DeliveryNext]_deliveryVars
      PROVE  [\A n \in Notifications \ tangled : Settled(n) => rows'[n] = rows[n]]_deliveryVars
  BY <1>1, SettledStays
<1>2. DeliveryInv /\ [DeliveryNext]_deliveryVars => DeliveryInv'
  BY DeliveryStep
<1> QED
  BY <1>1, <1>2, DeliveryBegins, PTL DEF DeliverySpec, SettledStaysSettled

\* No accepted change of the settings undoes one its author has not seen, but
\* for a client that changes preferences it has never asked for
\* (update_project_policy, update_preference_profile).
THEOREM SettingsAreUndoneBlindly == FollowUpSpec => OnlyBlindClientsUndoSettings
<1>1. ASSUME FollowUpsHold, [FollowUpNext]_followUpVars
      PROVE  [NothingIsUndone]_followUpVars
  BY <1>1, FollowUpStep
<1> QED
  BY <1>1, FollowUpsAlwaysHold, PTL
     DEF FollowUpSpec, OnlyBlindClientsUndoSettings, NothingIsUndone
=============================================================================
