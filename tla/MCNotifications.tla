-------------------------- MODULE MCNotifications ---------------------------
(***************************************************************************)
(* The parts of notifications that share no state, checked together: a     *)
(* behaviour is one of the part named by focus, and the others rest.       *)
(***************************************************************************)
EXTENDS NotificationDelivery, ProjectRisks, NotificationFollowUps

VARIABLE focus

MCInit ==
  /\ focus \in {"batches", "queueing", "overlap", "risks", "actions",
               "rivals", "policies", "preferences"}
  /\ DeliveryInit /\ RiskInit /\ FollowUpInit

\* Delivery is checked three times: one worker that reads batches of several
\* notifications, one worker and one notification that a request still queues,
\* and several workers that share one notification.
FirstWorker == CHOOSE w \in Workers : TRUE

OneWorker == \A w \in Workers \ {FirstWorker} : workers'[w] = Idle
OneNotification == Cardinality({n \in Notifications : rows'[n].status # "absent"}) <= 1

\* One risk at most reaches its last revision.
OneRiskGoesFar ==
  Cardinality({r \in Risks :
    risks'[r].state # "absent" /\ risks'[r].version = MaxRevisions}) <= 1

DeliveryFocus == {"batches", "queueing", "overlap"}

\* So are the follow-ups, with one run that reads several and with runs that
\* share one.
FirstRun == CHOOSE w \in TaskRuns : TRUE

OneRun == \A w \in TaskRuns \ {FirstRun} : taskRuns'[w] = NoRun
OneFollowUp == Cardinality({f \in FollowUps : followUps'[f] # Unasked}) <= 1

ActionFocus == {"actions", "rivals"}

\* The settings matter to the task only by the maximum, which counts nothing
\* the properties ask for, so the parts of FollowUpNext go separately.
MCNext ==
  /\ UNCHANGED focus
  /\ \/ focus \in DeliveryFocus /\ DeliveryNext
        /\ (focus = "overlap" \/ OneWorker)
        /\ (focus = "batches" \/ OneNotification)
        /\ (focus = "queueing" \/ UNCHANGED queueing)
        /\ UNCHANGED <<riskVars, followUpVars>>
     \/ focus = "risks" /\ RiskNext /\ OneRiskGoesFar
        /\ UNCHANGED <<deliveryVars, followUpVars>>
     \/ focus \in ActionFocus /\ ActionNext
        /\ (focus = "actions" => OneRun)
        /\ (focus = "rivals" => OneFollowUp)
        /\ UNCHANGED <<deliveryVars, riskVars>>
     \/ focus = "policies" /\ PolicyNext
        /\ UNCHANGED <<deliveryVars, riskVars>>
     \/ focus = "preferences" /\ PreferenceNext
        /\ UNCHANGED <<deliveryVars, riskVars>>

MCVars == <<focus, deliveryVars, riskVars, followUpVars>>

\* As in the modules.
MCFairness ==
  /\ \A n \in Notifications : WF_deliveryVars(focus \in DeliveryFocus /\ BecomeDue(n))
  /\ \A w \in Workers :
       WF_deliveryVars(/\ focus \in DeliveryFocus
                       /\ focus = "overlap" \/ w = FirstWorker
                       /\ Deliver(w))
  /\ WF_riskVars(focus = "risks" /\ ReadBatch)
  /\ \A r \in Risks, owner \in Owners : WF_riskVars(focus = "risks" /\ Remind(r, owner))
  /\ \A w \in TaskRuns :
       WF_followUpVars(/\ focus \in ActionFocus
                       /\ focus = "rivals" \/ w = FirstRun
                       /\ FollowUpRun(w))

MCSpec == MCInit /\ [][MCNext]_MCVars /\ MCFairness

\* Every part keeps its types, and the records that explain a notification or a
\* risk tell what happened (mark_notification_status, _append_risk_revision).
RecordsAreTrue ==
  /\ DeliveryTypeOK /\ RiskTypeOK /\ FollowUpTypeOK
  /\ AttemptsAreTrue /\ HistoryIsUnbroken /\ DueRisksAreOwned
=============================================================================
