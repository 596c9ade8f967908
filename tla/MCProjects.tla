----------------------------- MODULE MCProjects -----------------------------
(***************************************************************************)
(* The parts of a project that share no state, and schedule series,        *)
(* checked together: a behaviour is one of the part named by focus, and    *)
(* the others rest.                                                        *)
(***************************************************************************)
EXTENDS ProjectGovernance, ProjectDecisions, ProjectTasks, ScheduleSeries, TLC

VARIABLE focus

\* Teachers are interchangeable.
FirstAdvisor == CHOOSE t \in Teachers : TRUE

MCInit ==
  /\ focus \in {"governance", "decisions", "tasks", "series"}
  /\ GovernanceInit
  /\ focus # "governance" => ~project.held
  /\ project.advisor = FirstAdvisor
  /\ DecisionInit /\ TaskInit /\ SeriesInit

MCNext ==
  /\ UNCHANGED focus
  /\ \/ focus = "governance" /\ GovernanceNext
        /\ UNCHANGED <<decisionVars, taskVars, seriesVars>>
     \/ focus = "decisions" /\ DecisionNext
        /\ UNCHANGED <<governanceVars, taskVars, seriesVars>>
     \/ focus = "tasks" /\ TaskNext
        /\ UNCHANGED <<governanceVars, decisionVars, seriesVars>>
     \/ focus = "series" /\ SeriesNext
        /\ UNCHANGED <<governanceVars, decisionVars, taskVars>>

MCVars == <<focus, governanceVars, decisionVars, taskVars, seriesVars>>

MCSpec == MCInit /\ [][MCNext]_MCVars

\* Requests are interchangeable, and so are idempotency keys and titles; the
\* parts share their model values.
Symmetry == Permutations(Clients) \cup Permutations(Keys)

\* Bounds.  Either one of the people is suspended, or there is open work of one
\* sort, or neither.  The series have gone through two changes since the
\* first, counting a split, and one key is marked; a page is of the version
\* before the present one at the oldest.
OneStandsOut ==
  /\ Cardinality(People \ working) + Cardinality(openWork) <= 1
  /\ \A i, j \in DOMAIN series :
       i # j => series[i].version + series[j].version <= MaxEdition + 1
  /\ Cardinality({key \in (DOMAIN marks) \X Times \X Days :
                    marks[key[1]][key[2]][key[3]] # "none"}) <= 1
  /\ \A k \in Clients : clients[k].step = "page" =>
       series[clients[k].id].version <= clients[k].row.version + 1

\* Every part keeps its types, and decisions form lines (publish_decision).
ProjectRecordsAgree ==
  /\ GovernanceTypeOK /\ DecisionTypeOK /\ TaskTypeOK /\ SeriesTypeOK
  /\ SuccessionIsLinear

\* Series change under the eyes of those who change them, splits divide their
\* days and alone forget marks, and what is announced has happened
\* (_assert_version, _split_future, dispatch_group_event).
ScheduleChangesAreSeen ==
  /\ NothingChangesUnseen /\ SplitsDivideDays
  /\ OnlySplitsForgetMarks /\ AnnouncementsAreTrue
=============================================================================
