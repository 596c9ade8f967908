---------------------------- MODULE ProjectTasks ----------------------------
(***************************************************************************)
(* The tasks of one project: TaskService of apps/tasks/services.py, the    *)
(* checks of the Task model and ProjectTaskViewSet.                        *)
(*                                                                         *)
(* Nothing is locked.  The view of an update loads the task; the service   *)
(* sets the fields the request names and checks the row against the tasks  *)
(* there are by then (clean); and the whole row is saved: three steps.  A  *)
(* creation checks and inserts.  Whether the project is open to work is    *)
(* ProjectGovernance.  Titles, priorities and assignees are left out: a    *)
(* request whose assignee is no member, or whose actor may not change the  *)
(* field, is refused and changes nothing.                                  *)
(***************************************************************************)
EXTENDS Integers

CONSTANTS
  Tasks,              \* ids of tasks
  NoTask,             \* the parent of a task at the top
  TaskRequests,       \* overlapping creations and updates
  LastDue,            \* bound: deadlines; 0 is none
  MaxTaskWrites       \* bound: creations, saves and deletions

ASSUME TaskAssumption ==
  NoTask \notin Tasks /\ LastDue \in Nat /\ MaxTaskWrites \in Nat

VARIABLES
  tasks,        \* Task rows
  taskRequests, \* the row each request holds, and the writes before it read
  writes        \* creations, saves and deletions so far

taskVars == <<tasks, taskRequests, writes>>

TaskRow == [parent : Tasks \cup {NoTask}, due : 0 .. LastDue,
            status : {"open", "completed"}, completedAt : BOOLEAN]

Unused == [status |-> "unused"]
Deleted == [status |-> "deleted"]
Exists(t) == tasks[t] \notin {Unused, Deleted}

RestingRequest == [step |-> "none"]

TaskRequest == [step : {"loaded", "checked"}, task : Tasks, row : TaskRow,
                at : 0 .. MaxTaskWrites]

TaskTypeOK ==
  /\ tasks \in [Tasks -> {Unused, Deleted} \cup TaskRow]
  /\ taskRequests \in [TaskRequests -> {RestingRequest} \cup TaskRequest]
  /\ writes \in 0 .. MaxTaskWrites

TaskInit ==
  /\ tasks = [t \in Tasks |-> Unused]
  /\ taskRequests = [e \in TaskRequests |-> RestingRequest]
  /\ writes = 0

-----------------------------------------------------------------------------
(***************************************************************************)
(* Task.clean                                                              *)
(***************************************************************************)

Parent(t) == IF Exists(t) THEN tasks[t].parent ELSE NoTask

HoldsParents(S) == \A s \in S : Parent(s) \in S \cup {NoTask}

\* t and the tasks above it.
Above(t) ==
  {s \in Tasks :
     \A S \in SUBSET Tasks : HoldsParents(S) /\ t \in S \cup {NoTask} => s \in S}

\* The parents above p come to an end (the walk of clean starts at the task).
EndsAbove(p) == \A s \in Above(p) : s \notin Above(Parent(s))

IsLate(row) ==
  /\ row.parent # NoTask /\ row.due # 0
  /\ tasks[row.parent].due # 0 /\ row.due > tasks[row.parent].due

\* Mutant of IsClean: the walk ends at the parent.
IsCleanBelow(t, row) ==
  row.parent # NoTask => Exists(row.parent) /\ row.parent # t /\ ~IsLate(row)

\* The row that task t would get passes full_clean.
IsClean(t, row) ==
  row.parent # NoTask =>
    /\ Exists(row.parent)
    /\ ~IsLate(row)
    /\ t \notin Above(row.parent) /\ EndsAbove(row.parent)

-----------------------------------------------------------------------------
Wrote == writes < MaxTaskWrites /\ writes' = writes + 1

HoldsRow(e, step, t, row, at) ==
  taskRequests' = [taskRequests EXCEPT
    ![e] = [step |-> step, task |-> t, row |-> row, at |-> at]]

\* create_task up to the check; it does not set completed_at, whatever the
\* status.  The database gives the new row an id of its own.
BeginCreate(e, t, row) ==
  /\ taskRequests[e].step = "none"
  /\ tasks[t] = Unused
  /\ \A f \in TaskRequests : taskRequests[f].step # "none" => taskRequests[f].task # t
  /\ ~row.completedAt /\ IsClean(t, row)
  /\ HoldsRow(e, "checked", t, row, writes)
  /\ UNCHANGED <<tasks, writes>>

\* get_object of the view
LoadTask(e, t) ==
  /\ taskRequests[e].step = "none"
  /\ Exists(t)
  /\ HoldsRow(e, "loaded", t, tasks[t], writes)
  /\ UNCHANGED <<tasks, writes>>

\* What a request may make of a row: the plan or the status changes.
\* completed_at is set by a completion and never cleared.
Changed(row) ==
  {[row EXCEPT !.parent = parent] : parent \in Tasks \cup {NoTask}}
    \cup {[row EXCEPT !.due = due] : due \in 0 .. LastDue}
    \cup {[row EXCEPT !.status = status, !.completedAt = @ \/ status = "completed"] :
            status \in {"open", "completed"}}

\* update_task up to the check in save(): the row that was loaded is changed.
CheckUpdate(e) ==
  LET request == taskRequests[e]
  IN  /\ request.step = "loaded"
      /\ \E row \in Changed(request.row) :
           /\ IsClean(request.task, row)
           /\ HoldsRow(e, "checked", request.task, row, request.at)
      /\ UNCHANGED <<tasks, writes>>

\* The request is refused, by the service or by clean.
RefuseUpdate(e) ==
  /\ taskRequests[e].step = "loaded"
  /\ taskRequests' = [taskRequests EXCEPT ![e] = RestingRequest]
  /\ UNCHANGED <<tasks, writes>>

\* save() inserts the row, updates it, or inserts it again; the parent must exist.
Save(e) ==
  LET request == taskRequests[e]
  IN  /\ request.step = "checked"
      /\ request.row.parent # NoTask =>
           Exists(request.row.parent) \/ request.row.parent = request.task
      /\ tasks' = [tasks EXCEPT ![request.task] = request.row]
      /\ taskRequests' = [taskRequests EXCEPT ![e] = RestingRequest]
      /\ Wrote

\* The parent was deleted meanwhile: the database refuses the row.
SaveFails(e) ==
  /\ taskRequests[e].step = "checked"
  /\ taskRequests[e].row.parent # NoTask /\ ~Exists(taskRequests[e].row.parent)
  /\ taskRequests' = [taskRequests EXCEPT ![e] = RestingRequest]
  /\ UNCHANGED <<tasks, writes>>

\* delete_task takes the tasks below with it.
DeleteTask(t) ==
  /\ Exists(t)
  /\ tasks' = [s \in Tasks |-> IF Exists(s) /\ t \in Above(s) THEN Deleted ELSE tasks[s]]
  /\ Wrote
  /\ UNCHANGED taskRequests

-----------------------------------------------------------------------------
\* partial_update: perform_update calls the service.
UpdateTask(e) ==
  \/ \E t \in Tasks : LoadTask(e, t)
  \/ CheckUpdate(e) \/ RefuseUpdate(e) \/ Save(e) \/ SaveFails(e)

CreateTask(e) == \E t \in Tasks, row \in TaskRow : BeginCreate(e, t, row)

TaskNext ==
  \/ \E t \in Tasks : DeleteTask(t)
  \/ \E e \in TaskRequests : CreateTask(e) \/ UpdateTask(e)

TaskSpec == TaskInit /\ [][TaskNext]_taskVars

-----------------------------------------------------------------------------
(***************************************************************************)
(* Properties.                                                             *)
(***************************************************************************)

IsForest == \A t \in Tasks : Exists(t) => t \notin Above(Parent(t))

LateChildren == {t \in Tasks : Exists(t) /\ IsLate(tasks[t])}

\* The step saves a row that was read, or checked for a creation, before
\* somebody else wrote.
IsOvertaken(e) ==
  /\ taskRequests[e].step = "checked" /\ taskRequests'[e] = RestingRequest
  /\ taskRequests[e].at < writes

\* The tasks stay a forest, a deleted task stays deleted, a completion date
\* stays, and a task comes to be due after its parent only by a step that
\* moves the parent's deadline, unless a row is saved that was loaded, or checked
\* for a creation, before another write (get_object, clean, save).
OnlyOvertakenRowsTangle ==
  [][(\A e \in TaskRequests : ~IsOvertaken(e)) =>
       /\ IsForest => IsForest'
       /\ \A t \in Tasks :
            /\ tasks[t] = Deleted => tasks'[t] = Deleted
            /\ Exists(t) /\ Exists(t)' /\ tasks[t].completedAt => tasks'[t].completedAt
            /\ t \in LateChildren' \ LateChildren =>
                 /\ tasks'[t] = tasks[t]
                 /\ tasks'[Parent(t)].due # tasks[Parent(t)].due]_taskVars
=============================================================================
