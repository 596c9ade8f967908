---------------------------- MODULE ScheduleSeries ----------------------------
(***************************************************************************)
(* Schedule series: creation, publication, and changes of one occurrence,  *)
(* of the future ones or of all: apps/schedules/services.py, recurrence.py *)
(* and views.py, and the calendar of projection_services.py.               *)
(*                                                                         *)
(* A request locks the series and compares the version its page showed, so *)
(* it is one step.  A series recurs every day from "from" to "until" or    *)
(* takes place once.  The key of an occurrence is its day and the time it  *)
(* starts; nothing asks whether the key a client sends is one of the       *)
(* series.  An edit gives a title, a start or a recurrence.                *)
(* Left out: other frequencies, moving one occurrence, who may do what (a  *)
(* refusal changes nothing), revision rows (written with each              *)
(* announcement), audiences and reminders (ScheduleReminders).             *)
(***************************************************************************)
EXTENDS Integers, Sequences, FiniteSets

CONSTANTS
  LastDay,       \* bound: days are 1 .. LastDay
  Wordings,      \* titles
  Clients,       \* requests, each with the page it was made from
  Times,         \* times at which occurrences start; "day" is all day
  MaxCreated,    \* bound: series that are not split from another
  MaxSeries,     \* bound: series
  MaxEdition     \* bound: versions of a series

ASSUME SeriesAssumption ==
  /\ LastDay \in Nat \ {0}
  /\ {MaxCreated, MaxSeries, MaxEdition} \subseteq Nat

VARIABLES
  series,     \* ScheduleItem rows in the order of their ids
  marks,      \* marks[i][t][d]: the ScheduleOccurrenceException of a key
  announced,  \* ScheduleNotificationDispatch keys: series, event and version
  clients     \* clients[k]: the page that client k looks at

seriesVars == <<series, marks, announced, clients>>

-----------------------------------------------------------------------------
Days == 1 .. LastDay

\* origin and cut are history: the series that this one was split from and the
\* day of the split, or 0.
SeriesRow ==
  [scope : {"personal", "group"}, time : Times, from : Days,
   until : 0 .. LastDay, title : Wordings,
   status : {"active", "cancelled", "completed"}, version : 1 .. MaxEdition + 2,
   live : BOOLEAN, recurs : BOOLEAN, origin : 0 .. MaxSeries, cut : 0 .. LastDay]

Marks == [Times -> [Days -> {"none", "rescheduled", "completed", "cancelled"}]]

Away == [step |-> "away"]

SeriesTypeOK ==
  /\ series \in Seq(SeriesRow) /\ Len(series) <= MaxSeries
  /\ marks \in Seq(Marks) /\ Len(marks) = Len(series)
  /\ announced \subseteq
       [series : DOMAIN series, event : {"published", "changed", "cancelled"},
        version : 1 .. MaxEdition + 2]
  /\ clients \in
       [Clients -> {Away} \cup [step : {"page"}, id : DOMAIN series,
                                row : SeriesRow, marks : Marks]]

SeriesInit ==
  /\ series = << >> /\ marks = << >> /\ announced = {}
  /\ clients = [k \in Clients |-> Away]

-----------------------------------------------------------------------------
NoMarks == [t \in Times |-> [d \in Days |-> "none"]]

\* expand_occurrences: the days on which a series takes place
DaysIn(row) ==
  IF ~row.live THEN {}
  ELSE IF row.recurs THEN row.from .. row.until
  ELSE {row.from}

DaysOf(i) == DaysIn(series[i])

\* _parse_occurrence_key: a key is read as a date if the series is all-day, and
\* else as a time of a day.
KeyFits(i, t) == t = "day" <=> series[i].time = "day"

\* dispatch_group_event for the row that is saved: get_or_create by version
Announcement(i, row, event) ==
  IF row.scope = "group"
  THEN {[series |-> i, event |-> event, version |-> row.version]} ELSE {}

\* create_schedule
CreateSeries(scope, time, from, until, title) ==
  /\ Len(series) < MaxSeries
  /\ Cardinality({i \in DOMAIN series : series[i].origin = 0}) < MaxCreated
  /\ LET row == [scope |-> scope, time |-> time, from |-> from, until |-> until,
                 recurs |-> until # 0, title |-> title, status |-> "active",
                 version |-> 1, live |-> TRUE, origin |-> 0, cut |-> 0]
     IN  /\ series' = Append(series, row)
         /\ announced' = announced \cup Announcement(Len(series) + 1, row, "published")
  /\ marks' = Append(marks, NoMarks)
  /\ UNCHANGED clients

\* _visible_schedule: the page shows the series and its occurrences.
OpenSeries(k, i) ==
  /\ clients[k] = Away /\ series[i].live
  /\ clients' = [clients EXCEPT
       ![k] = [step |-> "page", id |-> i, row |-> series[i], marks |-> marks[i]]]
  /\ UNCHANGED <<series, marks, announced>>

Leave(k) == clients' = [clients EXCEPT ![k] = Away]

\* The lock is taken, and the version is the one of the page.
Current(k, i) ==
  /\ clients[k].step = "page" /\ i = clients[k].id
  /\ series[i].live /\ series[i].version = clients[k].row.version
  /\ series[i].version < MaxEdition

\* ScheduleVersionConflict, or the series is gone.
RefuseStale(k) ==
  /\ clients[k].step = "page"
  /\ LET row == series[clients[k].id]
     IN  ~row.live \/ row.version # clients[k].row.version
  /\ Leave(k)
  /\ UNCHANGED <<series, marks, announced>>

\* Saves row i, one version later, and announces it.
SaveSeries(i, row, event) ==
  LET saved == [row EXCEPT !.version = @ + 1]
  IN  /\ series' = [series EXCEPT ![i] = saved]
      /\ announced' =
           announced \cup IF event = "none" THEN {} ELSE Announcement(i, saved, event)

Publish(k, i) ==
  /\ Current(k, i) /\ series[i].scope = "personal"
  /\ SaveSeries(i, [series[i] EXCEPT !.scope = "group"], "published")
  /\ Leave(k)
  /\ UNCHANGED marks

-----------------------------------------------------------------------------
(***************************************************************************)
(* One occurrence.                                                         *)
(***************************************************************************)

\* _exception_for: the row of the key, occurrence or not, gets the status.
Mark(k, i, t, d, status) ==
  /\ Current(k, i) /\ KeyFits(i, t)
  /\ marks' = [marks EXCEPT ![i][t][d] = status]
  /\ Leave(k)

EditOccurrence(k, i, t, d) ==
  Mark(k, i, t, d, "rescheduled") /\ SaveSeries(i, series[i], "changed")

CompleteOccurrence(k, i, t, d) ==
  Mark(k, i, t, d, "completed") /\ SaveSeries(i, series[i], "none")

CancelOccurrence(k, i, t, d) ==
  /\ series[i].scope = "group"
  /\ Mark(k, i, t, d, "cancelled") /\ SaveSeries(i, series[i], "cancelled")

DeleteOccurrence(k, i, t, d) ==
  /\ series[i].scope = "personal"
  /\ Mark(k, i, t, d, "cancelled") /\ SaveSeries(i, series[i], "none")

-----------------------------------------------------------------------------
(***************************************************************************)
(* The whole series.                                                       *)
(***************************************************************************)

\* _apply_fields: what an edit may make of a row.  The last day may lie before
\* the first, and the series then takes place on none.
Edits(row) ==
  {[row EXCEPT !.title = title] : title \in Wordings}
    \cup {[row EXCEPT !.from = key[1], !.time = key[2]] : key \in Days \X Times}
    \cup {[row EXCEPT !.until = until, !.recurs = until # 0] : until \in {0} \cup Days}

EditSeries(k, i, edited) ==
  /\ Current(k, i)
  /\ SaveSeries(i, edited, "changed")
  /\ Leave(k)
  /\ UNCHANGED marks

CompleteSeries(k, i) ==
  /\ Current(k, i)
  /\ SaveSeries(i, [series[i] EXCEPT !.status = "completed"], "none")
  /\ Leave(k)
  /\ UNCHANGED marks

CancelSeries(k, i) ==
  /\ Current(k, i) /\ series[i].scope = "group"
  /\ SaveSeries(i, [series[i] EXCEPT !.status = "cancelled"], "cancelled")
  /\ Leave(k)
  /\ UNCHANGED marks

DeleteSeries(k, i) ==
  /\ Current(k, i) /\ series[i].scope = "personal"
  /\ series' = [series EXCEPT ![i].live = FALSE]
  /\ Leave(k)
  /\ UNCHANGED <<marks, announced>>

-----------------------------------------------------------------------------
(***************************************************************************)
(* One occurrence and those after it.                                      *)
(***************************************************************************)

\* Mutant of Shortened: the day of the split stays in the old series.
ShortenedLate(i, d) == [series[i] EXCEPT !.until = d, !.version = @ + 1]

Shortened(i, d) == [series[i] EXCEPT !.until = d - 1, !.version = @ + 1]

\* The copy that starts at the key; occurrence exceptions are not copied.
CopyFrom(i, t, d) ==
  [series[i] EXCEPT !.from = d, !.time = t, !.version = 1, !.origin = i, !.cut = d]

\* _split_future: the old series ends the day before the key, wherever that is,
\* and a changed copy starts at the key.
Split(k, i, t, old, new) ==
  /\ Current(k, i) /\ series[i].recurs /\ KeyFits(i, t)
  /\ Len(series) < MaxSeries
  /\ series' = Append([series EXCEPT ![i] = old], new)
  /\ marks' = Append(marks, NoMarks)
  /\ Leave(k)

EditFuture(k, i, t, d, new) ==
  /\ Split(k, i, t, Shortened(i, d), new)
  /\ announced' = announced \cup Announcement(Len(series) + 1, new, "changed")

\* An event that takes place once is returned as it was, unsaved; it is
\* announced all the same.
EditFutureOfOne(k, i) ==
  /\ Current(k, i) /\ ~series[i].recurs
  /\ announced' = announced \cup Announcement(i, series[i], "changed")
  /\ Leave(k)
  /\ UNCHANGED <<series, marks>>

CompleteFuture(k, i, t, d) ==
  /\ Split(k, i, t, [Shortened(i, d) EXCEPT !.version = @ + 1],
           [CopyFrom(i, t, d) EXCEPT !.status = "completed"])
  /\ UNCHANGED announced

CancelFuture(k, i, t, d) ==
  LET new == [CopyFrom(i, t, d) EXCEPT !.status = "cancelled", !.version = 2]
  IN  /\ series[i].scope = "group"
      /\ Split(k, i, t, Shortened(i, d), new)
      /\ announced' = announced \cup Announcement(Len(series) + 1, new, "cancelled")

\* Of an event that takes place once, the future is the whole.
CancelFutureOfOne(k, i)   == ~series[i].recurs /\ CancelSeries(k, i)
CompleteFutureOfOne(k, i) == ~series[i].recurs /\ CompleteSeries(k, i)

DeleteFuture(k, i, d) ==
  /\ Current(k, i) /\ series[i].scope = "personal" /\ series[i].recurs
  /\ series' = [series EXCEPT ![i] = Shortened(i, d)]
  /\ Leave(k)
  /\ UNCHANGED <<marks, announced>>

-----------------------------------------------------------------------------
\* ScheduleCollectionView
CollectionRequest ==
  \E scope \in {"personal", "group"}, time \in Times, title \in Wordings :
    \E from \in Days, until \in {0} \cup Days :
      CreateSeries(scope, time, from, until, title)

\* ScheduleDetailView
UpdateRequest(k, i) ==
  \/ EditFutureOfOne(k, i)
  \/ \E edited \in Edits(series[i]) : EditSeries(k, i, edited)
  \/ \E t \in Times, d \in Days :
       \/ EditOccurrence(k, i, t, d)
       \/ \E edited \in Edits(CopyFrom(i, t, d)) : EditFuture(k, i, t, d, edited)

DeleteRequest(k, i) ==
  \/ DeleteSeries(k, i)
  \/ \E d \in Days : DeleteFuture(k, i, d)
  \/ \E t \in Times, d \in Days : DeleteOccurrence(k, i, t, d)

\* ScheduleCompleteView
CompleteRequest(k, i) ==
  \/ CompleteSeries(k, i) \/ CompleteFutureOfOne(k, i)
  \/ \E t \in Times, d \in Days :
       CompleteOccurrence(k, i, t, d) \/ CompleteFuture(k, i, t, d)

\* ScheduleCancelView
CancelRequest(k, i) ==
  \/ CancelSeries(k, i) \/ CancelFutureOfOne(k, i)
  \/ \E t \in Times, d \in Days :
       CancelOccurrence(k, i, t, d) \/ CancelFuture(k, i, t, d)

SeriesRequest(k, i) ==
  \/ OpenSeries(k, i) \/ Publish(k, i)
  \/ UpdateRequest(k, i) \/ DeleteRequest(k, i)
  \/ CompleteRequest(k, i) \/ CancelRequest(k, i)

SeriesNext ==
  \/ CollectionRequest
  \/ \E k \in Clients : RefuseStale(k) \/ \E i \in DOMAIN series : SeriesRequest(k, i)

SeriesSpec == SeriesInit /\ [][SeriesNext]_seriesVars

-----------------------------------------------------------------------------
(***************************************************************************)
(* The calendar of the owner (authored_schedule_occurrences).  The window  *)
(* is a variable of the loop over the series: after each occurrence it is  *)
(* the time of that one, and None after an all-day one.                    *)
(***************************************************************************)

LastOf(S) == CHOOSE d \in S : \A e \in S : e <= d

Whole(lo, hi) == [none |-> FALSE, lo |-> lo, hi |-> hi]

\* The exception of the occurrence on day d.
MarkOf(i, d) == marks[i][series[i].time][d]

\* Occurrences of series i that are listed in a window.
ListedIn(i, window) ==
  IF window.none THEN {}
  ELSE {d \in DaysOf(i) :
          /\ window.lo <= d /\ d < window.hi
          /\ ~(series[i].scope = "personal" /\ MarkOf(i, d) = "cancelled")}

\* The window with which the loop goes on after series i.
WindowAfter(i, window) ==
  LET listed == ListedIn(i, window)
  IN  IF listed = {} THEN window
      ELSE IF series[i].time = "day" THEN [window EXCEPT !.none = TRUE]
      ELSE Whole(LastOf(listed), LastOf(listed) + 1)

\* What is listed of the n-th series when they are visited in this order.
Calendar(order, lo, hi) ==
  LET window[n \in 1 .. Len(order)] ==
        IF n = 1 THEN Whole(lo, hi)
        ELSE WindowAfter(order[n - 1], window[n - 1])
  IN  [n \in 1 .. Len(order) |-> ListedIn(order[n], window[n])]

\* The query has no ORDER BY.
Orders ==
  LET Live == {i \in DOMAIN series : series[i].live}
  IN  {order \in [1 .. Cardinality(Live) -> Live] :
         \A m, n \in DOMAIN order : order[m] = order[n] => m = n}

-----------------------------------------------------------------------------
(***************************************************************************)
(* Properties.                                                             *)
(***************************************************************************)

\* A period of the calendar lists the occurrences of each series in that
\* period, whatever other series there are (authored_schedule_occurrences).
CalendarShowsPeriod ==
  \A order \in Orders : \A lo \in Days : \A hi \in lo + 1 .. LastDay + 1 :
    \A n \in DOMAIN order :
      Calendar(order, lo, hi)[n] = ListedIn(order[n], Whole(lo, hi))

\* A request that changes a series was made from a page that shows it, and all
\* its occurrences, as they are: whatever is changed, the version is
\* (_assert_version).
NothingChangesUnseen ==
  [][\A k \in Clients :
       clients[k].step = "page" /\ clients'[k] = Away =>
         LET i == clients[k].id
         IN  \/ series'[i] = series[i] /\ marks'[i] = marks[i]
             \/ series[i] = clients[k].row /\ marks[i] = clients[k].marks
     ]_seriesVars

\* How an occurrence is shown.
Shown(row, mark) == IF mark \in {"completed", "cancelled"} THEN mark ELSE row.status

\* An occurrence that is completed or cancelled becomes active again only when
\* it is edited itself, when its series moves to another time, or when its mark
\* is left behind by a split (_exception_for, _apply_fields, _split_future).
OnlySplitsForgetMarks ==
  [][\A i \in DOMAIN series : \A d \in DaysOf(i) :
       Shown(series[i], MarkOf(i, d)) # "active" =>
         \A j \in DOMAIN series' :
           \/ ~(j = i \/ (series'[j].origin = i /\ j \notin DOMAIN series))
           \/ d \notin DaysIn(series'[j])
           \/ Shown(series'[j], MarkOf(j, d)') # "active"
           \/ j = i /\ MarkOf(i, d)' = "rescheduled"
           \/ j # i /\ MarkOf(i, d) # "none"
           \/ series'[j].time # series[i].time]_seriesVars

\* A change of the future leaves the old series all of its days before the key
\* and none after it, and the new one, unless the edit says otherwise, all those
\* that follow; days are added only where the key is no occurrence
\* (_split_future).
SplitsDivideDays ==
  [][\A j \in DOMAIN series' \ DOMAIN series :
       LET i == series'[j].origin
           d == series'[j].cut
           Both == DaysIn(series'[i]) \cup DaysIn(series'[j])
       IN  i # 0 =>
             /\ \A e \in DaysIn(series'[i]) : e < d
             /\ \A e \in DaysOf(i) : e < d => e \in DaysIn(series'[i])
             /\ series'[j].from = d /\ series'[j].until = series[i].until =>
                  DaysOf(i) \subseteq Both /\ (d \in DaysOf(i) => Both = DaysOf(i))
     ]_seriesVars

\* The step completes an occurrence, the future or the whole of series i, and
\* changes nothing else of it (complete_schedule).
IsCompletion(i) ==
  \/ /\ series'[i] = [series[i] EXCEPT !.status = "completed", !.version = @ + 1]
     /\ marks'[i] = marks[i]
  \/ /\ series'[i] = [series[i] EXCEPT !.version = @ + 1]
     /\ \E t \in Times, d \in Days : marks'[i] = [marks[i] EXCEPT ![t][d] = "completed"]
  \/ /\ marks'[i] = marks[i]
     /\ \E j \in DOMAIN series' \ DOMAIN series :
          /\ series'[j].origin = i /\ series'[j].status = "completed"
          /\ series'[i] = [series[i] EXCEPT !.until = series'[j].cut - 1, !.version = @ + 2]

\* Recipients of a group series are told of each change but completions, under
\* a key that was not used before, and are told of nothing that did not happen
\* except by a future change of an event that takes place once
\* (dispatch_group_event, update_schedule).
AnnouncementsAreTrue ==
  [][LET Changed(i) == series'[i] # series[i] \/ marks'[i] # marks[i]
         Told == announced' \ announced
     IN  /\ \A i \in DOMAIN series :
              Changed(i) /\ series'[i].scope = "group" =>
                \/ IsCompletion(i)
                \/ \E a \in Told : a.series = i \/ a.series \notin DOMAIN series
         /\ \A a \in Told :
              \/ a.series \notin DOMAIN series \/ Changed(a.series)
              \/ ~series[a.series].recurs /\ a.event = "changed"]_seriesVars
=============================================================================
