---------------------------- MODULE ActivityQueue ----------------------------
(***************************************************************************)
(* The collection tasks of the partners (ActivitiesService).  A partner    *)
(* registers the execution of a task, postpones it to tomorrow once, or    *)
(* reschedules a visit at most twice.  Each command is a READ COMMITTED    *)
(* transaction: it locks the task, reads its fields, compares its segment  *)
(* with the leader of the partner's queue, which it reads without a lock,  *)
(* and commits its UPDATE and INSERTs together.                            *)
(*                                                                         *)
(* Another program creates the tasks, one daily job, and closes the ones   *)
(* nobody executed.  Days are relative: expire counts from today, and      *)
(* age[r] is 1 when midnight passed after r began, because CURRENT_DATE is *)
(* the day the transaction began.  Transactions last less than a day.      *)
(***************************************************************************)
EXTENDS Integers

CONSTANTS
  Tasks,              \* activity_tasks, one per pending instalment
  Visits,             \* the tasks of type visit
  Agents,             \* partners
  Owner,              \* Owner[t]: assigned_to
  Priority,           \* Priority[t]: priority of its segment, one per segment
  Requests,           \* concurrent requests
  RescheduleMaxDays,  \* RESCHEDULE_MAX_DAYS
  None

ASSUME QueueAssumption ==
  /\ Visits \subseteq Tasks
  /\ Owner \in [Tasks -> Agents]
  /\ Priority \in [Tasks -> Nat]
  /\ RescheduleMaxDays \in Nat \ {0}
  /\ None \notin Requests

VARIABLES
  task,       \* task[t]: the row
  records,    \* records[t]: rows of activity_interactions and installment_followups
  lock,       \* lock[t]: the transaction that holds the row
  pc, call,   \* pc[r], call[r]: where request r is, and what it asks for
  seen,       \* seen[r]: what r read of the row
  age,        \* age[r]: midnights since r began
  deferrals,  \* history: how often each task was deferred
  arrived     \* history: the tasks that became due since r compared segments

rows == <<task, records>>
vars == <<rows, lock, pc, call, seen, age, deferrals, arrived>>

-----------------------------------------------------------------------------
MaxReschedules == 2

\* "closed" stands for system_closed and cancelled.
Statuses == {"absent", "pending", "completed", "closed"}

Rows == [status      : Statuses,
         expire      : -1 .. RescheduleMaxDays,
         postponed   : BOOLEAN,
         rescheduled : 0 .. MaxReschedules]

Calls ==
  [op : {"register", "postpone"}, task : Tasks, agent : Agents]
    \cup [op : {"reschedule"}, task : Tasks, agent : Agents, days : 1 .. RescheduleMaxDays]

\* The fields the limits are checked on.
Flags == [postponed : BOOLEAN, rescheduled : 0 .. MaxReschedules]

FlagsOf(row) == [postponed |-> row.postponed, rescheduled |-> row.rescheduled]

Pending(t) == task[t].status = "pending"

\* The pending tasks of u whose date had come a midnights ago.
Due(u, a) == {t \in Tasks : Pending(t) /\ Owner[t] = u /\ task[t].expire + a <= 0}

\* Mutant: FOR UPDATE SKIP LOCKED in the query of the leader.
LeadersUnlocked(due) ==
  {t \in due : \A s \in due : lock[s] = None => Priority[t] <= Priority[s]}

\* The tasks that share the segment of the first one of the queue.
Leaders(due) == {t \in due : \A s \in due : Priority[t] <= Priority[s]}

\* The transaction ends and releases the row.
End(r) ==
  /\ pc' = [pc EXCEPT ![r] = "idle"]
  /\ call' = [call EXCEPT ![r] = None]
  /\ seen' = [seen EXCEPT ![r] = None]
  /\ age' = [age EXCEPT ![r] = 0]
  /\ lock' = [t \in Tasks |-> IF lock[t] = r THEN None ELSE lock[t]]

-----------------------------------------------------------------------------
Begin(r, c) ==
  /\ pc[r] = "idle"
  /\ pc' = [pc EXCEPT ![r] = "begun"]
  /\ call' = [call EXCEPT ![r] = c]
  /\ UNCHANGED <<rows, lock, seen, age, deferrals, arrived>>

\* Mutant: the row is read without FOR UPDATE.
LockTaskWithoutLock(r) ==
  LET t == call[r].task
  IN /\ pc[r] = "begun"
     /\ Pending(t)
     /\ Owner[t] = call[r].agent
     /\ seen' = [seen EXCEPT ![r] = FlagsOf(task[t])]
     /\ pc' = [pc EXCEPT ![r] = "locked"]
     /\ UNCHANGED <<rows, lock, call, age, deferrals, arrived>>

\* lockTask, SELECT ... FOR UPDATE, and assertActionable.
LockTask(r) ==
  LET t == call[r].task
  IN /\ pc[r] = "begun"
     /\ lock[t] = None
     /\ Pending(t)
     /\ Owner[t] = call[r].agent
     /\ lock' = [lock EXCEPT ![t] = r]
     /\ seen' = [seen EXCEPT ![r] = FlagsOf(task[t])]
     /\ pc' = [pc EXCEPT ![r] = "locked"]
     /\ UNCHANGED <<rows, call, age, deferrals, arrived>>

\* assertIsActiveTask: a scheduled task, or one of the active segment.
CheckActive(r) ==
  LET t == call[r].task
  IN /\ pc[r] = "locked"
     /\ t \in Due(call[r].agent, age[r]) => t \in Leaders(Due(call[r].agent, age[r]))
     /\ pc' = [pc EXCEPT ![r] = "active"]
     /\ arrived' = [arrived EXCEPT ![r] = {}]
     /\ UNCHANGED <<rows, lock, call, seen, age, deferrals>>

\* The task is completed, the interaction and the legacy follow-up are inserted.
RegisterInteraction(r) ==
  LET t == call[r].task
  IN /\ pc[r] = "active"
     /\ call[r].op = "register"
     /\ records[t].interactions = 0  \* activity_interactions_task_id_unique
     /\ task' = [task EXCEPT ![t].status = "completed"]
     /\ records' = [records EXCEPT ![t].interactions = @ + 1, ![t].followups = @ + 1]
     /\ End(r)
     /\ arrived' = [arrived EXCEPT ![r] = {}]
     /\ UNCHANGED deferrals

\* The history stops counting above what the limits allow.
TooMany == MaxReschedules + 2

\* Everybody who has compared segments but r sees ts become due.
Arrived(ts, r) ==
  [q \in Requests |-> IF pc[q] = "active" /\ q # r THEN arrived[q] \cup ts ELSE {}]

\* A deferral that began before midnight may make the task due today.
Defer(r, row) ==
  /\ task' = [task EXCEPT ![call[r].task] = row]
  /\ deferrals' = [deferrals EXCEPT ![call[r].task] = IF @ = TooMany THEN @ ELSE @ + 1]
  /\ arrived' = Arrived({t \in {call[r].task} : row.expire <= 0}, r)
  /\ End(r)
  /\ UNCHANGED records

Postpone(r) ==
  /\ pc[r] = "active"
  /\ call[r].op = "postpone"
  /\ ~seen[r].postponed
  /\ Defer(r, [task[call[r].task] EXCEPT !.expire = 1 - age[r], !.postponed = TRUE])

\* Mutant: reschedule_count is not incremented.
RescheduleUncounted(r) ==
  /\ pc[r] = "active"
  /\ call[r].op = "reschedule"
  /\ call[r].task \in Visits
  /\ seen[r].rescheduled < MaxReschedules
  /\ Defer(r, [task[call[r].task] EXCEPT !.expire = call[r].days - age[r]])

\* Mutant: the limit is compared with > instead of >=.
RescheduleOnceMore(r) ==
  /\ pc[r] = "active"
  /\ call[r].op = "reschedule"
  /\ call[r].task \in Visits
  /\ seen[r].rescheduled <= MaxReschedules
  /\ Defer(r, [task[call[r].task] EXCEPT !.expire = call[r].days - age[r],
                                         !.rescheduled = @ + 1])

Reschedule(r) ==
  /\ pc[r] = "active"
  /\ call[r].op = "reschedule"
  /\ call[r].task \in Visits
  /\ seen[r].rescheduled < MaxReschedules
  /\ Defer(r, [task[call[r].task] EXCEPT !.expire = call[r].days - age[r],
                                         !.rescheduled = @ + 1])

\* Mutant: the task is completed outside the transaction of the records.
RollbackKeepingCompletion(r) ==
  /\ pc[r] # "idle"
  /\ task' = IF pc[r] = "active" /\ call[r].op = "register"
             THEN [task EXCEPT ![call[r].task].status = "completed"] ELSE task
  /\ End(r)
  /\ UNCHANGED <<records, deferrals, arrived>>

\* A refused command (400, 403, 404, 409), among them the recipient "other", which
\* fails after the UPDATE; a timeout; a crash.
Rollback(r) ==
  /\ pc[r] # "idle"
  /\ End(r)
  /\ arrived' = [arrived EXCEPT ![r] = {}]
  /\ UNCHANGED <<rows, deferrals>>

-----------------------------------------------------------------------------
(* Outside this program: the daily job and the calendar.                   *)

CreateTask(t) ==
  /\ task[t].status = "absent"
  /\ task' = [task EXCEPT ![t].status = "pending"]
  /\ arrived' = Arrived({t}, None)
  /\ UNCHANGED <<records, lock, pc, call, seen, age, deferrals>>

CloseTask(t) ==
  /\ Pending(t)
  /\ lock[t] = None
  /\ task' = [task EXCEPT ![t].status = "closed"]
  /\ UNCHANGED <<records, lock, pc, call, seen, age, deferrals, arrived>>

\* Midnight. Dates further back than yesterday are not told apart.
NextDay ==
  /\ \A r \in Requests : age[r] = 0
  /\ task' = [t \in Tasks |->
               IF Pending(t) /\ task[t].expire > -1
               THEN [task[t] EXCEPT !.expire = @ - 1] ELSE task[t]]
  /\ age' = [r \in Requests |-> IF pc[r] = "idle" THEN 0 ELSE 1]
  /\ UNCHANGED <<records, lock, pc, call, seen, deferrals, arrived>>

Init ==
  /\ task = [t \in Tasks |->
              [status |-> "absent", expire |-> 0, postponed |-> FALSE, rescheduled |-> 0]]
  /\ records = [t \in Tasks |-> [interactions |-> 0, followups |-> 0]]
  /\ lock = [t \in Tasks |-> None]
  /\ pc = [r \in Requests |-> "idle"]
  /\ call = [r \in Requests |-> None]
  /\ seen = [r \in Requests |-> None]
  /\ age = [r \in Requests |-> 0]
  /\ deferrals = [t \in Tasks |-> 0]
  /\ arrived = [r \in Requests |-> {}]

Next ==
  \/ \E r \in Requests, c \in Calls : Begin(r, c)
  \/ \E r \in Requests : \/ LockTask(r) \/ CheckActive(r) \/ RegisterInteraction(r)
                         \/ Postpone(r) \/ Reschedule(r) \/ Rollback(r)
  \/ \E t \in Tasks : CreateTask(t) \/ CloseTask(t)
  \/ NextDay

Spec == Init /\ [][Next]_vars

(* Days pass, and a transaction ends: its client library closes it after   *)
(* seconds.  Nobody is obliged to execute a task.                          *)
FairSpec ==
  /\ Spec
  /\ WF_vars(NextDay)
  /\ \A r \in Requests : WF_vars(age[r] = 1 /\ Rollback(r))
-----------------------------------------------------------------------------
TypeOK ==
  /\ task \in [Tasks -> Rows]
  /\ records \in [Tasks -> [interactions : Nat, followups : Nat]]
  /\ lock \in [Tasks -> Requests \cup {None}]
  /\ pc \in [Requests -> {"idle", "begun", "locked", "active"}]
  /\ call \in [Requests -> Calls \cup {None}]
  /\ seen \in [Requests -> Flags \cup {None}]
  /\ age \in [Requests -> 0 .. 1]
  /\ deferrals \in [Tasks -> 0 .. TooMany]
  /\ arrived \in [Requests -> SUBSET Tasks]

(***************************************************************************)
(* A completed task has exactly one interaction and one follow-up, and no  *)
(* other task has any: the three writes commit together                    *)
(* (follow-up.service.ts, lines 46-50).                                    *)
(***************************************************************************)
RecordedOnce ==
  \A t \in Tasks :
    LET n == IF task[t].status = "completed" THEN 1 ELSE 0
    IN records[t] = [interactions |-> n, followups |-> n]

(***************************************************************************)
(* A task is deferred at most once by a postponement and twice by          *)
(* rescheduling, whatever requests race: the flags the limits are checked  *)
(* on count every deferral (activities.service.ts, lines 649 and 666).     *)
(***************************************************************************)
DeferralsCounted ==
  \A t \in Tasks :
    deferrals[t] = task[t].rescheduled + (IF task[t].postponed THEN 1 ELSE 0)

(***************************************************************************)
(* A task that is no longer pending never changes again: no postponement   *)
(* or second execution slips in after the execution or the job closed it.  *)
(***************************************************************************)
ClosedStep ==
  \A t \in Tasks : task[t].status \notin {"absent", "pending"} => task'[t] = task[t]

ClosedForGood == [][ClosedStep]_vars

(***************************************************************************)
(* The lock between segments (activities.service.ts, lines 582-587 and     *)
(* 741-746): a due task is executed or deferred only while no task of a    *)
(* segment with higher priority is due in the same queue, tasks that       *)
(* became due after the request compared the segments aside.               *)
(***************************************************************************)
SegmentStep ==
  \A r \in Requests :
    LET t == call[r].task
        due == Due(call[r].agent, age[r])
    IN pc[r] = "active" /\ task'[t] # task[t] /\ pc'[r] = "idle" /\ t \in due
         => \A s \in due \ arrived[r] : Priority[t] <= Priority[s]

SegmentLock == [][SegmentStep]_vars

(***************************************************************************)
(* Deferring ends: from some day on a task that stays pending is due, so   *)
(* it leads the queue and blocks what depends on it.                       *)
(***************************************************************************)
DeferringEnds == \A t \in Tasks : <>[](Pending(t) => task[t].expire <= 0)
=============================================================================
