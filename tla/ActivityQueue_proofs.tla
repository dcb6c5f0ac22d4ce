------------------------ MODULE ActivityQueue_proofs ------------------------
(***************************************************************************)
(* Any number of tasks, partners and concurrent commands: a task is        *)
(* recorded once, its deferrals are counted, a closed task stays closed    *)
(* and segments are executed in the order of their priority.  The limits   *)
(* are checked on fields read earlier in the transaction; the invariant    *)
(* that makes this safe says that the transaction which read them holds    *)
(* the row since then, so they still are the fields of a pending task.     *)
(***************************************************************************)
EXTENDS ActivityQueue, TLAPS

Operations == {"register", "postpone", "reschedule"}

\* A request past its first read owns the task, which is as it was read.
Owns ==
  \A r \in Requests :
    /\ pc[r] # "idle" => call[r] \in Calls
    /\ pc[r] \in {"locked", "active"} =>
         /\ lock[call[r].task] = r
         /\ Pending(call[r].task)
         /\ seen[r] = FlagsOf(task[call[r].task])

\* A request that compared segments still is in the right one.
Ordered(r) ==
  LET t == call[r].task
      due == Due(call[r].agent, age[r])
  IN t \in due => \A s \in due \ arrived[r] : Priority[t] <= Priority[s]

InOrder == \A r \in Requests : pc[r] = "active" => Ordered(r)

\* A step after which r still has its task, and nothing unremembered became due.
Steady(r) ==
  /\ pc[r] = "active"
  /\ call'[r] = call[r]
  /\ call[r].task \in Due(call[r].agent, age[r])' => call[r].task \in Due(call[r].agent, age[r])
  /\ (Due(call[r].agent, age[r]) \ arrived[r])' \subseteq Due(call[r].agent, age[r]) \ arrived[r]

Inv == TypeOK /\ Owns /\ RecordedOnce /\ DeferralsCounted

(* The fields of a call.                                                   *)
LEMMA CallFields ==
  ASSUME NEW c \in Calls
  PROVE  /\ c.op \in Operations
         /\ c.task \in Tasks
         /\ c.agent \in Agents
         /\ c.op = "reschedule" => c.days \in 1 .. RescheduleMaxDays
  BY DEF Calls, Operations

(* What is due after a midnight was due before, by the older reckoning.    *)
LEMMA SteadyAtMidnight ==
  ASSUME TypeOK, NextDay, NEW r \in Requests, pc[r] = "active"
  PROVE  Steady(r)
<1>1. UNCHANGED <<call, arrived>> /\ age[r] = 0 /\ age'[r] = 1
  BY DEF NextDay, TypeOK
<1>2. \A t \in Tasks : /\ task'[t].status = task[t].status
                       /\ task[t].expire \in Int /\ task'[t].expire \in Int
                       /\ task'[t].expire + 1 <= 0 /\ Pending(t) => task[t].expire + 0 <= 0
  BY QueueAssumption DEF NextDay, TypeOK, Rows, Statuses, Pending
<1>3. Due(call[r].agent, age[r])' \subseteq Due(call[r].agent, age[r])
  BY <1>1, <1>2 DEF Due, Pending
<1> QED
  BY <1>1, <1>3 DEF Steady

(* Rows stay rows when a command changes its fields within their ranges.   *)
LEMMA ChangedRow ==
  ASSUME NEW row \in Rows
  PROVE  /\ \A s \in Statuses : [row EXCEPT !.status = s] \in Rows
         /\ \A d \in -1 .. RescheduleMaxDays :
              /\ [row EXCEPT !.expire = d] \in Rows
              /\ [row EXCEPT !.expire = d, !.postponed = TRUE] \in Rows
              /\ row.rescheduled < MaxReschedules =>
                   [row EXCEPT !.expire = d, !.rescheduled = @ + 1] \in Rows
<1>1. \A s \in Statuses : [row EXCEPT !.status = s] \in Rows
  BY DEF Rows
<1> SUFFICES ASSUME NEW d \in -1 .. RescheduleMaxDays
             PROVE  /\ [row EXCEPT !.expire = d] \in Rows
                    /\ [row EXCEPT !.expire = d, !.postponed = TRUE] \in Rows
                    /\ row.rescheduled < MaxReschedules =>
                         [row EXCEPT !.expire = d, !.rescheduled = @ + 1] \in Rows
  BY <1>1
<1>2. [row EXCEPT !.expire = d] \in Rows
  BY DEF Rows
<1>3. [row EXCEPT !.expire = d, !.postponed = TRUE] \in Rows
  BY DEF Rows
<1>4. ASSUME row.rescheduled < MaxReschedules
      PROVE  [row EXCEPT !.expire = d, !.rescheduled = @ + 1] \in Rows
  <2>1. row.rescheduled + 1 \in 0 .. MaxReschedules
    BY <1>4 DEF Rows, MaxReschedules
  <2> QED
    BY <2>1 DEF Rows
<1> QED
  BY <1>2, <1>3, <1>4

-----------------------------------------------------------------------------
(* Every step keeps the types.                                             *)
LEMMA TypesKept == Inv /\ [Next]_vars => TypeOK'
<1> SUFFICES ASSUME Inv, [Next]_vars PROVE TypeOK'
  OBVIOUS
<1> USE QueueAssumption DEF Inv, TypeOK
<1>1. ASSUME NEW r \in Requests, NEW c \in Calls, Begin(r, c) PROVE TypeOK'
  BY <1>1 DEF Begin, rows
<1>2. ASSUME NEW r \in Requests, LockTask(r) PROVE TypeOK'
  <2>1. call[r] \in Calls
    BY <1>2 DEF LockTask, Owns
  <2>2. FlagsOf(task[call[r].task]) \in Flags
    BY <2>1, CallFields DEF FlagsOf, Flags, Rows
  <2> QED
    BY <1>2, <2>2 DEF LockTask, rows
<1>3. ASSUME NEW r \in Requests, CheckActive(r) PROVE TypeOK'
  BY <1>3 DEF CheckActive, rows
<1>4. ASSUME NEW r \in Requests, RegisterInteraction(r) PROVE TypeOK'
  <2>1. call[r] \in Calls
    BY <1>4 DEF RegisterInteraction, Owns
  <2>2. task' \in [Tasks -> Rows]
    BY <1>4, <2>1, CallFields, ChangedRow DEF RegisterInteraction, Statuses
  <2>3. records' \in [Tasks -> [interactions : Nat, followups : Nat]]
    BY <1>4, <2>1, CallFields DEF RegisterInteraction
  <2> QED
    BY <1>4, <2>2, <2>3 DEF RegisterInteraction, End
<1>5. ASSUME NEW r \in Requests, Postpone(r) PROVE TypeOK'
  <2>1. call[r] \in Calls /\ task[call[r].task].postponed = FALSE
    BY <1>5, CallFields DEF Postpone, Owns, FlagsOf
  <2> DEFINE row == [task[call[r].task] EXCEPT !.expire = 1 - age[r], !.postponed = TRUE]
  <2>2. row \in Rows
    <3>1. 1 - age[r] \in -1 .. RescheduleMaxDays
      OBVIOUS
    <3> QED
      BY <2>1, <3>1, CallFields, ChangedRow
  <2>3. deferrals[call[r].task] \in 0 .. MaxReschedules
    <3>1. task[call[r].task] \in Rows
      BY <2>1, CallFields
    <3> QED
      BY <2>1, <3>1, CallFields DEF DeferralsCounted, Rows, MaxReschedules
  <2> QED
    BY <1>5, <2>1, <2>2, <2>3, CallFields
       DEF Postpone, Defer, End, Arrived, TooMany, MaxReschedules
<1>6. ASSUME NEW r \in Requests, Reschedule(r) PROVE TypeOK'
  <2>1. call[r] \in Calls /\ task[call[r].task].rescheduled < MaxReschedules
    BY <1>6, CallFields DEF Reschedule, Owns, FlagsOf
  <2> DEFINE row == [task[call[r].task] EXCEPT !.expire = call[r].days - age[r],
                                               !.rescheduled = @ + 1]
  <2>2. row \in Rows
    <3>1. call[r].days - age[r] \in -1 .. RescheduleMaxDays
      BY <1>6, <2>1, CallFields DEF Reschedule
    <3> QED
      BY <2>1, <3>1, CallFields, ChangedRow
  <2>3. deferrals[call[r].task] \in 0 .. MaxReschedules
    <3>1. call[r].task \in Tasks /\ task[call[r].task] \in Rows
      BY <2>1, CallFields
    <3>2. task[call[r].task].rescheduled \in 0 .. 1
      BY <2>1, <3>1 DEF Rows, MaxReschedules
    <3> DEFINE n == IF task[call[r].task].postponed THEN 1 ELSE 0
    <3>3. deferrals[call[r].task] = task[call[r].task].rescheduled + n
      BY <3>1 DEF DeferralsCounted
    <3>4. n \in 0 .. 1
      OBVIOUS
    <3> HIDE DEF n
    <3> QED
      BY <3>2, <3>3, <3>4 DEF MaxReschedules
  <2> QED
    BY <1>6, <2>1, <2>2, <2>3, CallFields
       DEF Reschedule, Defer, End, Arrived, TooMany, MaxReschedules
<1>7. ASSUME NEW r \in Requests, Rollback(r) PROVE TypeOK'
  BY <1>7 DEF Rollback, End, rows
<1>8. ASSUME NEW t \in Tasks, CreateTask(t) PROVE TypeOK'
  BY <1>8, ChangedRow DEF CreateTask, Arrived, Statuses
<1>9. ASSUME NEW t \in Tasks, CloseTask(t) PROVE TypeOK'
  BY <1>9, ChangedRow DEF CloseTask, Statuses
<1>10. CASE NextDay
  <2>1. ASSUME NEW t \in Tasks, task[t].expire > -1
        PROVE  [task[t] EXCEPT !.expire = @ - 1] \in Rows
    <3>1. task[t].expire - 1 \in -1 .. RescheduleMaxDays
      BY <2>1 DEF Rows
    <3> QED
      BY <3>1, ChangedRow
  <2> QED
    BY <1>10, <2>1 DEF NextDay
<1>11. CASE UNCHANGED vars
  BY <1>11 DEF vars, rows
<1> QED
  BY <1>1, <1>2, <1>3, <1>4, <1>5, <1>6, <1>7, <1>8, <1>9, <1>10, <1>11 DEF Next

-----------------------------------------------------------------------------
(* When a transaction ends, the others keep what they own.                 *)
LEMMA OthersOwn ==
  ASSUME TypeOK, Owns, NEW r \in Requests, pc[r] = "active", End(r),
         NEW row, task' = [task EXCEPT ![call[r].task] = row]
  PROVE  Owns'
<1> SUFFICES ASSUME NEW q \in Requests
             PROVE  /\ pc'[q] # "idle" => call'[q] \in Calls
                    /\ pc'[q] \in {"locked", "active"} =>
                         /\ lock'[call'[q].task] = q
                         /\ task'[call'[q].task].status = "pending"
                         /\ seen'[q] = FlagsOf(task'[call'[q].task])
  BY DEF Owns, Pending, FlagsOf
<1>1. CASE q = r
  BY <1>1 DEF End, TypeOK
<1>2. CASE q # r
  <2>1. pc'[q] = pc[q] /\ call'[q] = call[q] /\ seen'[q] = seen[q]
    BY <1>2 DEF End, TypeOK
  <2>2. ASSUME pc[q] \in {"locked", "active"} PROVE call[q].task # call[r].task
    BY <1>2, <2>2 DEF Owns
  <2>3. ASSUME pc[q] \in {"locked", "active"}
        PROVE  /\ lock'[call[q].task] = q
               /\ task'[call[q].task] = task[call[q].task]
    BY <1>2, <2>2, <2>3, CallFields DEF Owns, End, TypeOK
  <2> QED
    BY <2>1, <2>3 DEF Owns, Pending
<1> QED
  BY <1>1, <1>2

(* Every step keeps the ownership of the tasks.                            *)
LEMMA OwnershipKept == Inv /\ [Next]_vars => Owns'
<1> SUFFICES ASSUME Inv, [Next]_vars PROVE Owns'
  OBVIOUS
<1> USE QueueAssumption DEF Inv
<1>1. ASSUME NEW r \in Requests, NEW c \in Calls, Begin(r, c) PROVE Owns'
  BY <1>1 DEF Begin, Owns, rows, TypeOK, Pending
<1>2. ASSUME NEW r \in Requests, LockTask(r) PROVE Owns'
  BY <1>2, CallFields DEF LockTask, Owns, rows, TypeOK, Pending
<1>3. ASSUME NEW r \in Requests, CheckActive(r) PROVE Owns'
  BY <1>3 DEF CheckActive, Owns, rows, TypeOK, Pending
<1>4. ASSUME NEW r \in Requests, RegisterInteraction(r) PROVE Owns'
  <2>1. task' = [task EXCEPT ![call[r].task] =
                   [task[call[r].task] EXCEPT !.status = "completed"]]
    BY <1>4 DEF RegisterInteraction
  <2> QED
    BY <1>4, <2>1, OthersOwn DEF RegisterInteraction
<1>5. ASSUME NEW r \in Requests, Postpone(r) PROVE Owns'
  BY <1>5, OthersOwn DEF Postpone, Defer
<1>6. ASSUME NEW r \in Requests, Reschedule(r) PROVE Owns'
  BY <1>6, OthersOwn DEF Reschedule, Defer
<1>7. ASSUME NEW r \in Requests, Rollback(r) PROVE Owns'
  BY <1>7, CallFields DEF Rollback, End, Owns, rows, TypeOK, Pending
<1>8. ASSUME NEW t \in Tasks, CreateTask(t) PROVE Owns'
  BY <1>8, CallFields DEF CreateTask, Owns, TypeOK, Pending, FlagsOf, Rows
<1>9. ASSUME NEW t \in Tasks, CloseTask(t) PROVE Owns'
  <2>1. ASSUME NEW q \in Requests, pc[q] \in {"locked", "active"}
        PROVE  call[q].task # t /\ call[q].task \in Tasks
    BY <1>9, <2>1, CallFields DEF CloseTask, Owns
  <2> QED
    BY <1>9, <2>1 DEF CloseTask, Owns, TypeOK, Pending
<1>10. CASE NextDay
  <2>1. \A t \in Tasks : /\ task'[t].status = task[t].status
                         /\ FlagsOf(task'[t]) = FlagsOf(task[t])
    BY <1>10 DEF NextDay, TypeOK, Rows, FlagsOf
  <2> QED
    BY <1>10, <2>1, CallFields DEF NextDay, Owns, TypeOK, Pending
<1>11. CASE UNCHANGED vars
  BY <1>11 DEF vars, rows, Owns, Pending
<1> QED
  BY <1>1, <1>2, <1>3, <1>4, <1>5, <1>6, <1>7, <1>8, <1>9, <1>10, <1>11 DEF Next
-----------------------------------------------------------------------------
(* The records of a task are written with its completion.                  *)
LEMMA RecordsKept == Inv /\ [Next]_vars => RecordedOnce'
<1> SUFFICES ASSUME Inv, [Next]_vars, NEW t \in Tasks
             PROVE  LET n == IF task'[t].status = "completed" THEN 1 ELSE 0
                    IN records'[t] = [interactions |-> n, followups |-> n]
  BY DEF RecordedOnce
<1> USE DEF Inv, TypeOK, RecordedOnce
<1>1. ASSUME task'[t].status = "completed" <=> task[t].status = "completed",
             UNCHANGED records
      PROVE  LET n == IF task'[t].status = "completed" THEN 1 ELSE 0
             IN records'[t] = [interactions |-> n, followups |-> n]
  BY <1>1
<1>2. ASSUME NEW r \in Requests, RegisterInteraction(r)
      PROVE  LET n == IF task'[t].status = "completed" THEN 1 ELSE 0
             IN records'[t] = [interactions |-> n, followups |-> n]
  <2>1. call[r].task \in Tasks /\ task[call[r].task].status = "pending"
    BY <1>2, CallFields DEF RegisterInteraction, Owns, Pending
  <2>2. CASE t = call[r].task
    <3>1. records[t] = [interactions |-> 0, followups |-> 0]
      BY <2>1, <2>2
    <3>2. task'[t].status = "completed"
      BY <1>2, <2>2 DEF RegisterInteraction, Rows
    <3> QED
      BY <1>2, <2>2, <3>1, <3>2 DEF RegisterInteraction
  <2>3. CASE t # call[r].task
    BY <1>2, <2>1, <2>3 DEF RegisterInteraction
  <2> QED
    BY <2>2, <2>3
<1>3. ASSUME NEW r \in Requests, Postpone(r) \/ Reschedule(r)
      PROVE  (task'[t].status = "completed" <=> task[t].status = "completed") /\ UNCHANGED records
  <2>1. task[t] \in Rows
    OBVIOUS
  <2>2. CASE Postpone(r)
    BY <2>1, <2>2 DEF Postpone, Defer, Rows
  <2>3. CASE Reschedule(r)
    BY <2>1, <2>3 DEF Reschedule, Defer, Rows
  <2> QED
    BY <1>3, <2>2, <2>3
<1>4. ASSUME NEW s \in Tasks, CreateTask(s) \/ CloseTask(s)
      PROVE  (task'[t].status = "completed" <=> task[t].status = "completed") /\ UNCHANGED records
  BY <1>4 DEF CreateTask, CloseTask, Pending, Rows
<1>5. CASE NextDay
  BY <1>5, <1>1 DEF NextDay, Rows
<1>6. ASSUME NEW r \in Requests,
             (\E c \in Calls : Begin(r, c)) \/ LockTask(r) \/ CheckActive(r) \/ Rollback(r)
      PROVE  UNCHANGED <<task, records>>
  BY <1>6 DEF Begin, LockTask, CheckActive, Rollback, rows
<1>7. CASE UNCHANGED vars
  BY <1>7, <1>1 DEF vars, rows
<1> QED
  BY <1>1, <1>2, <1>3, <1>4, <1>5, <1>6, <1>7 DEF Next

(* Every deferral is counted in the fields of the row.                     *)
LEMMA CountKept == Inv /\ [Next]_vars => DeferralsCounted'
<1> SUFFICES ASSUME Inv, [Next]_vars, NEW t \in Tasks
             PROVE  deferrals'[t] = task'[t].rescheduled + (IF task'[t].postponed THEN 1 ELSE 0)
  BY DEF DeferralsCounted
<1> USE DEF Inv, TypeOK, DeferralsCounted
<1>1. ASSUME FlagsOf(task'[t]) = FlagsOf(task[t]), UNCHANGED deferrals
      PROVE  deferrals'[t] = task'[t].rescheduled + (IF task'[t].postponed THEN 1 ELSE 0)
  BY <1>1 DEF FlagsOf
<1>2. ASSUME NEW r \in Requests, NEW row, Defer(r, row), pc[r] = "active",
             row.rescheduled + (IF row.postponed THEN 1 ELSE 0) = deferrals[call[r].task] + 1,
             deferrals[call[r].task] # TooMany
      PROVE  deferrals'[t] = task'[t].rescheduled + (IF task'[t].postponed THEN 1 ELSE 0)
  <2>1. call[r].task \in Tasks
    BY <1>2, CallFields DEF Owns
  <2>2. CASE t = call[r].task
    BY <1>2, <2>1, <2>2 DEF Defer
  <2>3. CASE t # call[r].task
    BY <1>2, <2>1, <2>3 DEF Defer
  <2> QED
    BY <2>2, <2>3
<1>3. ASSUME NEW r \in Requests, Postpone(r)
      PROVE  deferrals'[t] = task'[t].rescheduled + (IF task'[t].postponed THEN 1 ELSE 0)
  <2> DEFINE old == task[call[r].task]
             row == [old EXCEPT !.expire = 1 - age[r], !.postponed = TRUE]
  <2>1. call[r].task \in Tasks /\ old \in Rows /\ old.postponed = FALSE
    BY <1>3, CallFields DEF Postpone, Owns, FlagsOf
  <2>2. row.rescheduled = old.rescheduled /\ row.postponed = TRUE /\ old.rescheduled \in 0 .. 2
    BY <2>1 DEF Rows, MaxReschedules
  <2>3. deferrals[call[r].task] = old.rescheduled + 0
    BY <2>1
  <2>4. /\ row.rescheduled + (IF row.postponed THEN 1 ELSE 0) = deferrals[call[r].task] + 1
        /\ deferrals[call[r].task] # TooMany
    BY <2>2, <2>3 DEF TooMany, MaxReschedules
  <2> QED
    BY <1>2, <1>3, <2>4 DEF Postpone
<1>4. ASSUME NEW r \in Requests, Reschedule(r)
      PROVE  deferrals'[t] = task'[t].rescheduled + (IF task'[t].postponed THEN 1 ELSE 0)
  <2> DEFINE old == task[call[r].task]
             row == [old EXCEPT !.expire = call[r].days - age[r], !.rescheduled = @ + 1]
             n   == IF old.postponed THEN 1 ELSE 0
  <2>1. call[r].task \in Tasks /\ old \in Rows /\ old.rescheduled < MaxReschedules
    BY <1>4, CallFields DEF Reschedule, Owns, FlagsOf
  <2>2. row.rescheduled = old.rescheduled + 1 /\ row.postponed = old.postponed
    BY <2>1 DEF Rows
  <2>3. old.rescheduled \in 0 .. 1 /\ n \in 0 .. 1
    BY <2>1 DEF Rows, MaxReschedules
  <2>4. deferrals[call[r].task] = old.rescheduled + n
    BY <2>1
  <2>5. /\ row.rescheduled + (IF row.postponed THEN 1 ELSE 0) = deferrals[call[r].task] + 1
        /\ deferrals[call[r].task] # TooMany
    BY <2>2, <2>3, <2>4 DEF TooMany, MaxReschedules
  <2> QED
    BY <1>2, <1>4, <2>5 DEF Reschedule
<1>5. ASSUME NEW r \in Requests, RegisterInteraction(r)
      PROVE  FlagsOf(task'[t]) = FlagsOf(task[t]) /\ UNCHANGED deferrals
  <2>1. task[t] \in Rows
    OBVIOUS
  <2>2. task'[t] \in {task[t], [task[t] EXCEPT !.status = "completed"]}
    BY <1>5 DEF RegisterInteraction
  <2> QED
    BY <1>5, <2>1, <2>2 DEF RegisterInteraction, Rows, FlagsOf
<1>6. ASSUME NEW s \in Tasks, CreateTask(s) \/ CloseTask(s)
      PROVE  FlagsOf(task'[t]) = FlagsOf(task[t]) /\ UNCHANGED deferrals
  <2>1. task[t] \in Rows
    OBVIOUS
  <2>2. task'[t] \in {task[t], [task[t] EXCEPT !.status = "pending"],
                              [task[t] EXCEPT !.status = "closed"]}
    BY <1>6 DEF CreateTask, CloseTask
  <2> QED
    BY <1>6, <2>1, <2>2 DEF CreateTask, CloseTask, Rows, FlagsOf
<1>7. CASE NextDay
  BY <1>7, <1>1 DEF NextDay, Rows, FlagsOf
<1>8. ASSUME NEW r \in Requests,
             (\E c \in Calls : Begin(r, c)) \/ LockTask(r) \/ CheckActive(r) \/ Rollback(r)
      PROVE  UNCHANGED <<task, deferrals>>
  BY <1>8 DEF Begin, LockTask, CheckActive, Rollback, rows
<1>9. CASE UNCHANGED vars
  BY <1>9, <1>1 DEF vars, rows
<1> QED
  BY <1>1, <1>3, <1>4, <1>5, <1>6, <1>7, <1>8, <1>9 DEF Next

-----------------------------------------------------------------------------
(* A request stays in the right segment while its own task keeps its place *)
(* and whatever else becomes due is remembered as arrived.                 *)
LEMMA StaysInOrder ==
  ASSUME InOrder, NEW q \in Requests, Steady(q)
  PROVE  Ordered(q)'
  BY DEF InOrder, Ordered, Steady

(* The end of another command only adds to the queue what it remembers.    *)
LEMMA OthersInOrder ==
  ASSUME Inv, NEW r \in Requests, pc[r] = "active", End(r),
         NEW row, task' = [task EXCEPT ![call[r].task] = row],
         NEW q \in Requests, pc[q] = "active", q # r,
         \/ row.status # "pending" /\ arrived'[q] = arrived[q]
         \/ row.expire \in Int /\ arrived' = Arrived({t \in {call[r].task} : row.expire <= 0}, r)
  PROVE  Steady(q)
<1> USE DEF Inv, TypeOK
<1>1. call'[q] = call[q] /\ age'[q] = age[q] /\ age[q] \in 0 .. 1
  BY DEF End
<1>2. call[q].task # call[r].task /\ call[q].task \in Tasks /\ call[r].task \in Tasks
  BY CallFields DEF Owns
<1>3. \A t \in Tasks : t # call[r].task => task'[t] = task[t]
  OBVIOUS
<1>4. task'[call[r].task] = row
  BY <1>2
<1>5. call[q].task \in Due(call[q].agent, age[q])' => call[q].task \in Due(call[q].agent, age[q])
  BY <1>1, <1>2, <1>3 DEF Due, Pending
<1>6. arrived[q] \subseteq arrived'[q]
  BY DEF Arrived
<1>7. call[r].task \in Due(call[q].agent, age[q])' => call[r].task \in arrived'[q]
  BY <1>1, <1>4 DEF Due, Pending, Arrived
<1>8. \A t \in Tasks : t # call[r].task /\ t \in Due(call[q].agent, age[q])'
                        => t \in Due(call[q].agent, age[q])
  BY <1>1, <1>3 DEF Due, Pending
<1>9. Due(call[q].agent, age[q])' \subseteq Tasks
  BY DEF Due
<1>10. (Due(call[q].agent, age[q]) \ arrived[q])' \subseteq Due(call[q].agent, age[q]) \ arrived[q]
  BY <1>6, <1>7, <1>8, <1>9
<1> QED
  BY <1>1, <1>5, <1>10 DEF Steady

(* Every step keeps the order of the segments.                             *)
LEMMA OrderKept == Inv /\ InOrder /\ [Next]_vars => InOrder'
<1> SUFFICES ASSUME Inv, InOrder, [Next]_vars, NEW q \in Requests, pc'[q] = "active"
             PROVE  Ordered(q)'
  BY DEF InOrder
<1> USE QueueAssumption DEF Inv, TypeOK
<1>1. ASSUME pc[q] = "active", UNCHANGED <<task, call, age, arrived>>
      PROVE  Ordered(q)'
  BY <1>1 DEF InOrder, Ordered, Due, Pending
<1>2. ASSUME NEW r \in Requests, NEW c \in Calls, Begin(r, c)
      PROVE  Ordered(q)'
  BY <1>2 DEF Begin, rows, InOrder, Ordered, Due, Pending
<1>3. ASSUME NEW r \in Requests, LockTask(r)
      PROVE  pc[q] = "active" /\ UNCHANGED <<task, call, age, arrived>>
  BY <1>3 DEF LockTask, rows
<1>4. ASSUME NEW r \in Requests, CheckActive(r)
      PROVE  Ordered(q)'
  <2>1. CASE q = r
    BY <1>4, <2>1 DEF CheckActive, rows, Ordered, Due, Pending, Leaders
  <2>2. CASE q # r
    BY <1>4, <2>2 DEF CheckActive, rows, InOrder, Ordered, Due, Pending
  <2> QED
    BY <2>1, <2>2
<1>5. ASSUME NEW r \in Requests, RegisterInteraction(r)
      PROVE  Ordered(q)'
  <2> DEFINE row == [task[call[r].task] EXCEPT !.status = "completed"]
  <2>1. pc[r] = "active" /\ End(r) /\ task' = [task EXCEPT ![call[r].task] = row]
    BY <1>5 DEF RegisterInteraction
  <2>2. q # r /\ pc[q] = "active"
    BY <2>1 DEF End
  <2>3. row.status # "pending" /\ arrived'[q] = arrived[q]
    <3>1. task[call[r].task] \in Rows
      BY <2>1, CallFields DEF Owns
    <3> QED
      BY <1>5, <2>2, <3>1 DEF RegisterInteraction, Rows
  <2> HIDE DEF row
  <2>4. Steady(q)
    BY <2>1, <2>2, <2>3, OthersInOrder
  <2> QED
    BY <2>4, StaysInOrder
<1>6. ASSUME NEW r \in Requests, NEW row, Defer(r, row), pc[r] = "active", row.expire \in Int
      PROVE  Ordered(q)'
  <2>1. q # r /\ pc[q] = "active"
    BY <1>6 DEF Defer, End
  <2>2. /\ End(r) /\ task' = [task EXCEPT ![call[r].task] = row]
        /\ arrived' = Arrived({t \in {call[r].task} : row.expire <= 0}, r)
    BY <1>6 DEF Defer
  <2>3. Steady(q)
    BY <1>6, <2>1, <2>2, OthersInOrder
  <2> QED
    BY <2>3, StaysInOrder
<1>7. ASSUME NEW r \in Requests, Postpone(r) \/ Reschedule(r)
      PROVE  \E row : Defer(r, row) /\ pc[r] = "active" /\ row.expire \in Int
  <2>1. call[r] \in Calls /\ task[call[r].task] \in Rows /\ age[r] \in 0 .. 1
    BY <1>7, CallFields DEF Postpone, Reschedule, Owns
  <2>2. CASE Postpone(r)
    <3> DEFINE row == [task[call[r].task] EXCEPT !.expire = 1 - age[r], !.postponed = TRUE]
    <3>1. row.expire \in Int
      BY <2>1 DEF Rows
    <3>2. Defer(r, row) /\ pc[r] = "active"
      BY <2>2 DEF Postpone
    <3> HIDE DEF row
    <3> QED
      BY <3>1, <3>2
  <2>3. CASE Reschedule(r)
    <3> DEFINE row == [task[call[r].task] EXCEPT !.expire = call[r].days - age[r],
                                                 !.rescheduled = @ + 1]
    <3>1. call[r].days \in Int
      BY <2>1, <2>3, CallFields DEF Reschedule
    <3>2. row.expire \in Int
      BY <2>1, <3>1 DEF Rows
    <3>3. Defer(r, row) /\ pc[r] = "active"
      BY <2>3 DEF Reschedule
    <3> HIDE DEF row
    <3> QED
      BY <3>2, <3>3
  <2> QED
    BY <1>7, <2>2, <2>3
<1>8. ASSUME NEW r \in Requests, Rollback(r)
      PROVE  Ordered(q)'
  BY <1>8 DEF Rollback, End, rows, InOrder, Ordered, Due, Pending
<1>9. ASSUME NEW t \in Tasks, CreateTask(t)
      PROVE  Ordered(q)'
  <2>1. pc[q] = "active" /\ UNCHANGED <<call, age>> /\ arrived'[q] = arrived[q] \cup {t}
    BY <1>9 DEF CreateTask, Arrived
  <2>2. call[q].task # t
    BY <1>9, <2>1 DEF CreateTask, Owns, Pending
  <2>3. \A s \in Tasks : s # t => task'[s] = task[s]
    BY <1>9 DEF CreateTask
  <2> QED
    BY <2>1, <2>2, <2>3, StaysInOrder DEF Steady, Due, Pending
<1>10. ASSUME NEW t \in Tasks, CloseTask(t)
      PROVE  Ordered(q)'
  <2>1. pc[q] = "active" /\ UNCHANGED <<call, age, arrived>>
    BY <1>10 DEF CloseTask
  <2>2. \A s \in Tasks : task'[s] = task[s] \/ task'[s].status # "pending"
    BY <1>10 DEF CloseTask, Rows
  <2>3. Due(call[q].agent, age[q])' \subseteq Due(call[q].agent, age[q])
    BY <2>1, <2>2 DEF Due, Pending
  <2> QED
    BY <2>1, <2>3, StaysInOrder DEF Steady
<1>11. CASE NextDay
  <2>1. pc[q] = "active"
    BY <1>11 DEF NextDay
  <2> QED
    BY <1>11, <2>1, SteadyAtMidnight, StaysInOrder
<1>12. CASE UNCHANGED vars
  BY <1>12, <1>1 DEF vars, rows
<1> QED
  BY <1>1, <1>2, <1>3, <1>4, <1>5, <1>6, <1>7, <1>8, <1>9, <1>10, <1>11, <1>12 DEF Next

-----------------------------------------------------------------------------
LEMMA InvHolds == Spec => [](Inv /\ InOrder)
<1>1. Init => Inv /\ InOrder
  BY QueueAssumption
     DEF Init, Inv, TypeOK, Owns, InOrder, Ordered, RecordedOnce, DeferralsCounted, Rows, Statuses,
         MaxReschedules, TooMany
<1>2. Inv /\ InOrder /\ [Next]_vars => (Inv /\ InOrder)'
  BY TypesKept, OwnershipKept, RecordsKept, CountKept, OrderKept DEF Inv
<1> QED
  BY <1>1, <1>2, PTL DEF Spec

(* The rows, the locks and what the requests remember keep their types,    *)
(* and no history counter passes the limits.                               *)
THEOREM QueueTypes == Spec => []TypeOK
<1>1. Inv => TypeOK
  BY DEF Inv
<1> QED
  BY <1>1, InvHolds, PTL

(* Completion, interaction and follow-up commit together: a completed task *)
(* has one of each and no other task has any.                              *)
THEOREM TasksRecordedOnce == Spec => []RecordedOnce
<1>1. Inv => RecordedOnce
  BY DEF Inv
<1> QED
  BY <1>1, InvHolds, PTL

(* The fields the limits are checked on count every deferral of a task,    *)
(* whatever commands race.                                                 *)
THEOREM DeferralsAreCounted == Spec => []DeferralsCounted
<1>1. Inv => DeferralsCounted
  BY DEF Inv
<1> QED
  BY <1>1, InvHolds, PTL

(* A task that was executed or closed never changes again.                 *)
THEOREM ClosedTasksStayClosed == Spec => ClosedForGood
<1>1. Inv /\ [Next]_vars => [ClosedStep]_vars
  <2> SUFFICES ASSUME Inv, [Next]_vars, NEW t \in Tasks,
                      task[t].status \notin {"absent", "pending"}
               PROVE  task'[t] = task[t]
    BY DEF ClosedStep
  <2> USE DEF Inv, TypeOK
  <2>1. ASSUME NEW r \in Requests,
               RegisterInteraction(r) \/ Postpone(r) \/ Reschedule(r)
        PROVE  task'[t] = task[t]
    <3>1. call[r].task # t
      BY <2>1 DEF RegisterInteraction, Postpone, Reschedule, Owns, Pending
    <3> QED
      BY <2>1, <3>1 DEF RegisterInteraction, Postpone, Reschedule, Defer
  <2>2. ASSUME NEW s \in Tasks, CreateTask(s) \/ CloseTask(s) PROVE task'[t] = task[t]
    BY <2>2 DEF CreateTask, CloseTask, Pending
  <2>3. CASE NextDay
    BY <2>3 DEF NextDay, Pending
  <2>4. ASSUME NEW r \in Requests,
               (\E c \in Calls : Begin(r, c)) \/ LockTask(r) \/ CheckActive(r) \/ Rollback(r)
        PROVE  task' = task
    BY <2>4 DEF Begin, LockTask, CheckActive, Rollback, rows
  <2>5. CASE UNCHANGED vars
    BY <2>5 DEF vars, rows
  <2> QED
    BY <2>1, <2>2, <2>3, <2>4, <2>5 DEF Next
<1> QED
  BY <1>1, InvHolds, PTL DEF Spec, ClosedForGood

(* A due task is executed or deferred only while no task of a segment with *)
(* higher priority was due in the queue of the same partner.               *)
THEOREM SegmentsInOrder == Spec => SegmentLock
<1>1. InOrder => SegmentStep
  BY DEF InOrder, Ordered, SegmentStep
<1> QED
  BY <1>1, InvHolds, PTL DEF Spec, SegmentLock
=============================================================================
