------------------------- MODULE TodayQueue_proofs --------------------------
(***************************************************************************)
(* The answer of "Ações de hoje" misses no task that stayed on the queue,  *)
(* is exact when nothing was committed under it, and explains the gates,   *)
(* for any tasks, users, hierarchy and number of commits.                  *)
(*                                                                         *)
(* The inductive invariant follows the order of the queries.  Tracked: a   *)
(* task that stayed on the queue is in a group already read or in a state  *)
(* a group still to be read will find.  Snapshot: while nothing was        *)
(* committed, what has been read is what the query would answer now.       *)
(***************************************************************************)
EXTENDS TodayQueue, FiniteSetTheorems, TLAPS

\* The values of pc once a query has been answered.
SinceCompleted == {"answered"}
SinceScheduled == {"completed", "answered"}
SinceLocked == {"scheduled", "completed", "answered"}
SinceSegments == {"locked", "scheduled", "completed", "answered"}
SinceCounter == {"segments", "locked", "scheduled", "completed", "answered"}
SinceActive == {"counter", "segments", "locked", "scheduled", "completed", "answered"}

\* A group that has not been read is empty, and there is a request to answer.
Unread ==
  /\ pc \in {"idle", "active"} \cup SinceActive
  /\ pc \notin SinceActive => active = None
  /\ pc \notin SinceLocked => locked = {}
  /\ pc = "idle" => commits = 0 /\ steady = {}
  /\ pc # "idle" => asked.scope = IF SeesAll(asked.session.permissions, ViewAll) THEN Users
                                  ELSE Subtree({asked.session.user}, Manager, Users)

\* Where a task that stayed on the queue is, or will be found.
Tracked ==
  \A t \in steady :
    /\ status[t] \in {"pending", "completed"}
    /\ Assigned[t] = asked.assignee /\ InScope(t)
    /\ pc \in SinceLocked => t \in Shown \/ ~Due(t)
    /\ pc \in SinceScheduled => t \in Shown \/ t \in scheduled \/ status[t] = "completed"
    /\ pc \in SinceCompleted => t \in Shown \/ t \in scheduled \/ t \in completed

\* What each query would answer now.
ActiveNow ==
  \/ asked.assignee = asked.session.user /\ active \in Leaders(DueNow)
  \/ (asked.assignee # asked.session.user \/ DueNow = {}) /\ active = None

LockedNow ==
  \/ DueNow = {} /\ locked = {}
  \/ \E l \in Leaders(DueNow) :
       locked = {[task |-> t, isActive |-> Segment[t] = Segment[l]] : t \in DueNow \ {active}}

SegmentsNow == [s \in Segments |-> Cardinality({t \in DueNow \ {active} : Segment[t] = s})]
ScheduledNow == {t \in Visible : status[t] = "pending" /\ t \in later}
CompletedNow == {t \in Visible : status[t] = "completed"}

Snapshot ==
  commits = 0 =>
    /\ pc \in SinceActive => ActiveNow
    /\ pc \in SinceCounter => counter = Cardinality(DueNow)
    /\ pc \in SinceSegments => segments = SegmentsNow
    /\ pc \in SinceLocked => LockedNow
    /\ pc \in SinceScheduled => scheduled = ScheduledNow
    /\ pc \in SinceCompleted => completed = CompletedNow

QueueInv == TypeOK /\ Unread /\ Tracked /\ Snapshot

-----------------------------------------------------------------------------
(* What the steps may change.                                              *)

\* The commands of partners, the daily job, other programs and midnight.
Command ==
  \/ Midnight
  \/ \E t \in Tasks :
       \/ \E u \in Users : CreateTask(t, {u}) \/ Reassign(t, {u})
       \/ Execute(t) \/ PutOff(t) \/ CloseTask(t)

LEMMA NextCases ==
  Next <=> \/ \E session \in Sessions, selected \in Users \cup {None} : Ask(session, selected)
           \/ Read \/ Finish \/ Command
  BY DEF Next, Command

\* Any part of the tasks can be counted, and is no more than all of them.
LEMMA SomeTasks ==
  ASSUME NEW S \in SUBSET Tasks
  PROVE IsFiniteSet(S) /\ Cardinality(S) \in 0 .. Cardinality(Tasks)
<1>1. IsFiniteSet(S) /\ Cardinality(S) <= Cardinality(Tasks) BY FS_Subset, QueueAssumption
<1>2. Cardinality(S) \in Nat /\ Cardinality(Tasks) \in Nat
  BY <1>1, FS_CardinalityType, QueueAssumption
<1> QED BY <1>1, <1>2

\* A command leaves the request and its answer alone, counts as a commit under
\* it, and moves a task it leaves on the queue from due to put off to completed.
LEMMA CommandEffect ==
  ASSUME TypeOK, \A t \in steady : status[t] # "none", Command
  PROVE /\ UNCHANGED reader /\ steady' \subseteq steady
        /\ commits' = IF pc = "idle" THEN 0 ELSE commits + 1
        /\ pc # "idle" => commits < MaxCommits
        /\ \A t \in steady' : /\ owners'[t] = owners[t]
                              /\ status[t] = "completed" => status'[t] = "completed"
                              /\ status[t] = "pending" => status'[t] \in {"pending", "completed"}
                              /\ t \in later => t \in later' \/ status'[t] = "completed"
<1> USE DEF Commit, TypeOK
<1>1. CASE Midnight BY <1>1 DEF Midnight
<1>2. CASE \E t \in Tasks, u \in Users : CreateTask(t, {u})
  BY <1>2 DEF CreateTask
<1>3. CASE \E t \in Tasks, u \in Users : Reassign(t, {u})
  BY <1>3 DEF Reassign
<1>4. CASE \E t \in Tasks : Execute(t)
  BY <1>4 DEF Execute
<1>5. CASE \E t \in Tasks : PutOff(t)
  BY <1>5 DEF PutOff
<1>6. CASE \E t \in Tasks : CloseTask(t)
  BY <1>6 DEF CloseTask
<1> QED BY <1>1, <1>2, <1>3, <1>4, <1>5, <1>6 DEF Command

-----------------------------------------------------------------------------
(* Types.                                                                  *)
LEMMA TypesInitially == Init => TypeOK
<1>1. Cardinality(Tasks) \in Nat BY FS_CardinalityType, QueueAssumption
<1> QED BY <1>1, QueueAssumption DEF Init, TypeOK

LEMMA TypesKept ==
  ASSUME TypeOK, Unread, [Next]_vars
  PROVE TypeOK'
<1>n. Cardinality(Tasks) \in Nat BY FS_CardinalityType, QueueAssumption
<1>d. DueNow \subseteq Tasks BY DEF DueNow, Visible
<1>1. ASSUME NEW session \in Sessions, NEW selected \in Users \cup {None}, Ask(session, selected)
      PROVE TypeOK'
  BY <1>1, QueueAssumption DEF TypeOK, Ask, database, answer
<1>2. CASE ReadActive
  <2>1. locked = {} BY <1>2 DEF ReadActive, Advance, Unread, SinceLocked, SinceActive
  <2>2. active' \in Tasks \cup {None} BY <1>2, <1>d DEF ReadActive, Leaders
  <2> QED BY <1>2, <2>1, <2>2 DEF TypeOK, ReadActive, Advance, database
<1>3. CASE ReadCounter
  <2>1. counter' \in 0 .. Cardinality(Tasks) BY <1>3, <1>d, SomeTasks DEF ReadCounter
  <2> QED BY <1>3, <2>1 DEF TypeOK, ReadCounter, Advance, database
<1>4. CASE ReadSegments
  <2>1. \A s \in Segments :
          Cardinality({t \in DueNow \ {active} : Segment[t] = s}) \in 0 .. Cardinality(Tasks)
    BY <1>d, SomeTasks
  <2>2. segments' \in [Segments -> 0 .. Cardinality(Tasks)] BY <1>4, <2>1 DEF ReadSegments
  <2> QED BY <1>4, <2>2 DEF TypeOK, ReadSegments, Advance, database
<1>5. CASE ReadLocked
  <2>1. ASSUME NEW card \in locked'
        PROVE card.task \in Tasks \ {active} /\ card.isActive \in BOOLEAN
    <3>1. \E l \in Leaders(DueNow), t \in DueNow \ {active} :
            card = [task |-> t, isActive |-> Segment[t] = Segment[l]]
      BY <1>5, <2>1 DEF ReadLocked
    <3>2. \A l, t : (Segment[t] = Segment[l]) \in BOOLEAN BY Zenon
    <3> QED BY <3>1, <3>2, <1>d
  <2> QED BY <1>5, <2>1 DEF TypeOK, ReadLocked, Advance, database
<1>6. CASE ReadScheduled
  BY <1>6 DEF TypeOK, ReadScheduled, Advance, database, Visible
<1>7. CASE ReadCompleted
  BY <1>7 DEF TypeOK, ReadCompleted, Advance, database, Visible
<1>8. CASE Finish
  BY <1>8, <1>n, QueueAssumption DEF TypeOK, Finish, database
<1>9. CASE Midnight
  BY <1>9, QueueAssumption DEF TypeOK, Midnight, Commit, reader, answer
<1>10. ASSUME NEW t \in Tasks, NEW u \in Users, CreateTask(t, {u}) PROVE TypeOK'
  BY <1>10, QueueAssumption DEF TypeOK, CreateTask, Commit, reader, answer
<1>11. ASSUME NEW t \in Tasks, NEW u \in Users, Reassign(t, {u}) PROVE TypeOK'
  BY <1>11, QueueAssumption DEF TypeOK, Reassign, Commit, reader, answer
<1>12. ASSUME NEW t \in Tasks, Execute(t) PROVE TypeOK'
  BY <1>12, QueueAssumption DEF TypeOK, Execute, Commit, reader, answer
<1>13. ASSUME NEW t \in Tasks, PutOff(t) PROVE TypeOK'
  BY <1>13, QueueAssumption DEF TypeOK, PutOff, Accepted, Commit, reader, answer
<1>14. ASSUME NEW t \in Tasks, CloseTask(t) PROVE TypeOK'
  BY <1>14, QueueAssumption DEF TypeOK, CloseTask, Commit, reader, answer
<1>15. CASE UNCHANGED vars
  BY <1>15 DEF TypeOK, vars, database, reader, answer
<1> QED BY <1>1, <1>2, <1>3, <1>4, <1>5, <1>6, <1>7, <1>8, <1>9, <1>10, <1>11, <1>12, <1>13,
           <1>14, <1>15 DEF Next, Read

-----------------------------------------------------------------------------
(* The order of the queries.                                               *)
LEMMA UnreadKept ==
  ASSUME Unread, [Next]_vars
  PROVE Unread'
<1> USE DEF SinceActive, SinceCounter, SinceSegments, SinceLocked, SinceScheduled, SinceCompleted
<1>1. ASSUME NEW session \in Sessions, NEW selected \in Users \cup {None}, Ask(session, selected)
      PROVE Unread'
  BY <1>1 DEF Unread, Ask, database, answer
<1>2. CASE Read
  BY <1>2 DEF Unread, Read, ReadActive, ReadCounter, ReadSegments, ReadLocked, ReadScheduled,
    ReadCompleted, Advance, database
<1>3. CASE Finish
  BY <1>3 DEF Unread, Finish
<1>4. ASSUME Command PROVE Unread'
  <2>1. UNCHANGED reader /\ commits' = (IF pc = "idle" THEN 0 ELSE commits + 1)
        /\ steady' \subseteq steady
    BY <1>4 DEF Command, Midnight, CreateTask, Reassign, Execute, PutOff, CloseTask, Commit
  <2> QED BY <2>1 DEF Unread, reader, answer
<1>5. CASE UNCHANGED vars
  BY <1>5 DEF Unread, vars, reader, answer
<1> QED BY <1>1, <1>2, <1>3, <1>4, <1>5, NextCases

-----------------------------------------------------------------------------
(* A task that stays on the queue does not slip between two queries.       *)

LEMMA TrackedKept ==
  ASSUME TypeOK, Unread, Tracked, [Next]_vars
  PROVE Tracked'
<1> USE DEF SinceActive, SinceCounter, SinceSegments, SinceLocked, SinceScheduled, SinceCompleted
<1> DEFINE On(t) == status[t] \in {"pending", "completed"} /\ Assigned[t] = asked.assignee
                    /\ InScope(t)
<1>t. steady \subseteq Tasks BY DEF TypeOK
<1>s. \A t \in steady : On(t) BY DEF Tracked
<1>1. ASSUME NEW session \in Sessions, NEW selected \in Users \cup {None}, Ask(session, selected)
      PROVE Tracked'
  BY <1>1 DEF Tracked, Ask, database, InScope
<1>2. CASE ReadActive \/ ReadCounter \/ ReadSegments
  <2>1. /\ UNCHANGED <<database, asked, steady>>
        /\ pc' \notin SinceLocked
    BY <1>2 DEF ReadActive, ReadCounter, ReadSegments, Advance
  <2> QED BY <2>1, <1>s DEF Tracked, database, InScope
<1>3. CASE ReadLocked
  <2>1. UNCHANGED <<database, asked, steady, active>> /\ pc' = "scheduled"
    BY <1>3 DEF ReadLocked, Advance
  <2>2. ASSUME NEW t \in steady, Due(t) PROVE t \in Shown'
    <3>1. t \in DueNow BY <2>2, <1>t, <1>s DEF DueNow, Visible
    <3>2. CASE t = active BY <3>2, <2>1, <1>t, QueueAssumption DEF Shown
    <3>3. CASE t # active
      <4>1. PICK l \in Leaders(DueNow) :
              locked' = {[task |-> u, isActive |-> Segment[u] = Segment[l]] : u \in DueNow \ {active}}
        BY <1>3, <3>1 DEF ReadLocked
      <4> DEFINE card == [task |-> t, isActive |-> Segment[t] = Segment[l]]
      <4>2. card \in locked' /\ card.task = t BY <4>1, <3>1, <3>3
      <4> HIDE DEF card
      <4> QED BY <4>2 DEF Shown
    <3> QED BY <3>2, <3>3
  <2>3. \A t \in steady : Due(t)' <=> Due(t) BY <2>1 DEF Due, database
  <2>4. \A t \in steady : On(t)' BY <1>s, <2>1 DEF database, InScope
  <2> QED BY <2>1, <2>2, <2>3, <2>4 DEF Tracked
<1>4. CASE ReadScheduled
  <2>1. /\ UNCHANGED <<database, asked, steady, active, locked>> /\ pc = "scheduled"
        /\ pc' = "completed" /\ scheduled' = ScheduledNow
    BY <1>4 DEF ReadScheduled, Advance, ScheduledNow
  <2>2. Shown' = Shown BY <2>1 DEF Shown
  <2>3. ASSUME NEW t \in steady, t \notin Shown, status[t] # "completed" PROVE t \in scheduled'
    BY <2>1, <2>3, <1>t, <1>s DEF Tracked, Due, ScheduledNow, Visible
  <2>4. \A t \in steady : On(t)' BY <1>s, <2>1 DEF database, InScope
  <2>5. \A t \in steady : t \in Shown \/ ~Due(t) BY <2>1 DEF Tracked
  <2>6. \A t \in steady : Due(t)' <=> Due(t) BY <2>1 DEF Due, database
  <2> QED BY <2>1, <2>2, <2>3, <2>4, <2>5, <2>6 DEF Tracked, database
<1>5. CASE ReadCompleted
  <2>1. /\ UNCHANGED <<database, asked, steady, active, locked, scheduled>> /\ pc = "completed"
        /\ pc' = "answered" /\ completed' = CompletedNow
    BY <1>5 DEF ReadCompleted, Advance, CompletedNow
  <2>2. Shown' = Shown BY <2>1 DEF Shown
  <2>3. \A t \in steady : status[t] = "completed" => t \in completed'
    BY <2>1, <1>t, <1>s DEF CompletedNow, Visible
  <2>4. \A t \in steady : On(t)' BY <1>s, <2>1 DEF database, InScope
  <2>5. \A t \in steady : Due(t)' <=> Due(t) BY <2>1 DEF Due, database
  <2>6. \A t \in steady : /\ t \in Shown \/ ~Due(t)
                          /\ t \in Shown \/ t \in scheduled \/ status[t] = "completed"
    BY <2>1 DEF Tracked
  <2> QED BY <2>1, <2>2, <2>3, <2>4, <2>5, <2>6 DEF Tracked, database
<1>6. CASE Finish
  BY <1>6 DEF Finish, Tracked
<1>7. CASE Command
  <2>1. \A t \in steady : status[t] # "none" BY <1>s
  <2>2. /\ UNCHANGED reader /\ steady' \subseteq steady
        /\ \A t \in steady' : /\ owners'[t] = owners[t]
                              /\ status[t] = "completed" => status'[t] = "completed"
                              /\ status[t] = "pending" => status'[t] \in {"pending", "completed"}
                              /\ t \in later => t \in later' \/ status'[t] = "completed"
    BY <1>7, <2>1, CommandEffect
  <2>3. Shown' = Shown BY <2>2 DEF Shown, reader, answer
  <2>4. \A t \in steady' : On(t)' BY <1>s, <2>2 DEF reader, InScope
  <2>5. \A t \in steady' : ~Due(t) => ~Due(t)' BY <1>s, <2>2 DEF Due
  <2> QED BY <2>2, <2>3, <2>4, <2>5 DEF Tracked, reader, answer
<1>8. CASE UNCHANGED vars
  <2>1. Shown' = Shown BY <1>8 DEF Shown, vars, reader, answer
  <2> QED BY <1>8, <2>1 DEF Tracked, Due, InScope, vars, database, reader, answer
<1> QED BY <1>1, <1>2, <1>3, <1>4, <1>5, <1>6, <1>7, <1>8, NextCases DEF Read

-----------------------------------------------------------------------------
(* While nothing was committed, what was read is what is there.            *)

\* With the database, the request and the first answer unchanged, every query
\* would answer what it would have answered before.
LEMMA SameAnswers ==
  ASSUME UNCHANGED <<database, asked, active>>
  PROVE /\ Visible' = Visible /\ DueNow' = DueNow /\ SegmentsNow' = SegmentsNow
        /\ ScheduledNow' = ScheduledNow /\ CompletedNow' = CompletedNow
        /\ ActiveNow' <=> ActiveNow
        /\ locked' = locked => (LockedNow' <=> LockedNow)
<1> USE DEF database
<1>1. Visible' = Visible BY DEF Visible, InScope
<1>2. DueNow' = DueNow BY <1>1 DEF DueNow, Due
<1>3. SegmentsNow' = SegmentsNow BY <1>2 DEF SegmentsNow
<1>4. ScheduledNow' = ScheduledNow /\ CompletedNow' = CompletedNow
  BY <1>1 DEF ScheduledNow, CompletedNow
<1>5. ActiveNow' <=> ActiveNow BY <1>2 DEF ActiveNow, Leaders
<1>6. locked' = locked => (LockedNow' <=> LockedNow) BY <1>2 DEF LockedNow, Leaders
<1> QED BY <1>1, <1>2, <1>3, <1>4, <1>5, <1>6

LEMMA SnapshotKept ==
  ASSUME TypeOK, Unread, Tracked, Snapshot, [Next]_vars
  PROVE Snapshot'
<1> USE DEF SinceActive, SinceCounter, SinceSegments, SinceLocked, SinceScheduled, SinceCompleted
<1>1. ASSUME NEW session \in Sessions, NEW selected \in Users \cup {None}, Ask(session, selected)
      PROVE Snapshot'
  BY <1>1 DEF Snapshot, Ask
<1>2. CASE ReadActive
  <2>1. UNCHANGED <<database, asked>> /\ pc' = "counter" BY <1>2 DEF ReadActive, Advance
  <2>2. DueNow' = DueNow BY <2>1 DEF DueNow, Due, Visible, InScope, database
  <2>3. ActiveNow' BY <1>2, <2>1, <2>2 DEF ReadActive, ActiveNow, Leaders
  <2> QED BY <2>1, <2>3 DEF Snapshot
<1>3. CASE ReadCounter
  <2>1. /\ UNCHANGED <<database, asked, active, commits>> /\ pc = "counter" /\ pc' = "segments"
        /\ counter' = Cardinality(DueNow)
    BY <1>3 DEF ReadCounter, Advance
  <2> QED BY <2>1, SameAnswers DEF Snapshot
<1>4. CASE ReadSegments
  <2>1. /\ UNCHANGED <<database, asked, active, commits, counter>> /\ pc = "segments"
        /\ pc' = "locked" /\ segments' = SegmentsNow
    BY <1>4 DEF ReadSegments, Advance, SegmentsNow
  <2> QED BY <2>1, SameAnswers DEF Snapshot
<1>5. CASE ReadLocked
  <2>1. /\ UNCHANGED <<database, asked, active, commits, counter, segments>> /\ pc = "locked"
        /\ pc' = "scheduled"
    BY <1>5 DEF ReadLocked, Advance
  <2>2. LockedNow' BY <1>5, <2>1, SameAnswers DEF ReadLocked, LockedNow, Leaders
  <2> QED BY <2>1, <2>2, SameAnswers DEF Snapshot
<1>6. CASE ReadScheduled
  <2>1. /\ UNCHANGED <<database, asked, active, commits, counter, segments, locked>>
        /\ pc = "scheduled" /\ pc' = "completed" /\ scheduled' = ScheduledNow
    BY <1>6 DEF ReadScheduled, Advance, ScheduledNow
  <2> QED BY <2>1, SameAnswers DEF Snapshot
<1>7. CASE ReadCompleted
  <2>1. /\ UNCHANGED <<database, asked, active, commits, counter, segments, locked, scheduled>>
        /\ pc = "completed" /\ pc' = "answered" /\ completed' = CompletedNow
    BY <1>7 DEF ReadCompleted, Advance, CompletedNow
  <2> QED BY <2>1, SameAnswers DEF Snapshot
<1>8. CASE Finish
  BY <1>8 DEF Finish, Snapshot
<1>9. CASE Command
  <2>1. UNCHANGED reader /\ commits' = (IF pc = "idle" THEN 0 ELSE commits + 1)
    BY <1>9 DEF Command, Midnight, CreateTask, Reassign, Execute, PutOff, CloseTask, Commit
  <2>2. CASE pc = "idle" BY <2>1, <2>2 DEF Snapshot, reader
  <2>3. CASE pc # "idle"
    <3>1. commits' # 0 BY <2>1, <2>3, QueueAssumption DEF TypeOK
    <3> QED BY <3>1 DEF Snapshot
  <2> QED BY <2>2, <2>3
<1>10. CASE UNCHANGED vars
  BY <1>10, SameAnswers DEF Snapshot, vars, reader, answer
<1> QED BY <1>1, <1>2, <1>3, <1>4, <1>5, <1>6, <1>7, <1>8, <1>9, <1>10, NextCases DEF Read

THEOREM QueueInvariant == Spec => []QueueInv
<1>1. Init => QueueInv
  <2> SUFFICES ASSUME Init PROVE QueueInv OBVIOUS
  <2>1. Unread
    BY DEF Init, Unread, SinceActive, SinceLocked
  <2>2. Tracked BY DEF Init, Tracked
  <2>3. Snapshot
    BY DEF Init, Snapshot, SinceActive, SinceCounter, SinceSegments, SinceLocked, SinceScheduled,
      SinceCompleted
  <2> QED BY <2>1, <2>2, <2>3, TypesInitially DEF QueueInv
<1>2. QueueInv /\ [Next]_vars => QueueInv'
  BY TypesKept, UnreadKept, TrackedKept, SnapshotKept DEF QueueInv
<1> QED BY <1>1, <1>2, PTL DEF Spec

(* The answer, the database and the history have the right types.          *)
THEOREM QueueTypes == Spec => []TypeOK
<1>1. QueueInv => TypeOK BY DEF QueueInv
<1> QED BY <1>1, QueueInvariant, PTL

(***************************************************************************)
(* Whatever is committed between the queries, a task that stayed on the    *)
(* queue is in a group of the answer (activities.service.ts, 105-155).     *)
(***************************************************************************)
THEOREM NoTaskIsMissed == Spec => []NothingMissed
<1>1. QueueInv => NothingMissed BY DEF QueueInv, Tracked, SinceCompleted, NothingMissed
<1> QED BY <1>1, QueueInvariant, PTL

-----------------------------------------------------------------------------
(* An answer nothing was committed under.                                  *)

\* The cards and the active task show what is due, each task once.
LEMMA ShownIsDue ==
  ASSUME ActiveNow, LockedNow
  PROVE /\ {card.task : card \in locked} = DueNow \ {active}
        /\ Shown = DueNow
<1>d. DueNow \subseteq Tasks BY DEF DueNow, Visible
<1>1. active = None \/ active \in DueNow BY DEF ActiveNow, Leaders
<1>2. {card.task : card \in locked} = DueNow \ {active}
  <2>1. CASE DueNow = {} /\ locked = {} BY <2>1
  <2>2. ASSUME NEW l \in Leaders(DueNow),
               locked = {[task |-> t, isActive |-> Segment[t] = Segment[l]] : t \in DueNow \ {active}}
        PROVE {card.task : card \in locked} = DueNow \ {active}
    <3> DEFINE Card(t) == [task |-> t, isActive |-> Segment[t] = Segment[l]]
    <3>1. \A t : Card(t).task = t OBVIOUS
    <3>2. locked = {Card(t) : t \in DueNow \ {active}} BY <2>2
    <3> HIDE DEF Card
    <3> QED BY <3>1, <3>2
  <2> QED BY <2>1, <2>2 DEF LockedNow
<1> QED BY <1>d, <1>1, <1>2, QueueAssumption DEF Shown

\* The cards of the tasks of T, marked by the segment of l.
Cards(T, l) == {[task |-> t, isActive |-> Segment[t] = Segment[l]] : t \in T}

\* The cards and the tasks of one segment.
CardsOf(s) == {card \in locked : Segment[card.task] = s}
TasksOf(T, s) == {t \in T : Segment[t] = s}

\* Of a group of tasks there are as many cards as tasks.
LEMMA CardsCountTasks ==
  ASSUME NEW l, NEW T \in SUBSET Tasks, NEW s,
         locked = Cards(T, l)
  PROVE Cardinality(CardsOf(s)) = Cardinality(TasksOf(T, s))
<1> DEFINE Card(t) == [task |-> t, isActive |-> Segment[t] = Segment[l]]
           Q == TasksOf(T, s)
           C == CardsOf(s)
           f == [t \in Q |-> Card(t)]
<1>1. \A t : Card(t).task = t OBVIOUS
<1>2. locked = {Card(t) : t \in T} BY DEF Cards
<1> HIDE DEF Card
<1>3. C = {Card(t) : t \in Q} BY <1>1, <1>2 DEF CardsOf, TasksOf
<1>4. f \in Bijection(Q, C)
  <2>1. f \in [Q -> C] BY <1>3
  <2>2. \A a, b \in Q : f[a] = f[b] => a = b BY <1>1
  <2>3. \A c \in C : \E a \in Q : f[a] = c BY <1>3
  <2> HIDE DEF f, C, Q
  <2> QED BY <2>1, <2>2, <2>3 DEF Bijection, Injection, Surjection, IsInjective
<1>5. IsFiniteSet(Q) BY SomeTasks DEF TasksOf
<1>6. ExistsBijection(Q, C) BY <1>4 DEF ExistsBijection
<1> QED BY <1>5, <1>6, FS_Bijection

\* Tasks as far ahead as each other are of one segment, so whichever of them a
\* query finds, the same tasks may be executed.
LEMMA LeadersAlike ==
  ASSUME NEW S \in SUBSET Tasks, NEW k \in Leaders(S), NEW l \in Leaders(S)
  PROVE Segment[k] = Segment[l]
<1>1. k \in Tasks /\ l \in Tasks /\ Rank[k] <= Rank[l] /\ Rank[l] <= Rank[k] BY DEF Leaders
<1>2. Rank[k] \in Nat /\ Rank[l] \in Nat BY <1>1, QueueAssumption
<1>3. Rank[k] = Rank[l] BY <1>1, <1>2
<1> QED BY <1>1, <1>3, QueueAssumption

\* What is due on the own queue is all that is due for the viewer.
LEMMA OwnDue ==
  ASSUME QueueInv, OwnQueue
  PROVE /\ DueNow = {u \in Tasks : Due(u) /\ Assigned[u] = asked.session.user}
        /\ ActiveNow /\ LockedNow /\ asked.assignee = asked.session.user
        /\ DueNow # {} => active \in Leaders(DueNow) /\ active # None
<1>1. ActiveNow /\ LockedNow
  BY DEF QueueInv, Snapshot, OwnQueue, SinceActive, SinceLocked
<1>2. asked.assignee = asked.session.user BY DEF OwnQueue
<1>3. DueNow = {u \in Tasks : Due(u) /\ Assigned[u] = asked.session.user}
  BY <1>2 DEF DueNow, Visible, OwnQueue
<1>4. DueNow # {} => active \in Leaders(DueNow) BY <1>1, <1>2 DEF ActiveNow
<1>5. Leaders(DueNow) \subseteq Tasks BY <1>3 DEF Leaders
<1> QED BY <1>1, <1>2, <1>3, <1>4, <1>5, QueueAssumption

\* A card is flagged when a leader of the queue is of its segment.
LEMMA FlaggedIsAccepted ==
  ASSUME QueueInv, OwnQueue, NEW t \in Shown
  PROVE t \in Flagged <=> Accepted(t)
<1>1. /\ DueNow = {u \in Tasks : Due(u) /\ Assigned[u] = asked.session.user}
      /\ ActiveNow /\ LockedNow
      /\ DueNow # {} => active \in Leaders(DueNow) /\ active # None
  BY OwnDue
<1>2. t \in DueNow /\ DueNow \in SUBSET Tasks BY <1>1, ShownIsDue
<1>3. active \in Leaders(DueNow) /\ active # None BY <1>1, <1>2
<1>4. Accepted(t) <=> \E l \in Leaders(DueNow) : Segment[l] = Segment[t]
  <2>1. status[t] = "pending" /\ t \notin later /\ Assigned[t] = asked.session.user
    BY <1>1, <1>2 DEF Due
  <2>2. DueNow = {u \in Tasks : Due(u) /\ Assigned[u] = Assigned[t]} BY <1>1, <2>1
  <2> QED BY <2>1, <2>2 DEF Accepted
<1>5. Accepted(t) <=> Segment[t] = Segment[active] BY <1>2, <1>3, <1>4, LeadersAlike
<1>6. CASE t = active BY <1>3, <1>5, <1>6 DEF Flagged
<1>7. CASE t # active
  <2>1. PICK l \in Leaders(DueNow) :
          locked = {[task |-> u, isActive |-> Segment[u] = Segment[l]] : u \in DueNow \ {active}}
    BY <1>1, <1>2 DEF LockedNow
  <2> DEFINE Card(u) == [task |-> u, isActive |-> Segment[u] = Segment[l]]
  <2>2. \A u : Card(u).task = u /\ (Card(u).isActive <=> Segment[u] = Segment[l]) OBVIOUS
  <2>3. locked = {Card(u) : u \in DueNow \ {active}} BY <2>1
  <2> HIDE DEF Card
  <2>4. t \in Flagged <=> \E c \in locked : c.isActive /\ c.task = t BY <1>7 DEF Flagged
  <2>5. t \in Flagged <=> Card(t).isActive BY <1>2, <1>7, <2>2, <2>3, <2>4
  <2>6. Segment[l] = Segment[active] BY <1>2, <1>3, LeadersAlike
  <2> QED BY <1>5, <2>2, <2>5, <2>6
<1> QED BY <1>6, <1>7

(***************************************************************************)
(* An answer nothing was committed under is a snapshot, its counters count *)
(* its cards, and its cards are marked as the commands will treat them     *)
(* (activities.service.ts, 105-155).                                       *)
(***************************************************************************)
THEOREM QuietAnswersAreExact == Spec => []QuietAnswerExact
<1>1. ASSUME QueueInv, pc = "answered", commits = 0
      PROVE /\ Shown \cap (scheduled \cup completed) = {} /\ scheduled \cap completed = {}
            /\ counter = Cardinality(Shown)
            /\ \A s \in Segments : segments[s] =
                 Cardinality({card \in locked : Segment[card.task] = s})
  <2>1. /\ ActiveNow /\ LockedNow /\ counter = Cardinality(DueNow) /\ segments = SegmentsNow
        /\ scheduled = ScheduledNow /\ completed = CompletedNow
    BY <1>1 DEF QueueInv, Snapshot, SinceActive, SinceCounter, SinceSegments, SinceLocked,
      SinceScheduled, SinceCompleted
  <2>2. Shown = DueNow /\ DueNow \in SUBSET Tasks BY <2>1, ShownIsDue DEF DueNow, Visible
  <2>3. Shown \cap (scheduled \cup completed) = {} /\ scheduled \cap completed = {}
    BY <2>1, <2>2 DEF DueNow, Due, ScheduledNow, CompletedNow
  <2>4. ASSUME NEW s \in Segments
        PROVE segments[s] = Cardinality({card \in locked : Segment[card.task] = s})
    <3>1. segments[s] = Cardinality({t \in DueNow \ {active} : Segment[t] = s})
      BY <2>1 DEF SegmentsNow
    <3>2. CASE DueNow = {} /\ locked = {}
      <4>1. {t \in DueNow \ {active} : Segment[t] = s} = {}
            /\ {card \in locked : Segment[card.task] = s} = {}
        BY <3>2
      <4> QED BY <3>1, <4>1
    <3>3. ASSUME NEW l \in Leaders(DueNow),
                 locked = {[task |-> t, isActive |-> Segment[t] = Segment[l]] : t \in DueNow \ {active}}
          PROVE segments[s] = Cardinality(CardsOf(s))
      <4> DEFINE T == DueNow \ {active}
      <4>1. T \in SUBSET Tasks BY <2>2
      <4>2. locked = Cards(T, l) BY <3>3 DEF Cards
      <4>3. segments[s] = Cardinality(TasksOf(T, s)) BY <3>1 DEF TasksOf
      <4> HIDE DEF T
      <4> QED BY <4>1, <4>2, <4>3, CardsCountTasks
    <3> QED BY <2>1, <3>2, <3>3 DEF LockedNow, CardsOf
  <2> QED BY <2>1, <2>2, <2>3, <2>4
<1>2. QueueInv => QuietAnswerExact BY <1>1, FlaggedIsAccepted DEF QuietAnswerExact
<1> QED BY <1>2, QueueInvariant, PTL

(***************************************************************************)
(* Who is kept from simulating or creating finds the tasks that block, and *)
(* one to act on whose instalment opens                                    *)
(* (quote-activity-permissions.service.ts, 64-107).                        *)
(***************************************************************************)
THEOREM GatesAreExplained == Spec => []GateExplained
<1>1. ASSUME QueueInv, OwnQueue PROVE GateExplained
  <2> DEFINE gates == Gates(asked.session)
             blocking == {Segment[t] : t \in DueNow} \cap CreationBlocking
             segs == {Segment[t] : t \in Shown}
             subtree == Subtree({asked.session.user}, Manager, Users)
  <2>1. /\ DueNow = {u \in Tasks : Due(u) /\ Assigned[u] = asked.session.user}
        /\ ActiveNow /\ LockedNow
        /\ DueNow # {} => active \in Leaders(DueNow) /\ active # None
    BY <1>1, OwnDue
  <2>2. Shown = DueNow BY <2>1, ShownIsDue
  <2>3. ~gates.simulate => blocking \cap SimulationBlocking # {} BY <2>1 DEF Gates
  <2>4. ~gates.create => blocking # {} BY <2>1 DEF Gates
  <2>5. ASSUME DueNow # {}
        PROVE \E t \in Flagged :
                CanViewContract(asked.session.permissions, ViewAll, owners[t], subtree)
    <3>1. active \in Flagged /\ InScope(active)
      BY <2>1, <2>5 DEF Flagged, Leaders, DueNow, Visible
    <3>2. asked.scope = IF SeesAll(asked.session.permissions, ViewAll) THEN Users ELSE subtree
      BY <1>1 DEF QueueInv, Unread, OwnQueue
    <3> HIDE DEF subtree
    <3>3. CanViewContract(asked.session.permissions, ViewAll, owners[active], subtree)
      BY <3>1, <3>2 DEF CanViewContract, InScope, InContractScope, SeesAll
    <3> QED BY <3>1, <3>3
  <2>6. ~gates.create => DueNow # {} BY <2>4
  <2> HIDE DEF gates, subtree
  <2>7. ~gates.simulate => segs \cap SimulationBlocking # {} BY <2>2, <2>3
  <2>8. ~gates.create => segs \cap CreationBlocking # {} BY <2>2, <2>4
  <2> QED BY <2>5, <2>6, <2>7, <2>8 DEF GateExplained, gates, subtree
<1>2. QueueInv => GateExplained BY <1>1 DEF GateExplained
<1> QED BY <1>2, QueueInvariant, PTL
=============================================================================
