----------------------------- MODULE TodayQueue -----------------------------
(***************************************************************************)
(* "Ações de hoje": one answer of getTodayQueue is put together from six   *)
(* queries, each on its own snapshot, while partners act on their tasks,   *)
(* the daily job creates and closes tasks, contracts change hands and      *)
(* midnight passes.  The commands are atomic here; ActivityQueue has their *)
(* statements and their limits.                                            *)
(*                                                                         *)
(* Rank is the place of a task in ORDER BY priority, days overdue,         *)
(* creation.  Tasks of one daily job may tie; those of one stage do.       *)
(***************************************************************************)
EXTENDS Hierarchy

CONSTANTS
  Users, Tasks, None,
  Manager,             \* Manager[u]: who u reports to, None if nobody
  Partners,            \* users of the rollout, as the database has them
  Sessions,            \* [user, permissions] of the tokens in use
  Assigned,            \* Assigned[t]: assigned_to
  Segment, Rank,       \* of a task
  SimulationBlocking,  \* SIMULATION_BLOCKING_SEGMENTS
  CreationBlocking,    \* CREATE_QUOTE_BLOCKING_SEGMENTS
  MaxCommits           \* bound: commits under one answer

ASSUME QueueAssumption ==
  /\ IsFiniteSet(Tasks) /\ None \notin Tasks /\ Rank \in [Tasks -> Nat]
  /\ \A s, t \in Tasks : Rank[s] = Rank[t] => Segment[s] = Segment[t]
  /\ SimulationBlocking \subseteq CreationBlocking
  /\ MaxCommits \in Nat

VARIABLES
  status,     \* "pending", "completed" today, or "none" (not created, closed, another day)
  later,      \* pending tasks with an expire_date after today
  owners,     \* owners[t]: consultant and collection agent of the contract of t
  pc, asked,  \* the query that comes next; session, assignee and scope of the request
  active, counter, segments, locked, scheduled, completed,  \* the answer so far
  commits,    \* history: how many there were since the request
  steady      \* history: tasks that have been on the queue since the request

database == <<status, later, owners>>
answer == <<active, counter, segments, locked, scheduled, completed>>
reader == <<pc, asked, answer>>
vars == <<database, reader, commits, steady>>

Segments == {Segment[t] : t \in Tasks}
ViewAll == {"INSTALLMENT_VIEW_ALL", Support}
NoRequest == [session |-> None, assignee |-> None, scope |-> {}]

Due(t) == status[t] = "pending" /\ t \notin later

\* ORDER BY ... LIMIT 1 may return any of these.
Leaders(S) == {t \in S : \A u \in S : Rank[t] <= Rank[u]}

\* Mutant: the segment of any due task is open.
AcceptedWhenDue(t) == status[t] = "pending"

\* assertActionable and assertIsActiveTask for the user t is assigned to: all the
\* due tasks of the user count, whatever contracts the user may see.
Accepted(t) ==
  LET due == {u \in Tasks : Due(u) /\ Assigned[u] = Assigned[t]}
  IN /\ status[t] = "pending"
     /\ t \in later \/ \E l \in Leaders(due) : Segment[l] = Segment[t]

\* Mutant: a task that was put off still blocks.
GatesWithPutOff(session) ==
  LET gated == session.permissions \cap {"ROLE_CONSULTANT", "ROLE_COLLECTION_AGENT"} # {}
               /\ "QUOTE_ACTIVITY_GATES" \in session.permissions
      blocking == {Segment[t] : t \in {u \in Tasks : status[u] = "pending" /\ Assigned[u] = session.user}}
                  \cap CreationBlocking
  IN [simulate |-> ~gated \/ blocking \cap SimulationBlocking = {},
      create |-> ~gated \/ blocking = {}]

\* getPermissions, once the date of activation has passed.
Gates(session) ==
  LET gated == session.permissions \cap {"ROLE_CONSULTANT", "ROLE_COLLECTION_AGENT"} # {}
               /\ "QUOTE_ACTIVITY_GATES" \in session.permissions
      blocking == {Segment[t] : t \in {u \in Tasks : Due(u) /\ Assigned[u] = session.user}}
                  \cap CreationBlocking
  IN [simulate |-> ~gated \/ blocking \cap SimulationBlocking = {},
      create |-> ~gated \/ blocking = {}]

-----------------------------------------------------------------------------
InScope(t) == InContractScope(owners[t], asked.scope)

\* at.assigned_to = assignee, within the scope.
Visible == {t \in Tasks : Assigned[t] = asked.assignee /\ InScope(t)}
DueNow == {t \in Visible : Due(t)}

Advance(from, to) == pc = from /\ pc' = to /\ UNCHANGED <<database, asked, commits, steady>>

\* The scope of the viewer and assertCanSelect.  An observer who selects nobody,
\* and a viewer without a subtree, get an empty answer without a query.
Ask(session, selected) ==
  LET subtree == Subtree({session.user}, Manager, Users)
      assignee == IF selected = None THEN session.user ELSE selected
  IN /\ pc = "idle"
     /\ ~(Observer(session.permissions) /\ selected = None)
     /\ CanSelect(session.permissions, assignee, subtree, Partners)
     /\ pc' = "active"
     /\ asked' = [session |-> session, assignee |-> assignee,
                  scope |-> IF SeesAll(session.permissions, ViewAll) THEN Users ELSE subtree]
     /\ commits' = 0
     /\ steady' = {t \in Tasks : /\ status[t] \in {"pending", "completed"}
                                 /\ Assigned[t] = assignee
                                 /\ InContractScope(owners[t], asked'.scope)}
     /\ UNCHANGED <<database, answer>>

\* The task recommended to the viewer; nobody else has one.
ReadActive ==
  /\ Advance("active", "counter")
  /\ \/ /\ asked.assignee = asked.session.user
        /\ \E l \in Leaders(DueNow) : active' = l
     \/ /\ asked.assignee # asked.session.user \/ DueNow = {}
        /\ active' = None
  /\ UNCHANGED <<counter, segments, locked, scheduled, completed>>

ReadCounter ==
  /\ Advance("counter", "segments")
  /\ counter' = Cardinality(DueNow)
  /\ UNCHANGED <<active, segments, locked, scheduled, completed>>

ReadSegments ==
  /\ Advance("segments", "locked")
  /\ segments' = [s \in Segments |-> Cardinality({t \in DueNow \ {active} : Segment[t] = s})]
  /\ UNCHANGED <<active, counter, locked, scheduled, completed>>

\* Mutant: the page leaves out the leader it finds, not the task shown as active.
ReadLockedButLeader ==
  /\ Advance("locked", "scheduled")
  /\ \/ DueNow = {} /\ locked' = {}
     \/ \E l \in Leaders(DueNow) :
          locked' = {[task |-> t, isActive |-> Segment[t] = Segment[l]] : t \in DueNow \ {l}}
  /\ UNCHANGED <<active, counter, segments, scheduled, completed>>

\* A page that holds all the others; is_active tells the segment of the leader.
ReadLocked ==
  /\ Advance("locked", "scheduled")
  /\ \/ DueNow = {} /\ locked' = {}
     \/ \E l \in Leaders(DueNow) :
          locked' = {[task |-> t, isActive |-> Segment[t] = Segment[l]] : t \in DueNow \ {active}}
  /\ UNCHANGED <<active, counter, segments, scheduled, completed>>

ReadScheduled ==
  /\ Advance("scheduled", "completed")
  /\ scheduled' = {t \in Visible : status[t] = "pending" /\ t \in later}
  /\ UNCHANGED <<active, counter, segments, locked, completed>>

ReadCompleted ==
  /\ Advance("completed", "answered")
  /\ completed' = {t \in Visible : status[t] = "completed"}
  /\ UNCHANGED <<active, counter, segments, locked, scheduled>>

Finish ==
  /\ pc = "answered"
  /\ pc' = "idle" /\ asked' = NoRequest
  /\ active' = None /\ counter' = 0 /\ segments' = [s \in Segments |-> 0]
  /\ locked' = {} /\ scheduled' = {} /\ completed' = {}
  /\ commits' = 0 /\ steady' = {}
  /\ UNCHANGED database
-----------------------------------------------------------------------------
\* A commit between two queries; the tasks in lost leave the queue of the request.
Commit(lost) ==
  /\ pc # "idle" => commits < MaxCommits
  /\ commits' = IF pc = "idle" THEN 0 ELSE commits + 1
  /\ steady' = steady \ lost
  /\ UNCHANGED reader

CreateTask(t, o) ==
  /\ status[t] = "none"
  /\ status' = [status EXCEPT ![t] = "pending"]
  /\ owners' = [owners EXCEPT ![t] = o]
  /\ UNCHANGED later
  /\ Commit({})

\* Mutant: a task executed ahead of its date stays scheduled.
ExecuteKeepingDate(t) ==
  /\ Accepted(t)
  /\ status' = [status EXCEPT ![t] = "completed"]
  /\ UNCHANGED <<owners, later>>
  /\ Commit({})

\* registerInteraction.
Execute(t) ==
  /\ Accepted(t)
  /\ status' = [status EXCEPT ![t] = "completed"]
  /\ later' = later \ {t}
  /\ UNCHANGED owners
  /\ Commit({})

\* postpone, reschedule.
PutOff(t) ==
  /\ Accepted(t)
  /\ later' = later \cup {t}
  /\ UNCHANGED <<status, owners>>
  /\ Commit({})

CloseTask(t) ==
  /\ status[t] = "pending"
  /\ status' = [status EXCEPT ![t] = "none"]
  /\ later' = later \ {t}
  /\ owners' = [owners EXCEPT ![t] = {}]
  /\ Commit({t})

\* The contract of t gets another consultant or agent.
Reassign(t, o) ==
  /\ status[t] \in {"pending", "completed"} /\ owners[t] # o
  /\ owners' = [owners EXCEPT ![t] = o]
  /\ UNCHANGED <<status, later>>
  /\ Commit({t})

\* Tasks put off until today are due; those completed were completed yesterday.
Midnight ==
  LET done == {t \in Tasks : status[t] = "completed"}
  IN /\ status' = [t \in Tasks |-> IF t \in done THEN "none" ELSE status[t]]
     /\ owners' = [t \in Tasks |-> IF t \in done THEN {} ELSE owners[t]]
     /\ later' = {}
     /\ Commit(done \cup later)

Init ==
  /\ status = [t \in Tasks |-> "none"]
  /\ later = {}
  /\ owners = [t \in Tasks |-> {}]
  /\ pc = "idle" /\ asked = NoRequest
  /\ active = None /\ counter = 0 /\ segments = [s \in Segments |-> 0]
  /\ locked = {} /\ scheduled = {} /\ completed = {}
  /\ commits = 0 /\ steady = {}

Read == ReadActive \/ ReadCounter \/ ReadSegments \/ ReadLocked \/ ReadScheduled \/ ReadCompleted

Next ==
  \/ \E session \in Sessions, selected \in Users \cup {None} : Ask(session, selected)
  \/ Read \/ Finish \/ Midnight
  \/ \E t \in Tasks :
       \/ \E u \in Users : CreateTask(t, {u}) \/ Reassign(t, {u})
       \/ Execute(t) \/ PutOff(t) \/ CloseTask(t)

Spec == Init /\ [][Next]_vars
-----------------------------------------------------------------------------
Shown == {card.task : card \in locked} \cup ({active} \ {None})
Flagged == {card.task : card \in {c \in locked : c.isActive}} \cup ({active} \ {None})

TypeOK ==
  /\ status \in [Tasks -> {"none", "pending", "completed"}]
  /\ later \subseteq {t \in Tasks : status[t] = "pending"}
  /\ owners \in [Tasks -> SUBSET Users]
  /\ commits \in 0 .. MaxCommits
  /\ counter \in 0 .. Cardinality(Tasks)
  /\ segments \in [Segments -> 0 .. Cardinality(Tasks)]
  /\ active \in Tasks \cup {None}
  /\ \A card \in locked : card.task \in Tasks \ {active} /\ card.isActive \in BOOLEAN
  /\ scheduled \cup completed \cup steady \subseteq Tasks

(***************************************************************************)
(* However the queries interleave with commands, a task that was on the    *)
(* queue when the request came and has not been closed, reassigned or      *)
(* overtaken by midnight since is in one of the groups of the answer:      *)
(* tasks move from due to scheduled to completed, and the groups are read  *)
(* in that order (activities.service.ts, 105-155).                         *)
(***************************************************************************)
NothingMissed == pc = "answered" => steady \subseteq Shown \cup scheduled \cup completed

\* The answer is about the viewer, and the viewer may see all contracts behind it.
OwnQueue ==
  /\ pc = "answered" /\ commits = 0
  /\ asked.assignee = asked.session.user
  /\ \A t \in Tasks : Due(t) /\ Assigned[t] = asked.assignee => InScope(t)

(***************************************************************************)
(* An answer nothing was committed under is a snapshot: the groups are     *)
(* disjoint, counter and segments count the cards shown, and a card of the *)
(* viewer is marked executable exactly when the commands accept its task.  *)
(***************************************************************************)
QuietAnswerExact ==
  /\ pc = "answered" /\ commits = 0 =>
       /\ Shown \cap (scheduled \cup completed) = {} /\ scheduled \cap completed = {}
       /\ counter = Cardinality(Shown)
       /\ \A s \in Segments : segments[s] =
            Cardinality({card \in locked : Segment[card.task] = s})
  /\ OwnQueue => \A t \in Shown : t \in Flagged <=> Accepted(t)

(***************************************************************************)
(* A partner who may not simulate or create proposals finds the tasks that *)
(* block in the queue, and at least one task to act on, whose instalment   *)
(* can be opened (quote-activity-permissions.service.ts, 64-107).          *)
(***************************************************************************)
GateExplained ==
  OwnQueue =>
    LET gates == Gates(asked.session)
        segs == {Segment[t] : t \in Shown}
    IN /\ ~gates.simulate => segs \cap SimulationBlocking # {}
       /\ ~gates.create =>
            /\ segs \cap CreationBlocking # {}
            /\ \E t \in Flagged :
                 CanViewContract(asked.session.permissions, ViewAll, owners[t],
                                 Subtree({asked.session.user}, Manager, Users))
=============================================================================
