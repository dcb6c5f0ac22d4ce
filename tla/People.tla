------------------------------- MODULE People -------------------------------
(***************************************************************************)
(* What the hierarchy lets a viewer see and select: the partners and teams *)
(* of Performance, and the proposals of the list, against what the routes  *)
(* behind them accept.  The hierarchy, the users and the owner of the      *)
(* proposal are changed by other programs between any two requests.        *)
(***************************************************************************)
EXTENDS Hierarchy

CONSTANTS
  Users,
  NoManager,
  Profiles,        \* the sets of permissions users have
  RolloutPartners, \* users in the groups findRolloutPartners asks for
  Creator,         \* who created the proposal
  SnapshotTeam     \* SnapshotTeam[u]: the team the snapshot of the month gives u

ASSUME PeopleAssumption ==
  /\ IsFiniteSet(Users) /\ Creator \in Users /\ NoManager \notin Users
  /\ RolloutPartners \subseteq Users /\ SnapshotTeam \in [Users -> SUBSET Users]

VARIABLES
  manager,    \* trigo_users.manager_id
  live,       \* the users not deleted
  salesAgent, \* quotes.current_sales_agent_id of the proposal
  draft       \* the proposal is a DRAFT

peopleVars == <<manager, live, salesAgent, draft>>

SetManager(u, m) ==
  /\ manager' = [manager EXCEPT ![u] = m]
  /\ UNCHANGED <<live, salesAgent, draft>>

DeleteOrRestore(u) ==
  /\ live' = IF u \in live THEN live \ {u} ELSE live \cup {u}
  /\ UNCHANGED <<manager, salesAgent, draft>>

PassOn(u) ==
  /\ salesAgent' = u
  /\ UNCHANGED <<manager, live, draft>>

LeaveDraft ==
  /\ draft /\ draft' = FALSE
  /\ UNCHANGED <<manager, live, salesAgent>>

PeopleInit ==
  /\ manager = [u \in Users |-> NoManager]
  /\ live = Users
  /\ salesAgent = Creator
  /\ draft = TRUE

PeopleNext ==
  \/ \E u \in Users : \/ \E m \in Users \cup {NoManager} : SetManager(u, m)
                      \/ DeleteOrRestore(u) \/ PassOn(u)
  \/ LeaveDraft

PeopleSpec == PeopleInit /\ [][PeopleNext]_peopleVars
-----------------------------------------------------------------------------
Below(u) == Subtree({u}, manager, live)

\* performance.service: the permissions of the people of the Home.
CanSelectPartners(permissions) ==
  permissions \cap {"INSTALLMENT_VIEW", "INSTALLMENT_VIEW_ALL", Admin, Support} # {}

\* allowedPartners: the viewer and, with the permission, getOptions.
AllowedPartners(viewer, permissions) ==
  {viewer} \cup (IF CanSelectPartners(permissions)
                 THEN Options(permissions, viewer, Below(viewer), RolloutPartners \cap live)
                 ELSE {})

\* getPartners, of those with a snapshot, deleted users left out.
PartnersOffered(viewer, permissions) ==
  {u \in AllowedPartners(viewer, permissions) \cap live : PerformanceGuard(permissions)}

\* The route of a partner: its guard, and resolvePartner.
PartnerOpens(viewer, permissions, u) ==
  /\ PerformanceGuard(permissions)
  /\ \/ u = viewer
     \/ /\ CanSelectPartners(permissions)
        /\ CanSelect(permissions, u, Below(viewer), RolloutPartners \cap live)

\* getTeam: the hierarchy of today and the team of the snapshot.
Team(u) == (Below(u) \cup SnapshotTeam[u]) \cap live

\* quotes list, findById: the guard of the routes, and resolveScopeWhere.
Listed(viewer, permissions) ==
  /\ ReadGuard(permissions)
  /\ SeesAll(permissions, {"QUOTE_VIEW_ALL"}) \/ salesAgent \in Below(viewer)

\* canEdit of the list and of the detail.
ShownEditable(viewer, permissions) ==
  /\ draft
  /\ Admin \in permissions \/ ("QUOTE_CREATE" \in permissions /\ salesAgent = viewer)

\* The guard of the route of a step, and the UPDATE of the step finds the proposal.
SaveAccepted(viewer, permissions) ==
  WriteGuard(permissions) /\ draft /\ (Admin \in permissions \/ salesAgent = viewer)
-----------------------------------------------------------------------------
PeopleTypeOK ==
  /\ manager \in [Users -> Users \cup {NoManager}]
  /\ live \subseteq Users /\ salesAgent \in Users /\ draft \in BOOLEAN

\* The recursive query ends with the least set that holds the viewer and the
\* live workers of its members, cycles and self managers included.
SubtreeIsClosure ==
  \A v \in Users :
    Below(v) = LET closed == {S \in SUBSET live : {v} \cap live \subseteq S
                                               /\ Workers(S, manager, live) \subseteq S}
               IN {u \in live : \A S \in closed : u \in S}

\* A manager sees what those below him see; a deleted user sees nothing.
ManagersSeeMore ==
  \A v \in Users : /\ \A w \in Below(v) : Below(w) \subseteq Below(v)
                   /\ v \notin live => Below(v) = {}

\* Whoever the filter offers opens, and his team shows nobody but those whom the
\* viewer manages and those the snapshot gives the partner.
OfferedOpens ==
  \A v \in Users, p \in Profiles : \A u \in PartnersOffered(v, p) :
    /\ PartnerOpens(v, p, u)
    /\ Observer(p) \/ Team(u) \subseteq Below(v) \cup SnapshotTeam[u]

\* On a proposal the viewer finds, the form opens for editing exactly when the
\* save would be accepted; whoever may edit can find it.
EditableIsSavable ==
  \A v \in live, p \in Profiles :
    /\ Listed(v, p) => (ShownEditable(v, p) <=> SaveAccepted(v, p))
    /\ SaveAccepted(v, p) => Listed(v, p)

(***************************************************************************)
(* Whatever happens to the hierarchy, the people a viewer reaches are the  *)
(* closure of it, every partner the filter of Performance offers opens,    *)
(* and a proposal the viewer finds is editable on the screen exactly when  *)
(* the step's save is accepted (scope.service.ts, 74-98;                   *)
(* performance.service.ts, 88-152; quotes.controller.ts, 72-310;           *)
(* quote-read.service.ts, 215-228 and 373-382).                            *)
(***************************************************************************)
WhoSeesWhom ==
  /\ PeopleTypeOK
  /\ SubtreeIsClosure
  /\ ManagersSeeMore
  /\ OfferedOpens
  /\ EditableIsSavable
=============================================================================
