----------------------------- MODULE Hierarchy ------------------------------
(***************************************************************************)
(* Who sees whom: the recursive query over trigo_users.manager_id, and the *)
(* contracts, proposals and approvals a viewer may see with its answer;    *)
(* and the permissions a route asks for before any of it.                  *)
(* A user is live if it is not deleted; managers are data other programs   *)
(* maintain, cycles and users that manage themselves included.             *)
(***************************************************************************)
EXTENDS Naturals, FiniteSets

Admin == "ROLE_ADMIN"
Support == "ROLE_SUPPORT"

\* Mutant: deleted users are only left out of the roots.
WorkersThroughDeleted(S, manager, live) ==
  {u \in DOMAIN manager : manager[u] \in S /\ manager[u] # u}

\* The recursive term: live users managed by one of S, not by themselves.
Workers(S, manager, live) == {u \in live : manager[u] \in S /\ manager[u] # u}

\* WITH RECURSIVE ... UNION: rows are added until a round adds none, which is
\* before there are as many rounds as users.
Subtree(roots, manager, live) ==
  LET rows[n \in Nat] == IF n = 0 THEN roots \cap live
                         ELSE rows[n - 1] \cup Workers(rows[n - 1], manager, live)
  IN rows[Cardinality(live)]

-----------------------------------------------------------------------------
\* The viewer sees everything: the condition is TRUE.
SeesAll(permissions, viewAll) == permissions \cap (viewAll \cup {Admin}) # {}

\* buildContractScopeSql over a contract with the given consultant and agent.
InContractScope(owners, subtree) == owners \cap subtree # {}

\* canViewContract.
CanViewContract(permissions, viewAll, owners, subtree) ==
  \/ SeesAll(permissions, viewAll \cup {"CONTRACT_VIEW_ALL"})
  \/ subtree # {} /\ InContractScope(owners, subtree)

\* canDirectlyViewContract, buildDirectContractScopeSql: no hierarchy, no bypass.
CanDirectlyView(user, owners) == user \in owners

\* canAccessFormApproval, canAccessQuoteApproval.
CanAccessApproval(permissions, approver, subtree) ==
  SeesAll(permissions, {"QUOTE_VIEW_ALL", "QUOTE_APPROVER"}) \/ approver \in subtree

\* canAccessFormResponseApprovals: one of the approvers is in the subtree.
CanAccessResponse(permissions, approvers, subtree) ==
  SeesAll(permissions, {"QUOTE_VIEW_ALL"}) \/ approvers \cap subtree # {}

\* canAccessQuote.
CanAccessQuote(permissions, salesAgent, subtree) ==
  SeesAll(permissions, {"QUOTE_VIEW_ALL"}) \/ salesAgent \in subtree

-----------------------------------------------------------------------------
\* isRolloutObserver.
Observer(permissions) == permissions \cap {Admin, Support} # {}

\* assertCanSelect: partners are the users findRolloutPartners returns.
CanSelect(permissions, user, subtree, partners) ==
  IF Observer(permissions) THEN user \in partners ELSE user \in subtree

\* getOptions: whom the filter offers.
Options(permissions, viewer, subtree, partners) ==
  IF Observer(permissions) THEN partners ELSE subtree \ {viewer}

-----------------------------------------------------------------------------
\* Mutant: the bypass of the administrator comes before the explicit permissions.
GuardPassesAdminFirst(permissions, explicit, required) ==
  \/ Admin \in permissions
  \/ explicit \subseteq permissions /\ (required = {} \/ permissions \cap required # {})

\* PermissionsGuard: the explicit permissions of the class are asked of everybody;
\* only then is one of the required enough, or to be an administrator.  (No route
\* asks for all the required ones.)
GuardPasses(permissions, explicit, required) ==
  explicit \subseteq permissions /\ (required = {} \/ permissions \cap (required \cup {Admin}) # {})

\* The routes of the quotes that read, and those that write.
ReadGuard(permissions) ==
  GuardPasses(permissions, {"QUOTE_NEW_ORIGINATION_FLOW"},
              {"QUOTE_CREATE", "QUOTE_APPROVER", "QUOTE_VIEW_ALL"})
WriteGuard(permissions) ==
  GuardPasses(permissions, {"QUOTE_NEW_ORIGINATION_FLOW"}, {"QUOTE_CREATE"})

\* Every route of Performance.
PerformanceGuard(permissions) == GuardPasses(permissions, {"PERFORMANCE_VIEW"}, {})
=============================================================================
