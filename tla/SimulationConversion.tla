------------------------ MODULE SimulationConversion ------------------------
(***************************************************************************)
(* One simulation, the person it was made for, and the proposal it may     *)
(* become.  Four use cases run concurrently, each in a READ COMMITTED      *)
(* transaction:                                                            *)
(*   create    POST /simulations: resolves the person, inserts another     *)
(*             simulation of the same CPF                                  *)
(*   edit      the same endpoint with the id of this simulation            *)
(*   convert   POST /quotes/draft: copies the simulation into a proposal   *)
(*   redraft   the proposal's own change of conditions, which rewrites     *)
(*             proposal and simulation together                            *)
(* Every statement sees the rows committed when it starts.  A write waits  *)
(* for the row's lock; an INSERT waits for an uncommitted row of the same  *)
(* unique key.  The foreign key of the inserted proposal takes KEY SHARE   *)
(* on the simulation, which no UPDATE of this program waits for.           *)
(***************************************************************************)
EXTENDS Naturals

CONSTANTS
  Requests,    \* concurrent requests
  Terms,       \* commercial conditions
  BirthDates,  \* values of birth_date
  None         \* no row, NULL

VARIABLES
  client,      \* clients: the row of the CPF, or None
  simulation,  \* simulations: the row
  proposal,    \* quotes: the row whose simulation_id is the simulation, or None
  created,     \* quote_events: how many draft_created
  clientLock, simulationLock, proposalLock,  \* holder of each row's (or key's) lock
  pc,          \* pc[r]: where request r is
  call,        \* call[r]: operation and inputs of r
  held         \* held[r]: the row r wrote or will copy, not committed

rows  == <<client, simulation, proposal, created>>
locks == <<clientLock, simulationLock, proposalLock>>
vars  == <<rows, locks, pc, call, held>>

-----------------------------------------------------------------------------
Clients == [birth : BirthDates \cup {None}]
Simulations == [terms : Terms, party : BOOLEAN]
Calls == [op : {"create", "edit", "convert", "redraft"}, terms : Terms, birth : BirthDates]

ASSUME ConversionAssumption ==
  /\ None \notin Requests
  /\ None \notin Terms
  /\ None \notin BirthDates
  /\ None \notin Clients \cup Simulations

Go(r, to) == pc' = [pc EXCEPT ![r] = to]

Free(lock, r) == lock \in {None, r}

\* The request ends, by commit or rollback, and frees what it held.
End(r) ==
  /\ Go(r, "idle")
  /\ call' = [call EXCEPT ![r] = None]
  /\ held' = [held EXCEPT ![r] = None]
  /\ clientLock' = IF clientLock = r THEN None ELSE clientLock
  /\ simulationLock' = IF simulationLock = r THEN None ELSE simulationLock
  /\ proposalLock' = IF proposalLock = r THEN None ELSE proposalLock

Receive(r, c) ==
  /\ pc[r] = "idle"
  /\ call' = [call EXCEPT ![r] = c]

-----------------------------------------------------------------------------
(* simulate: edit check, quotations awaited, then the transaction.         *)

\* A new simulation has nothing to check before the quotations.
StartCreate(r, c) ==
  /\ Receive(r, c)
  /\ c.op = "create"
  /\ Go(r, "quoted")
  /\ UNCHANGED <<rows, locks, held>>

\* assertSimulationIsEditable: 409 when a proposal already points to the simulation.
StartEdit(r, c) ==
  /\ Receive(r, c)
  /\ c.op = "edit"
  /\ proposal = None
  /\ Go(r, "quoted")
  /\ UNCHANGED <<rows, locks, held>>

\* resolveForSimulation, first SELECT: the person exists, or must be inserted.
FindParty(r) ==
  /\ pc[r] = "quoted"
  /\ Go(r, IF client = None THEN "insertParty"
           ELSE IF client.birth = None THEN "fillBirth" ELSE "partyResolved")
  /\ UNCHANGED <<rows, locks, call, held>>

\* INSERT ... ON CONFLICT DO NOTHING waits for a concurrent insert of the same CPF.
InsertParty(r) ==
  /\ pc[r] = "insertParty"
  /\ clientLock = None
  /\ client = None
  /\ clientLock' = r
  /\ held' = [held EXCEPT ![r] = [birth |-> call[r].birth]]
  /\ Go(r, "partyResolved")
  /\ UNCHANGED <<rows, simulationLock, proposalLock, call>>

\* Mutant: a conflicting insert is skipped without waiting for it to commit.
LoseInsertRaceEarly(r) ==
  /\ pc[r] = "insertParty"
  /\ client # None \/ clientLock # None
  /\ Go(r, "partyResolved")
  /\ UNCHANGED <<rows, locks, call, held>>

\* The other insert won: the second SELECT finds its row.
LoseInsertRace(r) ==
  /\ pc[r] = "insertParty"
  /\ clientLock = None
  /\ client # None
  /\ Go(r, IF client.birth = None THEN "fillBirth" ELSE "partyResolved")
  /\ UNCHANGED <<rows, locks, call, held>>

\* Mutant: UPDATE clients SET birth_date without AND birth_date IS NULL.
FillAnyBirthDate(r) ==
  /\ pc[r] = "fillBirth"
  /\ clientLock = None
  /\ clientLock' = r
  /\ held' = [held EXCEPT ![r] = [birth |-> call[r].birth]]
  /\ Go(r, "partyResolved")
  /\ UNCHANGED <<rows, simulationLock, proposalLock, call>>

\* UPDATE clients SET birth_date WHERE birth_date IS NULL, re-evaluated after the wait.
FillMissingBirthDate(r) ==
  /\ pc[r] = "fillBirth"
  /\ clientLock = None
  /\ IF client.birth = None
     THEN /\ clientLock' = r
          /\ held' = [held EXCEPT ![r] = [birth |-> call[r].birth]]
     ELSE UNCHANGED <<clientLock, held>>
  /\ Go(r, "partyResolved")
  /\ UNCHANGED <<rows, simulationLock, proposalLock, call>>

\* INSERT INTO simulations: a row of its own, nobody else sees it before the commit.
InsertSimulation(r) ==
  /\ pc[r] = "partyResolved"
  /\ call[r].op = "create"
  /\ Go(r, "written")
  /\ UNCHANGED <<rows, locks, call, held>>

\* UPDATE simulations ... AND NOT EXISTS (SELECT 1 FROM quotes ...): the statement's
\* snapshot, taken before any wait for the row, sees committed proposals only.
EvaluateUpdate(r) ==
  /\ pc[r] = "partyResolved"
  /\ call[r].op = "edit"
  /\ proposal = None
  /\ Go(r, "matched")
  /\ UNCHANGED <<rows, locks, call, held>>

UpdateSimulation(r) ==
  /\ pc[r] = "matched"
  /\ Free(simulationLock, r)
  /\ simulationLock' = r
  /\ Go(r, "written")
  /\ UNCHANGED <<rows, clientLock, proposalLock, call, held>>

CommitSimulation(r) ==
  /\ pc[r] = "written"
  /\ call[r].op \in {"create", "edit"}
  /\ client' = IF held[r] # None THEN held[r] ELSE client
  /\ simulation' = IF call[r].op = "edit"
                   THEN [terms |-> call[r].terms, party |-> TRUE] ELSE simulation
  /\ UNCHANGED <<proposal, created>>
  /\ End(r)

-----------------------------------------------------------------------------
(* createDraftFromSimulation                                               *)

\* SELECT of the simulation: the conditions the proposal will copy.
ReadSimulation(r, c) ==
  /\ Receive(r, c)
  /\ c.op = "convert"
  /\ held' = [held EXCEPT ![r] = simulation]
  /\ Go(r, "read")
  /\ UNCHANGED <<rows, locks>>

\* SELECT of an existing proposal of the simulation: 409 when there is one.
CheckUnconverted(r) ==
  /\ pc[r] = "read"
  /\ proposal = None
  /\ Go(r, "unconverted")
  /\ UNCHANGED <<rows, locks, call, held>>

\* Mutant: no unique constraint on quotes.simulation_id.
InsertProposalUnconstrained(r) ==
  /\ pc[r] = "unconverted"
  /\ proposalLock' = r
  /\ Go(r, "inserted")
  /\ UNCHANGED <<rows, clientLock, simulationLock, call, held>>

\* INSERT INTO quotes: quotes_simulation_id_unique makes a second insert wait for the
\* first and fail (P2002, answered as 409) when it committed.
InsertProposal(r) ==
  /\ pc[r] = "unconverted"
  /\ proposalLock = None
  /\ proposal = None
  /\ proposalLock' = r
  /\ Go(r, "inserted")
  /\ UNCHANGED <<rows, clientLock, simulationLock, call, held>>

\* The insurance row and draft_created commit with the proposal.
CommitProposal(r) ==
  /\ pc[r] = "inserted"
  /\ proposal' = held[r].terms
  /\ created' = created + 1
  /\ UNCHANGED <<client, simulation>>
  /\ End(r)

-----------------------------------------------------------------------------
(* QuoteDraftSimulationService.update, its transaction: the conditional    *)
(* UPDATE of the proposal, then the UPDATE of the simulation.              *)

LockProposal(r, c) ==
  /\ Receive(r, c)
  /\ c.op = "redraft"
  /\ proposal # None
  /\ proposalLock = None
  /\ proposalLock' = r
  /\ Go(r, "matched")
  /\ UNCHANGED <<rows, clientLock, simulationLock, held>>

\* Mutant: the simulation's conditions are cleared instead of replaced.
CommitRedraftClearing(r) ==
  /\ pc[r] = "written"
  /\ call[r].op = "redraft"
  /\ proposal' = call[r].terms
  /\ simulation' = [simulation EXCEPT !.terms = None]
  /\ UNCHANGED <<client, created>>
  /\ End(r)

CommitRedraft(r) ==
  /\ pc[r] = "written"
  /\ call[r].op = "redraft"
  /\ proposal' = call[r].terms
  /\ simulation' = [simulation EXCEPT !.terms = call[r].terms]
  /\ UNCHANGED <<client, created>>
  /\ End(r)

-----------------------------------------------------------------------------
\* Mutant: the lock of the person's row outlives the transaction.
RollbackKeepingClientLock(r) ==
  /\ pc[r] # "idle"
  /\ Go(r, "idle")
  /\ call' = [call EXCEPT ![r] = None]
  /\ held' = [held EXCEPT ![r] = None]
  /\ simulationLock' = IF simulationLock = r THEN None ELSE simulationLock
  /\ proposalLock' = IF proposalLock = r THEN None ELSE proposalLock
  /\ UNCHANGED <<rows, clientLock>>

\* A check that fails (404, 409), a provider that fails, a timeout or a crash.
Rollback(r) ==
  /\ pc[r] # "idle"
  /\ End(r)
  /\ UNCHANGED rows

\* The conversion already exists where a statement looks for it: 409.
Refused(r) ==
  /\ pc[r] \in {"partyResolved", "read", "unconverted"}
  /\ call[r].op \in {"edit", "convert"}
  /\ proposal # None
  /\ End(r)
  /\ UNCHANGED rows

Init ==
  /\ client \in Clients \cup {None}
  /\ simulation \in Simulations
  /\ simulation.party => client # None
  /\ proposal = None
  /\ created = 0
  /\ clientLock = None /\ simulationLock = None /\ proposalLock = None
  /\ pc = [r \in Requests |-> "idle"]
  /\ call = [r \in Requests |-> None]
  /\ held = [r \in Requests |-> None]

Step(r) ==
  \/ FindParty(r) \/ InsertParty(r) \/ LoseInsertRace(r) \/ FillMissingBirthDate(r)
  \/ InsertSimulation(r) \/ EvaluateUpdate(r) \/ UpdateSimulation(r) \/ CommitSimulation(r)
  \/ CheckUnconverted(r) \/ InsertProposal(r) \/ CommitProposal(r)
  \/ CommitRedraft(r) \/ Refused(r)

Next ==
  \/ \E r \in Requests, c \in Calls :
       StartCreate(r, c) \/ StartEdit(r, c) \/ ReadSimulation(r, c) \/ LockProposal(r, c)
  \/ \E r \in Requests : Step(r) \/ Rollback(r)

Spec == Init /\ [][Next]_vars

(* A started request keeps executing its statements.  Strong fairness is   *)
(* the database's first-in first-out queue of lock waiters: a request does *)
(* not wait for ever for a lock that is released again and again.          *)
FairSpec == Spec /\ \A r \in Requests : SF_vars(Step(r))
-----------------------------------------------------------------------------
TypeOK ==
  /\ client \in Clients \cup {None}
  /\ simulation \in Simulations
  /\ proposal \in Terms \cup {None}
  /\ created \in Nat
  /\ {clientLock, simulationLock, proposalLock} \subseteq Requests \cup {None}
  /\ pc \in [Requests -> {"idle", "quoted", "insertParty", "fillBirth", "partyResolved",
                          "matched", "written", "read", "unconverted", "inserted"}]
  /\ call \in [Requests -> Calls \cup {None}]
  /\ held \in [Requests -> Clients \cup Simulations \cup {None}]

(***************************************************************************)
(* A simulation becomes at most one proposal, and that proposal has        *)
(* exactly one draft_created event, whatever conversions race              *)
(* (quotes_simulation_id_unique; quotes.service.ts, lines 281-286).        *)
(***************************************************************************)
OneProposal == created = IF proposal = None THEN 0 ELSE 1

(***************************************************************************)
(* The canonical birth date is filled when missing and never overwritten,  *)
(* not even by two simulations that both found it missing.                 *)
(***************************************************************************)
CanonicalBirthKept ==
  [][client # None => client' # None /\ client.birth \in {None, client'.birth}]_vars

(***************************************************************************)
(* Two transactions never both insert the person: the one that lost the    *)
(* race links to the winner's row, and a simulation that names a party     *)
(* names one that exists.                                                  *)
(***************************************************************************)
PartyExists ==
  /\ simulation.party => client # None
  /\ \A r \in Requests :
       /\ pc[r] \in {"partyResolved", "matched", "written"}
       /\ call[r].op \in {"create", "edit"}
       => client # None \/ (clientLock = r /\ held[r] # None)

(***************************************************************************)
(* Every request ends: lock waits form no cycle.                           *)
(***************************************************************************)
RequestsEnd == \A r \in Requests : pc[r] # "idle" ~> pc[r] = "idle"

(***************************************************************************)
(* "Both the preliminary edit check and the conditional UPDATE enforce     *)
(* immutability after conversion" (docs/architecture/simulations.md, lines *)
(* 31-32): once the proposal exists the simulation changes only together   *)
(* with it.                                                                *)
(***************************************************************************)
ConvertedSimulationImmutable ==
  [][proposal # None /\ simulation' # simulation => proposal' = simulation'.terms]_vars
=============================================================================
