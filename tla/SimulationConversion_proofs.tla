--------------------- MODULE SimulationConversion_proofs ---------------------
(***************************************************************************)
(* Safety of the conversion of a simulation for any number of requests.    *)
(* The invariant says what a request holds at each of its statements:      *)
(* the row it wrote is uncommitted only under the lock of the row, so the  *)
(* commit finds what the statement found.                                  *)
(***************************************************************************)
EXTENDS SimulationConversion, TLAPS

Linking == {"partyResolved", "matched", "written"}

\* What each statement has behind it.
Shape ==
  \A r \in Requests :
    /\ pc[r] = "idle" => held[r] = None
    /\ pc[r] # "idle" => call[r] \in Calls
    /\ pc[r] \in {"quoted", "insertParty", "fillBirth"} =>
         call[r].op \in {"create", "edit"} /\ held[r] = None
    /\ pc[r] = "partyResolved" => call[r].op \in {"create", "edit"}
    /\ pc[r] \in {"matched", "written"} => call[r].op \in {"create", "edit", "redraft"}
    /\ pc[r] \in Linking /\ call[r].op # "redraft" => held[r] \in Clients \cup {None}
    /\ pc[r] \in {"read", "unconverted", "inserted"} =>
         call[r].op = "convert" /\ held[r] \in Simulations

\* A proposal is inserted under its key; a change of conditions found one.
Proposing ==
  \A r \in Requests :
    /\ pc[r] = "inserted" => proposalLock = r /\ proposal = None
    /\ pc[r] \in {"matched", "written"} /\ call[r].op = "redraft" => proposal # None

\* The person is filled in under the lock of the row, and was not complete.
Filling ==
  \A r \in Requests :
    /\ pc[r] = "fillBirth" => client # None
    /\ pc[r] \in Linking /\ call[r].op # "redraft" /\ held[r] # None =>
         clientLock = r /\ (client = None \/ client.birth = None)

ConversionInv == TypeOK /\ Shape /\ OneProposal /\ PartyExists /\ Proposing /\ Filling

USE ConversionAssumption

LEMMA ConversionInit == Init => ConversionInv
<1> SUFFICES ASSUME Init PROVE ConversionInv OBVIOUS
<1>1. TypeOK BY DEF Init, TypeOK
<1>2. Shape BY DEF Init, Shape, Linking
<1>3. OneProposal BY DEF Init, OneProposal
<1>4. PartyExists BY DEF Init, PartyExists
<1>5. Proposing /\ Filling BY DEF Init, Proposing, Filling, Linking
<1> QED BY <1>1, <1>2, <1>3, <1>4, <1>5 DEF ConversionInv

\* A request arrives.
LEMMA Arrivals ==
  ASSUME ConversionInv, NEW r \in Requests, NEW c \in Calls,
         StartCreate(r, c) \/ StartEdit(r, c) \/ ReadSimulation(r, c) \/ LockProposal(r, c)
  PROVE ConversionInv'
<1> USE DEF ConversionInv
<1>1. TypeOK'
  BY DEF TypeOK, StartCreate, StartEdit, ReadSimulation, LockProposal, Receive, Go, rows, locks
<1>2. Shape'
  BY DEF TypeOK, Shape, Linking, StartCreate, StartEdit, ReadSimulation, LockProposal, Receive,
     Go, rows, locks
<1>3. OneProposal'
  BY DEF OneProposal, StartCreate, StartEdit, ReadSimulation, LockProposal, rows
<1>4. PartyExists'
  BY DEF TypeOK, PartyExists, StartCreate, StartEdit, ReadSimulation, LockProposal, Receive, Go,
     rows, locks
<1>5. Proposing'
  BY DEF TypeOK, Proposing, StartCreate, StartEdit, ReadSimulation, LockProposal, Receive, Go,
     rows, locks
<1>6. Filling'
  BY DEF TypeOK, Filling, Linking, StartCreate, StartEdit, ReadSimulation, LockProposal, Receive,
     Go, rows, locks
<1> QED BY <1>1, <1>2, <1>3, <1>4, <1>5, <1>6

\* A request ends and commits nothing.
LEMMA Endings ==
  ASSUME ConversionInv, NEW r \in Requests, pc[r] # "idle", End(r), UNCHANGED rows
  PROVE ConversionInv'
<1> USE DEF ConversionInv
<1>1. TypeOK' BY DEF TypeOK, End, Go, rows
<1>2. Shape' BY DEF TypeOK, Shape, Linking, End, Go, rows
<1>3. OneProposal' BY DEF OneProposal, rows
<1>4. PartyExists' BY DEF TypeOK, PartyExists, End, Go, rows
<1>5. Proposing' BY DEF TypeOK, Proposing, End, Go, rows
<1>6. Filling' BY DEF TypeOK, Filling, Linking, End, Go, rows
<1> QED BY <1>1, <1>2, <1>3, <1>4, <1>5, <1>6

\* The statements that resolve the person.
LEMMA PartyStatements ==
  ASSUME ConversionInv, NEW r \in Requests,
         FindParty(r) \/ InsertParty(r) \/ LoseInsertRace(r) \/ FillMissingBirthDate(r)
  PROVE ConversionInv'
<1> USE DEF ConversionInv
<1>1. pc[r] \in {"quoted", "insertParty", "fillBirth"} /\ UNCHANGED <<rows, call, proposalLock>>
  BY DEF FindParty, InsertParty, LoseInsertRace, FillMissingBirthDate, rows, locks
<1>2. /\ pc' = [pc EXCEPT ![r] = pc'[r]] 
      /\ pc'[r] \in {"insertParty", "fillBirth", "partyResolved"}
      /\ pc'[r] = "fillBirth" => client # None
  BY <1>1 DEF FindParty, InsertParty, LoseInsertRace, FillMissingBirthDate, TypeOK, Go, Filling
<1>3. \/ UNCHANGED <<held, clientLock>>
      \/ /\ held' = [held EXCEPT ![r] = [birth |-> call[r].birth]] /\ clientLock' = r
         /\ clientLock = None /\ pc'[r] = "partyResolved"
         /\ client = None \/ client.birth = None
  BY DEF FindParty, InsertParty, LoseInsertRace, FillMissingBirthDate, TypeOK, Go, locks
<1>4. pc'[r] = "partyResolved" => client # None \/ (clientLock' = r /\ held'[r] # None)
  BY <1>1, <1>3
  DEF FindParty, InsertParty, LoseInsertRace, FillMissingBirthDate, TypeOK, Go, Filling, Shape,
      Clients, Calls
<1>5. UNCHANGED simulationLock
  BY DEF FindParty, InsertParty, LoseInsertRace, FillMissingBirthDate, locks
<1>6. call[r] \in Calls /\ call[r].op \in {"create", "edit"} /\ held[r] = None
  BY <1>1 DEF Shape
<1>7. TypeOK' BY <1>1, <1>2, <1>3, <1>5, <1>6 DEF TypeOK, rows, Calls, Clients
<1>8. Shape' BY <1>1, <1>2, <1>3, <1>6 DEF TypeOK, Shape, Linking, Clients, Calls
<1>9. OneProposal' BY <1>1 DEF OneProposal, rows
<1>10. PartyExists' BY <1>1, <1>2, <1>3, <1>4 DEF TypeOK, PartyExists, rows
<1>11. Proposing' BY <1>1, <1>2 DEF TypeOK, Proposing, rows
<1>12. Filling' BY <1>1, <1>2, <1>3, <1>6 DEF TypeOK, Filling, Linking, rows
<1> QED BY <1>7, <1>8, <1>9, <1>10, <1>11, <1>12

\* The statements that write simulations or quotes, before any commit.
LEMMA WritingStatements ==
  ASSUME ConversionInv, NEW r \in Requests,
         \/ InsertSimulation(r) \/ EvaluateUpdate(r) \/ UpdateSimulation(r)
         \/ CheckUnconverted(r) \/ InsertProposal(r)
  PROVE ConversionInv'
<1> USE DEF ConversionInv, InsertSimulation, EvaluateUpdate, UpdateSimulation, CheckUnconverted,
            InsertProposal
<1>1. UNCHANGED <<rows, call, held, clientLock>> BY DEF rows, locks
<1>2. TypeOK' BY DEF TypeOK, Go, rows, locks
<1>3. Shape' BY <1>1 DEF TypeOK, Shape, Linking, Go
<1>4. OneProposal' BY <1>1 DEF OneProposal, rows
<1>5. PartyExists' BY <1>1 DEF TypeOK, PartyExists, Shape, Go, rows
<1>6. Proposing' BY <1>1 DEF TypeOK, Proposing, Shape, Go, rows, locks
<1>7. Filling' BY <1>1 DEF TypeOK, Filling, Linking, Shape, Go, rows
<1> QED BY <1>2, <1>3, <1>4, <1>5, <1>6, <1>7

\* The commit of a new or edited simulation, with the person it resolved.
LEMMA SimulationCommits ==
  ASSUME ConversionInv, NEW r \in Requests, CommitSimulation(r)
  PROVE ConversionInv' /\ (client # None => client' # None /\ client.birth \in {None, client'.birth})
<1> USE DEF ConversionInv
<1>1. /\ pc[r] = "written" /\ call[r] \in Calls /\ call[r].op \in {"create", "edit"}
      /\ held[r] \in Clients \cup {None}
  BY DEF CommitSimulation, Shape, Linking
<1>2. UNCHANGED <<proposal, created>> /\ End(r) BY DEF CommitSimulation
<1>3. /\ client' \in Clients
      /\ client # None => client' # None /\ client.birth \in {None, client'.birth}
  BY <1>1 DEF CommitSimulation, PartyExists, Filling, Linking, TypeOK
<1>4. client' # client => \A s \in Requests : s # r /\ pc[s] \in Linking /\ call[s].op # "redraft"
                                               => held[s] = None
  BY <1>1 DEF CommitSimulation, Filling, Linking
<1>5. simulation' \in Simulations BY <1>1 DEF CommitSimulation, TypeOK, Simulations, Calls
<1>6. TypeOK' BY <1>2, <1>3, <1>5 DEF TypeOK, End, Go
<1>7. Shape' BY <1>2 DEF TypeOK, Shape, Linking, End, Go
<1>8. OneProposal' BY <1>2 DEF OneProposal
<1>9. PartyExists'
  BY <1>2, <1>3 DEF CommitSimulation, TypeOK, PartyExists, End, Go
<1>10. Proposing' BY <1>2 DEF TypeOK, Proposing, End, Go
<1>11. Filling' BY <1>2, <1>3, <1>4 DEF TypeOK, Filling, Linking, End, Go
<1> QED BY <1>3, <1>6, <1>7, <1>8, <1>9, <1>10, <1>11

\* The commits of the conversion and of a change of conditions.
LEMMA ProposalCommits ==
  ASSUME ConversionInv, NEW r \in Requests, CommitProposal(r) \/ CommitRedraft(r)
  PROVE ConversionInv'
<1> USE DEF ConversionInv
<1>1. End(r) /\ UNCHANGED client BY DEF CommitProposal, CommitRedraft
<1>2. CASE CommitProposal(r)
  <2>1. pc[r] = "inserted" /\ held[r] \in Simulations /\ proposalLock = r /\ proposal = None
    BY <1>2 DEF CommitProposal, Shape, Proposing
  <2>2. proposal' \in Terms /\ created' = created + 1 /\ UNCHANGED simulation
    BY <1>2, <2>1 DEF CommitProposal, Simulations
  <2>3. TypeOK' BY <1>1, <2>2 DEF TypeOK, End, Go
  <2>4. OneProposal' BY <2>1, <2>2 DEF OneProposal
  <2>5. Proposing' BY <1>1, <2>1, <2>2 DEF TypeOK, Proposing, End, Go
  <2>6. PartyExists' BY <1>1, <2>2 DEF TypeOK, PartyExists, End, Go
  <2> QED BY <1>1, <2>3, <2>4, <2>5, <2>6 DEF TypeOK, Shape, Filling, Linking, End, Go
<1>3. CASE CommitRedraft(r)
  <2>1. pc[r] = "written" /\ call[r] \in Calls /\ call[r].op = "redraft" /\ proposal # None
    BY <1>3 DEF CommitRedraft, Shape, Proposing
  <2>2. /\ proposal' \in Terms /\ UNCHANGED created
        /\ simulation' \in Simulations /\ simulation'.party = simulation.party
    BY <1>3, <2>1 DEF CommitRedraft, TypeOK, Calls, Simulations
  <2>3. TypeOK' BY <1>1, <2>2 DEF TypeOK, End, Go
  <2>4. OneProposal' BY <2>1, <2>2 DEF OneProposal
  <2>5. Proposing' BY <1>1, <2>1, <2>2 DEF TypeOK, Proposing, End, Go
  <2>6. PartyExists' BY <1>1, <2>2 DEF TypeOK, PartyExists, End, Go
  <2> QED BY <1>1, <2>3, <2>4, <2>5, <2>6 DEF TypeOK, Shape, Filling, Linking, End, Go
<1> QED BY <1>2, <1>3

LEMMA ConversionStep == ConversionInv /\ [Next]_vars => ConversionInv'
<1> SUFFICES ASSUME ConversionInv, [Next]_vars PROVE ConversionInv' OBVIOUS
<1>1. ASSUME NEW r \in Requests, NEW c \in Calls,
             StartCreate(r, c) \/ StartEdit(r, c) \/ ReadSimulation(r, c) \/ LockProposal(r, c)
      PROVE ConversionInv'
  BY <1>1, Arrivals
<1>2. ASSUME NEW r \in Requests, Rollback(r) \/ Refused(r) PROVE ConversionInv'
  BY <1>2, Endings DEF Rollback, Refused
<1>3. ASSUME NEW r \in Requests, Step(r) PROVE ConversionInv'
  BY <1>2, <1>3, PartyStatements, WritingStatements, SimulationCommits, ProposalCommits DEF Step
<1>4. CASE UNCHANGED vars
  BY <1>4 DEF ConversionInv, TypeOK, Shape, OneProposal, PartyExists, Proposing, Filling, Linking,
              vars, rows, locks
<1> QED BY <1>1, <1>2, <1>3, <1>4 DEF Next

LEMMA ConversionInvariant == Spec => []ConversionInv
BY ConversionInit, ConversionStep, PTL DEF Spec

(***************************************************************************)
(* Type correctness of the conversion, for any number of requests.         *)
(***************************************************************************)
THEOREM ConversionTypes == Spec => []TypeOK
<1>1. ConversionInv => TypeOK BY DEF ConversionInv
<1> QED BY <1>1, ConversionInvariant, PTL

(***************************************************************************)
(* However many conversions race, a simulation becomes one proposal with   *)
(* one draft_created event (quotes.service.ts, 120-218 and 281-286).       *)
(***************************************************************************)
THEOREM ConvertedAtMostOnce == Spec => []OneProposal
<1>1. ConversionInv => OneProposal BY DEF ConversionInv
<1> QED BY <1>1, ConversionInvariant, PTL

(***************************************************************************)
(* A simulation names a person whose row exists, whoever inserted it       *)
(* (parties.service.ts, 118-190).                                          *)
(***************************************************************************)
THEOREM PartyAlwaysExists == Spec => []PartyExists
<1>1. ConversionInv => PartyExists BY DEF ConversionInv
<1> QED BY <1>1, ConversionInvariant, PTL

(***************************************************************************)
(* A birth date of the register is never overwritten: what fills it was    *)
(* found missing under the lock of the row (parties.service.ts, 173-190).  *)
(***************************************************************************)
THEOREM BirthNeverOverwritten == Spec => CanonicalBirthKept
<1> DEFINE Kept == client # None => client' # None /\ client.birth \in {None, client'.birth}
<1>1. ConversionInv /\ [Next]_vars => [Kept]_vars
  <2> SUFFICES ASSUME ConversionInv, Next, client' # client PROVE Kept
    BY DEF vars, rows
  <2>1. PICK r \in Requests : CommitSimulation(r)
    BY DEF Next, Step, Rollback, Refused, StartCreate, StartEdit, ReadSimulation, LockProposal,
           FindParty, InsertParty, LoseInsertRace, FillMissingBirthDate, InsertSimulation,
           EvaluateUpdate, UpdateSimulation, CheckUnconverted, InsertProposal, CommitProposal,
           CommitRedraft, rows
  <2> QED BY <2>1, SimulationCommits
<1> QED BY <1>1, ConversionInvariant, PTL DEF Spec, CanonicalBirthKept
=============================================================================
