------------------------- MODULE QuoteTransactions --------------------------
(***************************************************************************)
(* The proposal's services under concurrent requests.  A request is one    *)
(* HTTP call of the wizard; its transaction is modelled statement by       *)
(* statement, as PostgreSQL executes it:                                   *)
(*                                                                         *)
(*  - a READ COMMITTED transaction starts with a conditional UPDATE (or    *)
(*    SELECT FOR UPDATE) of the proposal's row.  It waits for the row lock,*)
(*    evaluates its WHERE on the last committed row, and holds the lock    *)
(*    until it commits or rolls back.                                      *)
(*  - a SERIALIZABLE transaction reads the row in a snapshot; its UPDATE   *)
(*    fails with P2034 when the row was written since, and the service     *)
(*    retries with a new snapshot, at most MaxAttempts times in all.       *)
(*  - changing the simulation reads the row, awaits Celcoin and Caburé, and*)
(*    only then opens its transaction.                                     *)
(*                                                                         *)
(* Nothing a transaction wrote is visible to others before Commit.  Any    *)
(* open request may also disappear (a crash, a dropped connection, the     *)
(* interactive-transaction timeout of the client library, a provider that  *)
(* fails): the database rolls its transaction back.                        *)
(***************************************************************************)
EXTENDS QuoteLifecycle

CONSTANTS
  Requests,     \* concurrent requests; an identifier is reused when one ends
  MaxAttempts   \* MAX_TRANSACTION_ATTEMPTS

ASSUME AttemptsAssumption == MaxAttempts \in Nat \ {0}

ASSUME RequestsAssumption == None \notin Requests

VARIABLES
  lock,      \* the request that holds the lock of the proposal's row, or None
  pc,        \* pc[r]: where request r is
  call,      \* call[r]: the operation r executes, with its input
  seen,      \* seen[r]: what r read of the row and uses later
  image,     \* image[r]: the row r has written and not committed
  checked,   \* checked[r]: the limit r validated the documentation against
  attempt,   \* attempt[r]: the serializable attempt r is in
  overtaken  \* requests whose snapshot is older than the committed row

session == <<lock, pc, call, seen, image, checked, attempt, overtaken>>
vars == <<lifecycleVars, session>>

-----------------------------------------------------------------------------
(* Operations and what each writes.                                        *)

Calls ==
  [op : {"save"}, step : PlainSteps, birth : BirthDates]
    \cup [op : {"income", "prefill"}, income : Incomes]
    \cup [op : {"financial"}, committed : Commitments]
    \cup [op : {"simulation"}, terms : Terms]
    \cup [op : {"upload", "remove"}, file : Attachments]
    \cup [op : {"complete", "submit"}]

Serializable == {"upload", "remove", "complete"}

\* What an operation reads of the row and carries to its UPDATE.
Reads == [files : SUBSET Attachments, birth : BirthDates \cup {None}]

ReadBy(c, row) ==
  [files |-> IF c.op \in {"upload", "remove"} THEN Column(row.files, c.file) ELSE {},
   birth |-> IF c.op = "simulation" THEN row.birth ELSE None]

\* The row an UPDATE writes: row is the version it changes, old what was read before.
Written(c, row, old) ==
  CASE c.op = "save" -> [row EXCEPT !.birth = IF c.step = "registration" THEN c.birth ELSE @]
    [] c.op \in {"income", "prefill"} -> [row EXCEPT !.income = c.income]
    [] c.op = "financial" -> [row EXCEPT !.committed = c.committed]
    [] c.op = "simulation" -> [row EXCEPT !.terms = c.terms, !.insured = old.birth]
    [] c.op = "upload" ->
         [row EXCEPT !.files = WithColumn(@, c.file, old.files \cup {c.file})]
    [] c.op = "remove" ->
         [row EXCEPT !.files = WithColumn(@, c.file, old.files \ {c.file})]
    [] c.op = "complete" -> row
    [] c.op = "submit" -> [row EXCEPT !.status = "client_review"]

\* Steps upserted and steps deleted in quote_draft_steps.
StepsDone(c) ==
  CASE c.op = "save" -> {c.step}
    [] c.op \in {"income", "financial"} -> {c.op}
    [] c.op = "complete" -> {"documentation"}
    [] OTHER -> {}

\* Mutant: new conditions leave the Financeiro step completed.
StepsResetKeepingFinancial(c) ==
  IF c.op \in {"simulation", "upload", "remove"} THEN {"documentation"} ELSE {}

StepsReset(c) ==
  CASE c.op = "simulation" -> StepsDependingOnSimulation
    [] c.op \in {"upload", "remove"} -> {"documentation"}
    [] OTHER -> {}

\* Events inserted in the transaction of the use case.
EventsAfter(c) ==
  CASE c.op = "submit" -> [events EXCEPT !.submitted = @ + 1]
    [] c.op = "prefill" -> [events EXCEPT !.prefilled = @ + 1]
    [] c.op = "upload" -> [events EXCEPT !.file[c.file] = "added"]
    [] c.op = "remove" -> [events EXCEPT !.file[c.file] = "removed"]
    [] OTHER -> events

\* Mutant: ON CONFLICT DO NOTHING, as in the draft's creation.
LinkedKeepingInsurance(c) ==
  IF c.op = "simulation"
  THEN [simulation |-> c.terms,
        insurance |-> IF linked.insurance = None /\ HasParty THEN c.terms ELSE linked.insurance]
  ELSE linked

\* simulations is updated and cabure_insurance_proposals upserted with the new conditions.
LinkedAfter(c) ==
  IF c.op = "simulation"
  THEN [simulation |-> c.terms, insurance |-> IF HasParty THEN c.terms ELSE None]
  ELSE linked

\* History: what the check behind a completed step used, forgotten with the step.
BasisAfter(c, row, l) ==
  CASE c.op = "financial" -> [basis EXCEPT !.financial = row.terms]
    [] c.op = "complete" -> [basis EXCEPT !.documentation = l]
    [] c.op = "submit" -> [basis EXCEPT !.submission = l]
    [] OTHER -> [s \in DOMAIN basis |-> IF s \in StepsReset(c) THEN None ELSE basis[s]]
-----------------------------------------------------------------------------
(* Sessions.                                                               *)

Idle == "idle"

\* r leaves its transaction: lock and private versions disappear.
Release(r) ==
  /\ lock' = IF lock = r THEN None ELSE lock
  /\ pc' = [pc EXCEPT ![r] = Idle]
  /\ call' = [call EXCEPT ![r] = None]
  /\ seen' = [seen EXCEPT ![r] = None]
  /\ image' = [image EXCEPT ![r] = None]
  /\ checked' = [checked EXCEPT ![r] = None]
  /\ attempt' = [attempt EXCEPT ![r] = 1]

\* Mutant: the row is read without FOR UPDATE and written without waiting for its lock.
WriteWithoutLock(r, c, row, old) ==
  /\ lock' = r
  /\ image' = [image EXCEPT ![r] = Written(c, row, old)]
  /\ pc' = [pc EXCEPT ![r] = "updated"]

\* r obtains the row lock and writes its version of the row.
Write(r, c, row, old) ==
  /\ lock = None
  /\ lock' = r
  /\ image' = [image EXCEPT ![r] = Written(c, row, old)]
  /\ pc' = [pc EXCEPT ![r] = "updated"]

\* The conditional UPDATE ... WHERE quote_status = 'draft', or the FOR UPDATE read,
\* that opens a READ COMMITTED transaction.
UpdateDraft(r, c) ==
  /\ pc[r] = Idle
  /\ c.op \notin Serializable \cup {"simulation"}
  /\ Editable(quote)
  /\ Write(r, c, quote, ReadBy(c, quote))
  /\ call' = [call EXCEPT ![r] = c]
  /\ UNCHANGED <<lifecycleVars, seen, checked, attempt, overtaken>>

\* findEditableDraft, outside any transaction, before the quotations are awaited.
ReadDraft(r, c) ==
  /\ pc[r] = Idle
  /\ c.op = "simulation"
  /\ Editable(quote)
  /\ quote.birth # None
  /\ pc' = [pc EXCEPT ![r] = "quoting"]
  /\ call' = [call EXCEPT ![r] = c]
  /\ seen' = [seen EXCEPT ![r] = ReadBy(c, quote)]
  /\ UNCHANGED <<lifecycleVars, lock, image, checked, attempt, overtaken>>

\* Mutant: UPDATE ... WHERE id = quoteId, without the status.
UpdateConditionsAnyStatus(r) ==
  /\ pc[r] = "quoting"
  /\ Write(r, call[r], quote, seen[r])
  /\ UNCHANGED <<lifecycleVars, call, seen, checked, attempt, overtaken>>

\* The quotations answered: the transaction opens with the conditional UPDATE.
UpdateConditions(r) ==
  /\ pc[r] = "quoting"
  /\ Editable(quote)
  /\ Write(r, call[r], quote, seen[r])
  /\ UNCHANGED <<lifecycleVars, call, seen, checked, attempt, overtaken>>

\* The first read of a SERIALIZABLE transaction fixes its snapshot.
Snapshot(r, c) ==
  /\ Editable(quote)
  /\ c.op = "upload" => events.file[c.file] = None
  /\ c.op = "remove" => c.file \in quote.files
  /\ c.op = "complete" => DocumentationComplete(quote, limit)
  /\ pc' = [pc EXCEPT ![r] = "snapshot"]
  /\ seen' = [seen EXCEPT ![r] = ReadBy(c, quote)]
  /\ checked' = [checked EXCEPT ![r] = IF c.op = "complete" THEN limit ELSE None]
  /\ overtaken' = overtaken \ {r}

Open(r, c) ==
  /\ pc[r] = Idle
  /\ c.op \in Serializable
  /\ c.op = "upload" => \A q \in Requests : call[q] # c  \* a fresh randomUUID
  /\ Snapshot(r, c)
  /\ call' = [call EXCEPT ![r] = c]
  /\ UNCHANGED <<lifecycleVars, lock, image, attempt>>

\* Mutant: complete does not touch the row, so nothing conflicts with it.
UpdateSnapshotUnlessComplete(r) ==
  /\ pc[r] = "snapshot"
  /\ r \in overtaken => call[r].op = "complete"
  /\ Write(r, call[r], quote, seen[r])
  /\ UNCHANGED <<lifecycleVars, call, seen, checked, attempt, overtaken>>

\* Mutant: the attachment transactions run at READ COMMITTED.
UpdateReadCommitted(r) ==
  /\ pc[r] = "snapshot"
  /\ Write(r, call[r], quote, seen[r])
  /\ UNCHANGED <<lifecycleVars, call, seen, checked, attempt, overtaken>>

UpdateSnapshot(r) ==
  /\ pc[r] = "snapshot"
  /\ r \notin overtaken
  /\ Write(r, call[r], quote, seen[r])
  /\ UNCHANGED <<lifecycleVars, call, seen, checked, attempt, overtaken>>

\* Mutant: one attempt too many.
RetryOnceMore(r) ==
  /\ pc[r] = "snapshot"
  /\ lock = None
  /\ r \in overtaken
  /\ attempt[r] <= MaxAttempts
  /\ attempt' = [attempt EXCEPT ![r] = @ + 1]
  /\ Snapshot(r, call[r])
  /\ UNCHANGED <<lifecycleVars, lock, call, image>>

\* P2034: the row was updated since the snapshot; roll back and start again.
Retry(r) ==
  /\ pc[r] = "snapshot"
  /\ lock = None
  /\ r \in overtaken
  /\ attempt[r] < MaxAttempts
  /\ attempt' = [attempt EXCEPT ![r] = @ + 1]
  /\ Snapshot(r, call[r])
  /\ UNCHANGED <<lifecycleVars, lock, call, image>>

\* Mutant: the submission trusts the completed Documentação step.
AcceptedOnSteps(r) ==
  CASE call[r].op = "financial" -> CoversInstallment(image[r])
    [] call[r].op = "prefill" -> HasParty /\ events.prefilled = 0
    [] call[r].op = "submit" -> steps = Steps
    [] OTHER -> TRUE

\* What the statements after the UPDATE verify before the transaction may commit.
Accepted(r) ==
  CASE call[r].op = "financial" -> CoversInstallment(image[r])
    [] call[r].op = "prefill" -> HasParty /\ events.prefilled = 0
    [] call[r].op = "submit" -> steps = Steps /\ DocumentationComplete(image[r], limit)
    [] OTHER -> TRUE

Verify(r) ==
  /\ pc[r] = "updated"
  /\ Accepted(r)
  /\ pc' = [pc EXCEPT ![r] = "verified"]
  /\ checked' = [checked EXCEPT ![r] = IF call[r].op = "submit" THEN limit ELSE @]
  /\ UNCHANGED <<lifecycleVars, lock, call, seen, image, attempt, overtaken>>

Commit(r) ==
  /\ pc[r] = "verified"
  /\ quote' = image[r]
  /\ steps' = (steps \ StepsReset(call[r])) \cup StepsDone(call[r])
  /\ events' = EventsAfter(call[r])
  /\ linked' = LinkedAfter(call[r])
  /\ basis' = BasisAfter(call[r], image[r], checked[r])
  /\ overtaken' = overtaken \cup {q \in Requests : pc[q] = "snapshot"}
  /\ Release(r)
  /\ UNCHANGED limit

\* Mutant: the event was inserted in a transaction of its own.
RollbackKeepingEvent(r) ==
  /\ pc[r] # Idle
  /\ events' = IF pc[r] = "verified" THEN EventsAfter(call[r]) ELSE events
  /\ Release(r)
  /\ overtaken' = overtaken \ {r}
  /\ UNCHANGED <<quote, steps, linked, limit, basis>>

\* An exception thrown by a check, a conflict on the last attempt, a failed quotation,
\* a timeout or a crash: the request ends and its transaction leaves no trace.
Rollback(r) ==
  /\ pc[r] # Idle
  /\ Release(r)
  /\ overtaken' = overtaken \ {r}
  /\ UNCHANGED lifecycleVars

-----------------------------------------------------------------------------
(* Outside this program: the client's review and the administrator.        *)

\* One UPDATE of another program: it waits for the row lock too.
ClientConfirms ==
  /\ lock = None
  /\ quote.status = "client_review"
  /\ quote' = [quote EXCEPT !.status = "kyc_analysis"]
  /\ overtaken' = overtaken \cup {q \in Requests : pc[q] = "snapshot"}
  /\ UNCHANGED <<steps, events, linked, limit, basis,
                 lock, pc, call, seen, image, checked, attempt>>

\* The value getQuoteIncomeProofRequiredAbove returns changes when the cache reloads.
ChangeLimit ==
  /\ limit' \in Limits
  /\ UNCHANGED <<quote, steps, events, linked, basis, session>>

Init ==
  /\ LifecycleInit
  /\ lock = None
  /\ pc = [r \in Requests |-> Idle]
  /\ call = [r \in Requests |-> None]
  /\ seen = [r \in Requests |-> None]
  /\ image = [r \in Requests |-> None]
  /\ checked = [r \in Requests |-> None]
  /\ attempt = [r \in Requests |-> 1]
  /\ overtaken = {}

Next ==
  \/ \E r \in Requests, c \in Calls : UpdateDraft(r, c) \/ ReadDraft(r, c) \/ Open(r, c)
  \/ \E r \in Requests : \/ UpdateConditions(r) \/ UpdateSnapshot(r) \/ Retry(r)
                         \/ Verify(r) \/ Commit(r) \/ Rollback(r)
  \/ ClientConfirms
  \/ ChangeLimit

Spec == Init /\ [][Next]_vars
-----------------------------------------------------------------------------
TypeOK ==
  /\ LifecycleTypeOK
  /\ lock \in Requests \cup {None}
  /\ pc \in [Requests -> {Idle, "quoting", "snapshot", "updated", "verified"}]
  /\ call \in [Requests -> Calls \cup {None}]
  /\ seen \in [Requests -> Reads \cup {None}]
  /\ image \in [Requests -> Rows \cup {None}]
  /\ checked \in [Requests -> Limits \cup {None}]
  /\ attempt \in [Requests -> 1 .. MaxAttempts]
  /\ overtaken \subseteq Requests

\* What r read in its snapshot is still what is committed.
Current(r) ==
  /\ Editable(quote)
  /\ seen[r] = ReadBy(call[r], quote)
  /\ call[r].op = "upload" => events.file[call[r].file] = None
  /\ call[r].op = "remove" => call[r].file \in quote.files
  /\ call[r].op = "complete" =>
       checked[r] \in Limits /\ DocumentationComplete(quote, checked[r])

\* What r verified after its UPDATE still holds.
StillAccepted(r) ==
  CASE call[r].op = "financial" -> CoversInstallment(image[r])
    [] call[r].op = "prefill" -> HasParty /\ events.prefilled = 0
    [] call[r].op = "submit" -> /\ steps = Steps
                                /\ checked[r] \in Limits
                                /\ DocumentationComplete(image[r], checked[r])
    [] OTHER -> TRUE

Pending(r) ==
  /\ pc[r] # Idle => call[r] \in Calls
  /\ pc[r] = "quoting" => /\ call[r].op = "simulation"
                          /\ seen[r] \in Reads
                          /\ seen[r].birth \in BirthDates
  /\ pc[r] = "snapshot" => /\ call[r].op \in Serializable
                           /\ seen[r] \in Reads
                           /\ r \in overtaken \/ Current(r)
  /\ pc[r] \in {"updated", "verified"} =>
       /\ lock = r
       /\ Editable(quote)
       /\ image[r] = Written(call[r], quote, seen[r])
       /\ call[r].op = "simulation" => seen[r].birth \in BirthDates
       /\ call[r].op \in Serializable => Current(r)
  /\ pc[r] = "verified" => StillAccepted(r)

(***************************************************************************)
(* Between its first UPDATE and its commit a transaction owns the row: it  *)
(* alone holds the lock, the version it will commit is its change applied  *)
(* to the row that is committed now, and every check it made still holds.  *)
(* A snapshot nobody overtook still shows the committed state.             *)
(***************************************************************************)
PendingWritesCurrent == \A r \in Requests : Pending(r)

(***************************************************************************)
(* The statement-level transactions implement the atomic use cases: each   *)
(* commit is one use case, every other step of a request is invisible.     *)
(***************************************************************************)
ImplementsLifecycle == LifecycleSpec

(***************************************************************************)
(* The birth date of the proposal, not of the simulation, counts for the   *)
(* insurance (quote-draft-simulation.service.ts, lines 51-52): a           *)
(* stored quotation is one whose eligibility was judged on the birth date  *)
(* the proposal had when it was stored.  The code reads the date before it *)
(* awaits the providers and a Cadastro save may commit meanwhile.          *)
(***************************************************************************)
InsuredAtBirthOfRecord ==
  [][<<quote'.terms, quote'.insured>> # <<quote.terms, quote.insured>>
       => quote'.insured = quote.birth]_vars

(***************************************************************************)
(* A completed Financeiro step means the income left covers the instalment *)
(* (quote-draft-financial.service.ts, lines 97-101 refuse to complete it   *)
(* otherwise).  Saving a lower income, or the renewal prefill, keeps the   *)
(* step completed.                                                         *)
(***************************************************************************)
CompletedFinancialCovers == "financial" \in steps => CoversInstallment(quote)
=============================================================================
