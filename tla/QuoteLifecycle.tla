--------------------------- MODULE QuoteLifecycle ---------------------------
(***************************************************************************)
(* What the proposal promises its users: every use case of the wizard is   *)
(* one indivisible step, made of the row, the completed steps, the linked  *)
(* simulation and insurance rows and the domain events together.           *)
(* QuoteTransactions shows that the SQL transactions of the services       *)
(* implement it when requests run concurrently.                            *)
(***************************************************************************)
EXTENDS QuoteRules

VARIABLES
  quote,   \* the proposal's row
  steps,   \* quote_draft_steps: the completed steps
  events,  \* quote_events: how many submissions and prefills, the last event of each file
  linked,  \* conditions held by the simulation row and by cabure_insurance_proposals
  limit,   \* the value the configuration service returns for the income-proof limit
  basis    \* history: what the checks behind the completed steps and the submission used

lifecycleVars == <<quote, steps, events, linked, limit, basis>>

-----------------------------------------------------------------------------
LifecycleInit ==
  /\ quote \in [status : {"draft"}, terms : Terms, income : {0}, committed : {0},
                birth : BirthDates \cup {None}, insured : BirthDates \cup {None},
                files : {{}}]
  /\ quote.insured \in {quote.birth, None}
  /\ steps = {}
  /\ events = [submitted |-> 0, prefilled |-> 0, file |-> [a \in Attachments |-> None]]
  /\ linked \in [simulation : {quote.terms},
                 insurance  : {IF HasParty /\ quote.insured # None THEN quote.terms ELSE None}]
  /\ limit \in Limits
  /\ basis = [financial |-> None, documentation |-> None, submission |-> None]

\* Cadastro, Endereço, Parecer and Avalista; only Cadastro writes a field kept here.
SaveStep(s, b) ==
  /\ Editable(quote)
  /\ quote' = [quote EXCEPT !.birth = IF s = "registration" THEN b ELSE @]
  /\ steps' = steps \cup {s}
  /\ UNCHANGED <<events, linked, limit, basis>>

SaveIncome(i) ==
  /\ Editable(quote)
  /\ quote' = [quote EXCEPT !.income = i]
  /\ steps' = steps \cup {"income"}
  /\ UNCHANGED <<events, linked, limit, basis>>

SaveFinancial(c) ==
  /\ Editable(quote)
  /\ CoversInstallment([quote EXCEPT !.committed = c])
  /\ quote' = [quote EXCEPT !.committed = c]
  /\ steps' = steps \cup {"financial"}
  /\ basis' = [basis EXCEPT !.financial = quote.terms]
  /\ UNCHANGED <<events, linked, limit>>

\* b: the birth date the new insurance quotation was requested with.
ChangeTerms(t, b) ==
  /\ Editable(quote)
  /\ quote' = [quote EXCEPT !.terms = t, !.insured = b]
  /\ steps' = steps \ StepsDependingOnSimulation
  /\ linked' = [simulation |-> t, insurance |-> IF HasParty THEN t ELSE None]
  /\ basis' = [basis EXCEPT !.financial = None, !.documentation = None]
  /\ UNCHANGED <<events, limit>>

PrefillRenewal(i) ==
  /\ Editable(quote)
  /\ HasParty
  /\ events.prefilled = 0
  /\ quote' = [quote EXCEPT !.income = i]
  /\ events' = [events EXCEPT !.prefilled = 1]
  /\ UNCHANGED <<steps, linked, limit, basis>>

AddAttachment(a) ==
  /\ Editable(quote)
  /\ events.file[a] = None
  /\ quote' = [quote EXCEPT !.files = @ \cup {a}]
  /\ steps' = steps \ {"documentation"}
  /\ events' = [events EXCEPT !.file[a] = "added"]
  /\ basis' = [basis EXCEPT !.documentation = None]
  /\ UNCHANGED <<linked, limit>>

RemoveAttachment(a) ==
  /\ Editable(quote)
  /\ a \in quote.files
  /\ quote' = [quote EXCEPT !.files = @ \ {a}]
  /\ steps' = steps \ {"documentation"}
  /\ events' = [events EXCEPT !.file[a] = "removed"]
  /\ basis' = [basis EXCEPT !.documentation = None]
  /\ UNCHANGED <<linked, limit>>

\* l: the limit as it was when the check read it.
CompleteDocumentation(l) ==
  /\ Editable(quote)
  /\ DocumentationComplete(quote, l)
  /\ steps' = steps \cup {"documentation"}
  /\ basis' = [basis EXCEPT !.documentation = l]
  /\ UNCHANGED <<quote, events, linked, limit>>

Submit(l) ==
  /\ Editable(quote)
  /\ steps = Steps
  /\ DocumentationComplete(quote, l)
  /\ quote' = [quote EXCEPT !.status = "client_review"]
  /\ events' = [events EXCEPT !.submitted = @ + 1]
  /\ basis' = [basis EXCEPT !.submission = l]
  /\ UNCHANGED <<steps, linked, limit>>

\* The client confirms in another program that shares the database.
Confirm ==
  /\ quote.status = "client_review"
  /\ quote' = [quote EXCEPT !.status = "kyc_analysis"]
  /\ UNCHANGED <<steps, events, linked, limit, basis>>

\* An administrator edits the limit and the cached value follows.
EditLimit ==
  /\ limit' \in Limits
  /\ UNCHANGED <<quote, steps, events, linked, basis>>

LifecycleNext ==
  \/ \E s \in PlainSteps, b \in BirthDates : SaveStep(s, b)
  \/ \E i \in Incomes : SaveIncome(i) \/ PrefillRenewal(i)
  \/ \E c \in Commitments : SaveFinancial(c)
  \/ \E t \in Terms, b \in BirthDates : ChangeTerms(t, b)
  \/ \E a \in Attachments : AddAttachment(a) \/ RemoveAttachment(a)
  \/ \E l \in Limits : CompleteDocumentation(l) \/ Submit(l)
  \/ Confirm
  \/ EditLimit

LifecycleSpec == LifecycleInit /\ [][LifecycleNext]_lifecycleVars

-----------------------------------------------------------------------------
FileEvents == {None, "added", "removed"}

LifecycleTypeOK ==
  /\ quote \in Rows
  /\ steps \subseteq Steps
  /\ events \in [submitted : Nat, prefilled : Nat, file : [Attachments -> FileEvents]]
  /\ linked \in [simulation : Terms, insurance : Terms \cup {None}]
  /\ limit \in Limits
  /\ basis \in [financial : Terms \cup {None}, documentation : Limits \cup {None},
                submission : Limits \cup {None}]

(***************************************************************************)
(* A completed Documentação step is backed by the attachments and the      *)
(* amount the proposal has now, at the limit its check read: uploads,      *)
(* removals and new conditions send the step back to "not completed".      *)
(***************************************************************************)
DocumentationBacked ==
  "documentation" \in steps =>
    /\ basis.documentation # None
    /\ DocumentationComplete(quote, basis.documentation)

(***************************************************************************)
(* A completed Financeiro step was checked against the conditions the      *)
(* proposal has now (quote-draft-simulation.service.ts, lines 18-22).      *)
(***************************************************************************)
FinancialAssessed == "financial" \in steps => basis.financial = quote.terms

(***************************************************************************)
(* A proposal that left draft has the seven steps, the documents its       *)
(* amount demands at the limit the submission read, and exactly one        *)
(* draft_submitted event; a draft has none.                                *)
(***************************************************************************)
SubmissionSound ==
  IF Editable(quote)
  THEN events.submitted = 0
  ELSE /\ events.submitted = 1
       /\ steps = Steps
       /\ basis.submission # None
       /\ DocumentationComplete(quote, basis.submission)

(***************************************************************************)
(* The attachments are those whose last event is attachment_added: no      *)
(* upload is lost to another one and no removal is undone.                 *)
(***************************************************************************)
FilesMatchEvents == \A a \in Attachments : a \in quote.files <=> events.file[a] = "added"

\* Renewal data is copied at most once in the life of a proposal.
PrefilledAtMostOnce == events.prefilled <= 1

(***************************************************************************)
(* Proposal, simulation and insurance quotation agree on the conditions    *)
(* (quote-draft-simulation.service.ts, lines 31-34).                       *)
(***************************************************************************)
ConditionsAgree ==
  /\ linked.simulation = quote.terms
  /\ linked.insurance \in {quote.terms, None}

(***************************************************************************)
(* Once the proposal has left draft nothing but its status changes, and    *)
(* the status never goes back.                                             *)
(***************************************************************************)
FrozenStep ==
  ~Editable(quote) =>
    /\ UNCHANGED <<steps, events, linked, basis>>
    /\ quote' = [quote EXCEPT !.status = quote'.status]
    /\ quote'.status # "draft"

FrozenAfterDraft == [][FrozenStep]_lifecycleVars
=============================================================================
