----------------------------- MODULE QuoteRules -----------------------------
(***************************************************************************)
(* The data of one proposal (a row of public.quotes, its rows in           *)
(* quote_draft_steps and quote_events) and the business rules that the     *)
(* wizard's services apply to it.  The rules are pure operators: they are  *)
(* shared by QuoteLifecycle, where every use case is one atomic step, and  *)
(* by QuoteTransactions, where it is a sequence of SQL statements.         *)
(*                                                                         *)
(* Data the rules never look at is left out.  What a row keeps is:         *)
(*   status     quotes.quote_status                                        *)
(*   terms      product, amount, instalments and the stored Celcoin result *)
(*   income     personal_income + activity_income                          *)
(*   committed  the sum of debts and loans saved by the Financeiro step    *)
(*   birth      birth_date, written by the Cadastro step                   *)
(*   insured    the birth date the stored insurance was judged eligible on *)
(*   files      the ids in the four attachment columns                     *)
(***************************************************************************)
EXTENDS Naturals, FiniteSets

CONSTANTS
  PlainSteps,      \* wizard steps whose save touches no field kept here
  Terms,           \* commercial conditions a simulation can produce
  Amount,          \* Amount[t]: finance_amount of the conditions t
  Installment,     \* Installment[t]: the monthly instalment of t
  Limits,          \* values of QUOTE_INCOME_PROOF_REQUIRED_ABOVE
  Incomes,         \* values of the considered income
  Commitments,     \* values of expenses plus loan instalments
  BirthDates,      \* values of birth_date
  Attachments,     \* attachment ids (randomUUID: an id is used once)
  Kind,            \* Kind[a]: the attachment type of a
  MandatoryKinds,  \* the kinds every proposal needs
  IncomeProof,     \* the kind needed above the limit
  HasParty,        \* whether the row has a party_id
  None             \* no value: an empty slot, NULL

ASSUME RulesAssumption ==
  /\ {"income", "financial", "documentation"} \cap PlainSteps = {}
  /\ Amount \in [Terms -> Nat]
  /\ Installment \in [Terms -> Nat]
  /\ Limits \subseteq Nat
  /\ Incomes \subseteq Nat
  /\ Commitments \subseteq Nat
  /\ 0 \in Incomes
  /\ 0 \in Commitments
  /\ HasParty \in BOOLEAN
  /\ None \notin Terms
  /\ None \notin Limits
  /\ None \notin BirthDates
  /\ None \notin {"added", "removed"}
-----------------------------------------------------------------------------
Statuses == {"draft", "client_review", "kyc_analysis"}

\* REQUIRED_DRAFT_STEPS: the seven steps a submission asks for.
Steps == PlainSteps \cup {"income", "financial", "documentation"}

\* The steps whose check depends on the amount and the instalment.
StepsDependingOnSimulation == {"financial", "documentation"}

Rows == [status    : Statuses,
         terms     : Terms,
         income    : Incomes,
         committed : Commitments,
         birth     : BirthDates \cup {None},
         insured   : BirthDates \cup {None},
         files     : SUBSET Attachments]

Editable(row) == row.status = "draft"

-----------------------------------------------------------------------------
(* Documentação: which attachments are missing.  Every income proof that   *)
(* upload accepts carries its incomeProofType, so the classification test  *)
(* of the code can only fail for records this program never writes.        *)

RequiredKinds(terms, limit) ==
  MandatoryKinds \cup (IF Amount[terms] > limit THEN {IncomeProof} ELSE {})

DocumentationComplete(row, limit) ==
  \A k \in RequiredKinds(row.terms, limit) : \E a \in row.files : Kind[a] = k

\* The attachment column that holds the kind of a.
Column(files, a) == {b \in files : Kind[b] = Kind[a]}

\* Writing back one column replaces that column and no other.
WithColumn(files, a, column) == (files \ Column(files, a)) \cup column

-----------------------------------------------------------------------------
(* Financeiro: the income left after the commitments covers the instalment *)

CoversInstallment(row) == row.income >= row.committed + Installment[row.terms]
=============================================================================
