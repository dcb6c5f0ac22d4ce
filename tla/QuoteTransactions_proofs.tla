---------------------- MODULE QuoteTransactions_proofs ----------------------
(***************************************************************************)
(* Part I proves that the atomic use cases of a proposal keep its          *)
(* promises, for every set of steps, conditions, limits, incomes and       *)
(* attachments.  Each property of QuoteLifecycle is inductive once types   *)
(* are known, so a theorem has three parts: it holds initially, every use  *)
(* case keeps it, and the temporal conclusion.                             *)
(*                                                                         *)
(* Part II: the statement-level transactions implement the atomic use      *)
(* cases, for any number of requests and attempts.  The inductive          *)
(* invariant is TypeOK /\ PendingWritesCurrent: a transaction that holds   *)
(* the row lock is about to commit a change of the committed row, with     *)
(* checks that still hold.  From it every Commit is one action of          *)
(* QuoteLifecycle, and the theorems of part I carry over.                  *)
(***************************************************************************)
EXTENDS QuoteTransactions, TLAPS

-----------------------------------------------------------------------------
(* I. The atomic use cases.                                                *)

USE DEF Editable, Steps, StepsDependingOnSimulation

-----------------------------------------------------------------------------
(* Every use case writes values of the right type.                         *)
LEMMA LifecycleTypesKept == LifecycleTypeOK /\ [LifecycleNext]_lifecycleVars => LifecycleTypeOK'
<1> SUFFICES ASSUME LifecycleTypeOK, [LifecycleNext]_lifecycleVars PROVE LifecycleTypeOK'
  OBVIOUS
<1> USE DEF LifecycleTypeOK, Rows, Statuses
<1>1. ASSUME NEW s \in PlainSteps, NEW b \in BirthDates, SaveStep(s, b) PROVE LifecycleTypeOK'
  BY <1>1 DEF SaveStep
<1>2. ASSUME NEW i \in Incomes, SaveIncome(i) PROVE LifecycleTypeOK'
  BY <1>2 DEF SaveIncome
<1>3. ASSUME NEW i \in Incomes, PrefillRenewal(i) PROVE LifecycleTypeOK'
  BY <1>3 DEF PrefillRenewal
<1>4. ASSUME NEW c \in Commitments, SaveFinancial(c) PROVE LifecycleTypeOK'
  BY <1>4 DEF SaveFinancial
<1>5. ASSUME NEW t \in Terms, NEW b \in BirthDates, ChangeTerms(t, b) PROVE LifecycleTypeOK'
  BY <1>5 DEF ChangeTerms
<1>6. ASSUME NEW a \in Attachments, AddAttachment(a) PROVE LifecycleTypeOK'
  BY <1>6 DEF AddAttachment, FileEvents
<1>7. ASSUME NEW a \in Attachments, RemoveAttachment(a) PROVE LifecycleTypeOK'
  BY <1>7 DEF RemoveAttachment, FileEvents
<1>8. ASSUME NEW l \in Limits, CompleteDocumentation(l) PROVE LifecycleTypeOK'
  BY <1>8 DEF CompleteDocumentation
<1>9. ASSUME NEW l \in Limits, Submit(l) PROVE LifecycleTypeOK'
  BY <1>9 DEF Submit
<1>10. CASE Confirm
  BY <1>10 DEF Confirm
<1>11. CASE EditLimit
  BY <1>11 DEF EditLimit
<1>12. CASE UNCHANGED lifecycleVars
  BY <1>12 DEF lifecycleVars
<1> QED
  BY <1>1, <1>2, <1>3, <1>4, <1>5, <1>6, <1>7, <1>8, <1>9, <1>10, <1>11, <1>12 DEF LifecycleNext

(* A new draft has the types of its columns.                               *)
LEMMA LifecycleTypesInitially == LifecycleInit => LifecycleTypeOK
  BY RulesAssumption DEF LifecycleInit, LifecycleTypeOK, Rows, Statuses, FileEvents

(* Every reachable proposal, its steps, events and linked rows have the    *)
(* types of their columns.                                                 *)
THEOREM LifecycleTypes == LifecycleSpec => []LifecycleTypeOK
  BY LifecycleTypesInitially, LifecycleTypesKept, PTL DEF LifecycleSpec

-----------------------------------------------------------------------------
(* Uploads, removals and new conditions send a completed Documentação      *)
(* step back: as long as it is completed, the attachments cover what the   *)
(* amount demanded at the limit its check read.                            *)
THEOREM DocumentationStaysBacked == LifecycleSpec => []DocumentationBacked
<1>1. LifecycleInit => DocumentationBacked
  BY DEF LifecycleInit, DocumentationBacked
<1>2. LifecycleTypeOK /\ DocumentationBacked /\ [LifecycleNext]_lifecycleVars => DocumentationBacked'
  <2> SUFFICES ASSUME LifecycleTypeOK, DocumentationBacked, [LifecycleNext]_lifecycleVars PROVE DocumentationBacked'
    OBVIOUS
  <2> USE RulesAssumption DEF LifecycleTypeOK, Rows, DocumentationBacked, DocumentationComplete, RequiredKinds
  <2>1. ASSUME NEW s \in PlainSteps, NEW b \in BirthDates, SaveStep(s, b) PROVE DocumentationBacked'
    BY <2>1 DEF SaveStep
  <2>2. ASSUME NEW i \in Incomes, SaveIncome(i) PROVE DocumentationBacked'
    BY <2>2 DEF SaveIncome
  <2>3. ASSUME NEW i \in Incomes, PrefillRenewal(i) PROVE DocumentationBacked'
    BY <2>3 DEF PrefillRenewal
  <2>4. ASSUME NEW c \in Commitments, SaveFinancial(c) PROVE DocumentationBacked'
    BY <2>4 DEF SaveFinancial
  <2>5. ASSUME NEW t \in Terms, NEW b \in BirthDates, ChangeTerms(t, b) PROVE DocumentationBacked'
    BY <2>5 DEF ChangeTerms
  <2>6. ASSUME NEW a \in Attachments, AddAttachment(a) PROVE DocumentationBacked'
    BY <2>6 DEF AddAttachment
  <2>7. ASSUME NEW a \in Attachments, RemoveAttachment(a) PROVE DocumentationBacked'
    BY <2>7 DEF RemoveAttachment
  <2>8. ASSUME NEW l \in Limits, CompleteDocumentation(l) PROVE DocumentationBacked'
    BY <2>8 DEF CompleteDocumentation
  <2>9. ASSUME NEW l \in Limits, Submit(l) PROVE DocumentationBacked'
    BY <2>9 DEF Submit
  <2>10. CASE Confirm
    BY <2>10 DEF Confirm
  <2>11. CASE EditLimit
    BY <2>11 DEF EditLimit
  <2>12. CASE UNCHANGED lifecycleVars
    BY <2>12 DEF lifecycleVars
  <2> QED
    BY <2>1, <2>2, <2>3, <2>4, <2>5, <2>6, <2>7, <2>8, <2>9, <2>10, <2>11, <2>12 DEF LifecycleNext
<1> QED
  BY <1>1, <1>2, LifecycleTypes, PTL DEF LifecycleSpec

(* A completed Financeiro step was checked against the conditions the      *)
(* proposal has now: new conditions delete the step.                       *)
THEOREM FinancialStaysAssessed == LifecycleSpec => []FinancialAssessed
<1>1. LifecycleInit => FinancialAssessed
  BY DEF LifecycleInit, FinancialAssessed
<1>2. LifecycleTypeOK /\ FinancialAssessed /\ [LifecycleNext]_lifecycleVars => FinancialAssessed'
  <2> SUFFICES ASSUME LifecycleTypeOK, FinancialAssessed, [LifecycleNext]_lifecycleVars PROVE FinancialAssessed'
    OBVIOUS
  <2> USE RulesAssumption DEF LifecycleTypeOK, Rows, FinancialAssessed
  <2>1. ASSUME NEW s \in PlainSteps, NEW b \in BirthDates, SaveStep(s, b) PROVE FinancialAssessed'
    BY <2>1 DEF SaveStep
  <2>2. ASSUME NEW i \in Incomes, SaveIncome(i) PROVE FinancialAssessed'
    BY <2>2 DEF SaveIncome
  <2>3. ASSUME NEW i \in Incomes, PrefillRenewal(i) PROVE FinancialAssessed'
    BY <2>3 DEF PrefillRenewal
  <2>4. ASSUME NEW c \in Commitments, SaveFinancial(c) PROVE FinancialAssessed'
    BY <2>4 DEF SaveFinancial
  <2>5. ASSUME NEW t \in Terms, NEW b \in BirthDates, ChangeTerms(t, b) PROVE FinancialAssessed'
    BY <2>5 DEF ChangeTerms
  <2>6. ASSUME NEW a \in Attachments, AddAttachment(a) PROVE FinancialAssessed'
    BY <2>6 DEF AddAttachment
  <2>7. ASSUME NEW a \in Attachments, RemoveAttachment(a) PROVE FinancialAssessed'
    BY <2>7 DEF RemoveAttachment
  <2>8. ASSUME NEW l \in Limits, CompleteDocumentation(l) PROVE FinancialAssessed'
    BY <2>8 DEF CompleteDocumentation
  <2>9. ASSUME NEW l \in Limits, Submit(l) PROVE FinancialAssessed'
    BY <2>9 DEF Submit
  <2>10. CASE Confirm
    BY <2>10 DEF Confirm
  <2>11. CASE EditLimit
    BY <2>11 DEF EditLimit
  <2>12. CASE UNCHANGED lifecycleVars
    BY <2>12 DEF lifecycleVars
  <2> QED
    BY <2>1, <2>2, <2>3, <2>4, <2>5, <2>6, <2>7, <2>8, <2>9, <2>10, <2>11, <2>12 DEF LifecycleNext
<1> QED
  BY <1>1, <1>2, LifecycleTypes, PTL DEF LifecycleSpec

(* A proposal out of draft was submitted once, with its seven steps and    *)
(* its documents; a draft was never submitted.                             *)
THEOREM SubmissionStaysSound == LifecycleSpec => []SubmissionSound
<1>1. LifecycleInit => SubmissionSound
  BY DEF LifecycleInit, SubmissionSound
<1>2. LifecycleTypeOK /\ SubmissionSound /\ [LifecycleNext]_lifecycleVars => SubmissionSound'
  <2> SUFFICES ASSUME LifecycleTypeOK, SubmissionSound, [LifecycleNext]_lifecycleVars PROVE SubmissionSound'
    OBVIOUS
  <2> USE RulesAssumption DEF LifecycleTypeOK, Rows, Statuses, SubmissionSound, DocumentationComplete, RequiredKinds
  <2>1. ASSUME NEW s \in PlainSteps, NEW b \in BirthDates, SaveStep(s, b) PROVE SubmissionSound'
    BY <2>1 DEF SaveStep
  <2>2. ASSUME NEW i \in Incomes, SaveIncome(i) PROVE SubmissionSound'
    BY <2>2 DEF SaveIncome
  <2>3. ASSUME NEW i \in Incomes, PrefillRenewal(i) PROVE SubmissionSound'
    BY <2>3 DEF PrefillRenewal
  <2>4. ASSUME NEW c \in Commitments, SaveFinancial(c) PROVE SubmissionSound'
    BY <2>4 DEF SaveFinancial
  <2>5. ASSUME NEW t \in Terms, NEW b \in BirthDates, ChangeTerms(t, b) PROVE SubmissionSound'
    BY <2>5 DEF ChangeTerms
  <2>6. ASSUME NEW a \in Attachments, AddAttachment(a) PROVE SubmissionSound'
    BY <2>6 DEF AddAttachment
  <2>7. ASSUME NEW a \in Attachments, RemoveAttachment(a) PROVE SubmissionSound'
    BY <2>7 DEF RemoveAttachment
  <2>8. ASSUME NEW l \in Limits, CompleteDocumentation(l) PROVE SubmissionSound'
    BY <2>8 DEF CompleteDocumentation
  <2>9. ASSUME NEW l \in Limits, Submit(l) PROVE SubmissionSound'
    BY <2>9 DEF Submit
  <2>10. CASE Confirm
    BY <2>10 DEF Confirm
  <2>11. CASE EditLimit
    BY <2>11 DEF EditLimit
  <2>12. CASE UNCHANGED lifecycleVars
    BY <2>12 DEF lifecycleVars
  <2> QED
    BY <2>1, <2>2, <2>3, <2>4, <2>5, <2>6, <2>7, <2>8, <2>9, <2>10, <2>11, <2>12 DEF LifecycleNext
<1> QED
  BY <1>1, <1>2, LifecycleTypes, PTL DEF LifecycleSpec

(* The attachment columns hold exactly the files whose last event is an    *)
(* addition.                                                               *)
THEOREM FilesFollowEvents == LifecycleSpec => []FilesMatchEvents
<1>1. LifecycleInit => FilesMatchEvents
  BY RulesAssumption DEF LifecycleInit, FilesMatchEvents
<1>2. LifecycleTypeOK /\ FilesMatchEvents /\ [LifecycleNext]_lifecycleVars => FilesMatchEvents'
  <2> SUFFICES ASSUME LifecycleTypeOK, FilesMatchEvents, [LifecycleNext]_lifecycleVars PROVE FilesMatchEvents'
    OBVIOUS
  <2> USE DEF LifecycleTypeOK, Rows, FilesMatchEvents, FileEvents
  <2>1. ASSUME NEW s \in PlainSteps, NEW b \in BirthDates, SaveStep(s, b) PROVE FilesMatchEvents'
    BY <2>1 DEF SaveStep
  <2>2. ASSUME NEW i \in Incomes, SaveIncome(i) PROVE FilesMatchEvents'
    BY <2>2 DEF SaveIncome
  <2>3. ASSUME NEW i \in Incomes, PrefillRenewal(i) PROVE FilesMatchEvents'
    BY <2>3 DEF PrefillRenewal
  <2>4. ASSUME NEW c \in Commitments, SaveFinancial(c) PROVE FilesMatchEvents'
    BY <2>4 DEF SaveFinancial
  <2>5. ASSUME NEW t \in Terms, NEW b \in BirthDates, ChangeTerms(t, b) PROVE FilesMatchEvents'
    BY <2>5 DEF ChangeTerms
  <2>6. ASSUME NEW a \in Attachments, AddAttachment(a) PROVE FilesMatchEvents'
    BY <2>6 DEF AddAttachment
  <2>7. ASSUME NEW a \in Attachments, RemoveAttachment(a) PROVE FilesMatchEvents'
    BY <2>7 DEF RemoveAttachment
  <2>8. ASSUME NEW l \in Limits, CompleteDocumentation(l) PROVE FilesMatchEvents'
    BY <2>8 DEF CompleteDocumentation
  <2>9. ASSUME NEW l \in Limits, Submit(l) PROVE FilesMatchEvents'
    BY <2>9 DEF Submit
  <2>10. CASE Confirm
    BY <2>10 DEF Confirm
  <2>11. CASE EditLimit
    BY <2>11 DEF EditLimit
  <2>12. CASE UNCHANGED lifecycleVars
    BY <2>12 DEF lifecycleVars
  <2> QED
    BY <2>1, <2>2, <2>3, <2>4, <2>5, <2>6, <2>7, <2>8, <2>9, <2>10, <2>11, <2>12 DEF LifecycleNext
<1> QED
  BY <1>1, <1>2, LifecycleTypes, PTL DEF LifecycleSpec

(* The renewal prefill of a proposal happens at most once.                 *)
THEOREM PrefillHappensOnce == LifecycleSpec => []PrefilledAtMostOnce
<1>1. LifecycleInit => PrefilledAtMostOnce
  BY DEF LifecycleInit, PrefilledAtMostOnce
<1>2. LifecycleTypeOK /\ PrefilledAtMostOnce /\ [LifecycleNext]_lifecycleVars => PrefilledAtMostOnce'
  <2> SUFFICES ASSUME LifecycleTypeOK, PrefilledAtMostOnce, [LifecycleNext]_lifecycleVars PROVE PrefilledAtMostOnce'
    OBVIOUS
  <2> USE DEF LifecycleTypeOK, Rows, PrefilledAtMostOnce
  <2>1. ASSUME NEW s \in PlainSteps, NEW b \in BirthDates, SaveStep(s, b) PROVE PrefilledAtMostOnce'
    BY <2>1 DEF SaveStep
  <2>2. ASSUME NEW i \in Incomes, SaveIncome(i) PROVE PrefilledAtMostOnce'
    BY <2>2 DEF SaveIncome
  <2>3. ASSUME NEW i \in Incomes, PrefillRenewal(i) PROVE PrefilledAtMostOnce'
    BY <2>3 DEF PrefillRenewal
  <2>4. ASSUME NEW c \in Commitments, SaveFinancial(c) PROVE PrefilledAtMostOnce'
    BY <2>4 DEF SaveFinancial
  <2>5. ASSUME NEW t \in Terms, NEW b \in BirthDates, ChangeTerms(t, b) PROVE PrefilledAtMostOnce'
    BY <2>5 DEF ChangeTerms
  <2>6. ASSUME NEW a \in Attachments, AddAttachment(a) PROVE PrefilledAtMostOnce'
    BY <2>6 DEF AddAttachment
  <2>7. ASSUME NEW a \in Attachments, RemoveAttachment(a) PROVE PrefilledAtMostOnce'
    BY <2>7 DEF RemoveAttachment
  <2>8. ASSUME NEW l \in Limits, CompleteDocumentation(l) PROVE PrefilledAtMostOnce'
    BY <2>8 DEF CompleteDocumentation
  <2>9. ASSUME NEW l \in Limits, Submit(l) PROVE PrefilledAtMostOnce'
    BY <2>9 DEF Submit
  <2>10. CASE Confirm
    BY <2>10 DEF Confirm
  <2>11. CASE EditLimit
    BY <2>11 DEF EditLimit
  <2>12. CASE UNCHANGED lifecycleVars
    BY <2>12 DEF lifecycleVars
  <2> QED
    BY <2>1, <2>2, <2>3, <2>4, <2>5, <2>6, <2>7, <2>8, <2>9, <2>10, <2>11, <2>12 DEF LifecycleNext
<1> QED
  BY <1>1, <1>2, LifecycleTypes, PTL DEF LifecycleSpec

(* Proposal, simulation and insurance quotation hold the same conditions.  *)
THEOREM ConditionsStayTogether == LifecycleSpec => []ConditionsAgree
<1>1. LifecycleInit => ConditionsAgree
  BY DEF LifecycleInit, ConditionsAgree
<1>2. LifecycleTypeOK /\ ConditionsAgree /\ [LifecycleNext]_lifecycleVars => ConditionsAgree'
  <2> SUFFICES ASSUME LifecycleTypeOK, ConditionsAgree, [LifecycleNext]_lifecycleVars PROVE ConditionsAgree'
    OBVIOUS
  <2> USE DEF LifecycleTypeOK, Rows, ConditionsAgree
  <2>1. ASSUME NEW s \in PlainSteps, NEW b \in BirthDates, SaveStep(s, b) PROVE ConditionsAgree'
    BY <2>1 DEF SaveStep
  <2>2. ASSUME NEW i \in Incomes, SaveIncome(i) PROVE ConditionsAgree'
    BY <2>2 DEF SaveIncome
  <2>3. ASSUME NEW i \in Incomes, PrefillRenewal(i) PROVE ConditionsAgree'
    BY <2>3 DEF PrefillRenewal
  <2>4. ASSUME NEW c \in Commitments, SaveFinancial(c) PROVE ConditionsAgree'
    BY <2>4 DEF SaveFinancial
  <2>5. ASSUME NEW t \in Terms, NEW b \in BirthDates, ChangeTerms(t, b) PROVE ConditionsAgree'
    BY <2>5 DEF ChangeTerms
  <2>6. ASSUME NEW a \in Attachments, AddAttachment(a) PROVE ConditionsAgree'
    BY <2>6 DEF AddAttachment
  <2>7. ASSUME NEW a \in Attachments, RemoveAttachment(a) PROVE ConditionsAgree'
    BY <2>7 DEF RemoveAttachment
  <2>8. ASSUME NEW l \in Limits, CompleteDocumentation(l) PROVE ConditionsAgree'
    BY <2>8 DEF CompleteDocumentation
  <2>9. ASSUME NEW l \in Limits, Submit(l) PROVE ConditionsAgree'
    BY <2>9 DEF Submit
  <2>10. CASE Confirm
    BY <2>10 DEF Confirm
  <2>11. CASE EditLimit
    BY <2>11 DEF EditLimit
  <2>12. CASE UNCHANGED lifecycleVars
    BY <2>12 DEF lifecycleVars
  <2> QED
    BY <2>1, <2>2, <2>3, <2>4, <2>5, <2>6, <2>7, <2>8, <2>9, <2>10, <2>11, <2>12 DEF LifecycleNext
<1> QED
  BY <1>1, <1>2, LifecycleTypes, PTL DEF LifecycleSpec

(* Out of draft, only the status moves, and never back to draft.           *)
THEOREM NothingChangesAfterDraft == LifecycleSpec => FrozenAfterDraft
<1>1. LifecycleTypeOK /\ [LifecycleNext]_lifecycleVars => [FrozenStep]_lifecycleVars
  <2> SUFFICES ASSUME LifecycleTypeOK, [LifecycleNext]_lifecycleVars PROVE [FrozenStep]_lifecycleVars
    OBVIOUS
  <2>1. CASE Confirm
    BY <2>1 DEF Confirm, FrozenStep, LifecycleTypeOK, Rows
  <2>2. CASE EditLimit
    BY <2>2 DEF EditLimit, FrozenStep, LifecycleTypeOK, Rows
  <2>3. ASSUME LifecycleNext, ~Confirm, ~EditLimit PROVE Editable(quote)
    BY <2>3 DEF LifecycleNext, SaveStep, SaveIncome, PrefillRenewal, SaveFinancial, ChangeTerms,
         AddAttachment, RemoveAttachment, CompleteDocumentation, Submit
  <2> QED
    BY <2>1, <2>2, <2>3 DEF FrozenStep
<1> QED
  BY <1>1, LifecycleTypes, PTL DEF LifecycleSpec, FrozenAfterDraft
-----------------------------------------------------------------------------
(* II. The transactions implement them.                                    *)
HIDE DEF Editable, Steps, StepsDependingOnSimulation

Operations == {"save", "income", "prefill", "financial", "simulation",
               "upload", "remove", "complete", "submit"}

-----------------------------------------------------------------------------
(* Lemmas about the operators of the model.                                *)

(* The input of each operation: the fields its kind of call carries.       *)
LEMMA CallFields ==
  ASSUME NEW c \in Calls
  PROVE  /\ c.op \in Operations
         /\ c.op = "save" => c.step \in PlainSteps /\ c.birth \in BirthDates
         /\ c.op \in {"income", "prefill"} => c.income \in Incomes
         /\ c.op = "financial" => c.committed \in Commitments
         /\ c.op = "simulation" => c.terms \in Terms
         /\ c.op \in {"upload", "remove"} => c.file \in Attachments
  BY DEF Calls, Operations

(* What a request reads of a row of the right type has the right type; a   *)
(* change of conditions reads the birth date and no attachment.            *)
LEMMA ReadByType ==
  ASSUME NEW c \in Calls, NEW row \in Rows
  PROVE  /\ ReadBy(c, row) \in Reads
         /\ c.op = "simulation" =>
              ReadBy(c, row).files = {} /\ ReadBy(c, row).birth = row.birth
  BY CallFields DEF ReadBy, Reads, Rows, Column, Operations

(* An UPDATE writes a row of the right type.                               *)
LEMMA WrittenType ==
  ASSUME NEW c \in Calls, NEW row \in Rows, NEW old,
         c.op = "simulation" => old.birth \in BirthDates,
         c.op \in {"upload", "remove"} => old \in Reads
  PROVE  Written(c, row, old) \in Rows
<1>1. CASE c.op = "save"
  BY <1>1, CallFields DEF Written, Rows
<1>2. CASE c.op \in {"income", "prefill"}
  BY <1>2, CallFields DEF Written, Rows
<1>3. CASE c.op = "financial"
  BY <1>3, CallFields DEF Written, Rows
<1>4. CASE c.op = "simulation"
  BY <1>4, CallFields DEF Written, Rows
<1>5. CASE c.op = "upload"
  BY <1>5, CallFields DEF Written, Rows, Reads, WithColumn, Column
<1>6. CASE c.op = "remove"
  BY <1>6, CallFields DEF Written, Rows, Reads, WithColumn, Column
<1>7. CASE c.op = "complete"
  BY <1>7 DEF Written
<1>8. CASE c.op = "submit"
  BY <1>8 DEF Written, Rows, Statuses
<1> QED
  BY <1>1, <1>2, <1>3, <1>4, <1>5, <1>6, <1>7, <1>8, CallFields DEF Operations

(* Writing back one attachment column, with one id more or less, adds or   *)
(* removes that id and keeps the other columns.                            *)
LEMMA ColumnRewrite ==
  ASSUME NEW a \in Attachments, NEW files \in SUBSET Attachments
  PROVE  /\ WithColumn(files, a, Column(files, a) \cup {a}) = files \cup {a}
         /\ WithColumn(files, a, Column(files, a) \ {a}) = files \ {a}
  BY DEF WithColumn, Column

(* What the statements of an operation leave of the bookkeeping of checks: *)
(* a deleted step's entry is forgotten and nothing else changes.           *)
LEMMA BasisForgets ==
  ASSUME LifecycleTypeOK, NEW c \in Calls, NEW row, NEW l,
         c.op \notin {"financial", "complete", "submit"}
  PROVE  /\ c.op = "simulation" =>
              BasisAfter(c, row, l) = [basis EXCEPT !.financial = None, !.documentation = None]
         /\ c.op \in {"upload", "remove"} =>
              BasisAfter(c, row, l) = [basis EXCEPT !.documentation = None]
         /\ c.op \in {"save", "income", "prefill"} => BasisAfter(c, row, l) = basis
<1>1. BasisAfter(c, row, l) = [s \in DOMAIN basis |-> IF s \in StepsReset(c) THEN None ELSE basis[s]]
  BY CallFields DEF BasisAfter, Operations
<1>2. /\ basis = [s \in DOMAIN basis |-> basis[s]]
      /\ DOMAIN basis = {"financial", "documentation", "submission"}
  BY DEF LifecycleTypeOK
<1>3. CASE c.op = "simulation"
  <2>1. StepsReset(c) = {"financial", "documentation"}
    BY <1>3 DEF StepsReset, StepsDependingOnSimulation
  <2> QED
    BY <1>1, <1>2, <1>3, <2>1
<1>4. CASE c.op \in {"upload", "remove"}
  <2>1. StepsReset(c) = {"documentation"}
    BY <1>4 DEF StepsReset
  <2> QED
    BY <1>1, <1>2, <1>4, <2>1
<1>5. CASE c.op \in {"save", "income", "prefill"}
  <2>1. StepsReset(c) = {}
    BY <1>5 DEF StepsReset
  <2> QED
    BY <1>1, <1>2, <1>5, <2>1
<1> QED
  BY <1>3, <1>4, <1>5, CallFields DEF Operations

(* Only the simulation and the attachments write what they read before.    *)
LEMMA WrittenIgnoresRead ==
  ASSUME NEW c \in Calls, NEW row, NEW old, NEW other,
         c.op \notin {"simulation", "upload", "remove"}
  PROVE  Written(c, row, old) = Written(c, row, other)
  BY CallFields DEF Written, Operations

-----------------------------------------------------------------------------
(* The inductive invariant.                                                *)

Inv == TypeOK /\ PendingWritesCurrent

(* A step that leaves the committed row and q's session alone, and keeps   *)
(* q's lock, disturbs nothing q relies on.                                 *)
LEMMA OthersUndisturbed ==
  ASSUME NEW q \in Requests, Pending(q),
         UNCHANGED <<quote, steps, events>>,
         pc'[q] = pc[q], call'[q] = call[q], seen'[q] = seen[q],
         image'[q] = image[q], checked'[q] = checked[q],
         lock = q => lock' = q,
         q \in overtaken => q \in overtaken'
  PROVE  Pending(q)'
  BY DEF Pending, Current, StillAccepted

(* Every step of the requests keeps what a transaction relies on.          *)
LEMMA PendingStep == Inv /\ [Next]_vars => PendingWritesCurrent'
<1> SUFFICES ASSUME Inv, [Next]_vars, NEW q \in Requests PROVE Pending(q)'
  BY DEF PendingWritesCurrent
<1>0. /\ TypeOK
      /\ \A r \in Requests : Pending(r)
      /\ quote \in Rows
      /\ limit \in Limits
  BY DEF Inv, PendingWritesCurrent, TypeOK, LifecycleTypeOK
<1>1. ASSUME NEW r \in Requests, NEW c \in Calls, UpdateDraft(r, c) PROVE Pending(q)'
  <2>1. CASE q = r
    <3>1. Written(c, quote, ReadBy(c, quote)) = Written(c, quote, seen[r])
      BY <1>1, WrittenIgnoresRead DEF UpdateDraft, Serializable
    <3> QED
      BY <1>0, <1>1, <2>1, <3>1
         DEF UpdateDraft, Write, Pending, TypeOK, Serializable, Idle, lifecycleVars
  <2>2. CASE q # r
    BY <1>0, <1>1, <2>2, OthersUndisturbed, RequestsAssumption
       DEF UpdateDraft, Write, TypeOK, lifecycleVars
  <2> QED
    BY <2>1, <2>2
<1>2. ASSUME NEW r \in Requests, NEW c \in Calls, ReadDraft(r, c) PROVE Pending(q)'
  <2>1. CASE q = r
    <3>1. ReadBy(c, quote) \in Reads /\ ReadBy(c, quote).birth \in BirthDates
      BY <1>0, <1>2, ReadByType DEF ReadDraft, Rows
    <3> QED
      BY <1>0, <1>2, <2>1, <3>1 DEF ReadDraft, Pending, TypeOK, Idle
  <2>2. CASE q # r
    BY <1>0, <1>2, <2>2, OthersUndisturbed DEF ReadDraft, TypeOK, lifecycleVars
  <2> QED
    BY <2>1, <2>2
<1>3. ASSUME NEW r \in Requests, NEW c \in Calls, Open(r, c) PROVE Pending(q)'
  <2>1. CASE q = r
    BY <1>0, <1>3, <2>1, ReadByType
       DEF Open, Snapshot, Pending, Current, TypeOK, Idle, Serializable, lifecycleVars
  <2>2. CASE q # r
    BY <1>0, <1>3, <2>2, OthersUndisturbed DEF Open, Snapshot, TypeOK, lifecycleVars
  <2> QED
    BY <2>1, <2>2
<1>4. ASSUME NEW r \in Requests, UpdateConditions(r) PROVE Pending(q)'
  <2>1. CASE q = r
    BY <1>0, <1>4, <2>1
       DEF UpdateConditions, Write, Pending, TypeOK, Serializable, Idle, lifecycleVars
  <2>2. CASE q # r
    BY <1>0, <1>4, <2>2, OthersUndisturbed, RequestsAssumption
       DEF UpdateConditions, Write, TypeOK, lifecycleVars
  <2> QED
    BY <2>1, <2>2
<1>5. ASSUME NEW r \in Requests, UpdateSnapshot(r) PROVE Pending(q)'
  <2>1. CASE q = r
    <3>1. Current(r)'
      BY <1>0, <1>5 DEF UpdateSnapshot, Write, Pending, Current, lifecycleVars
    <3>2. call[r].op # "simulation"
      BY <1>0, <1>5 DEF UpdateSnapshot, Pending, Serializable
    <3> QED
      BY <1>0, <1>5, <2>1, <3>1, <3>2
         DEF UpdateSnapshot, Write, Pending, Current, TypeOK, Idle, lifecycleVars
  <2>2. CASE q # r
    BY <1>0, <1>5, <2>2, OthersUndisturbed, RequestsAssumption
       DEF UpdateSnapshot, Write, TypeOK, lifecycleVars
  <2> QED
    BY <2>1, <2>2
<1>6. ASSUME NEW r \in Requests, Retry(r) PROVE Pending(q)'
  <2>1. CASE q = r
    BY <1>0, <1>6, <2>1, ReadByType
       DEF Retry, Snapshot, Pending, Current, TypeOK, Idle, Serializable, lifecycleVars
  <2>2. CASE q # r
    BY <1>0, <1>6, <2>2, OthersUndisturbed DEF Retry, Snapshot, TypeOK, lifecycleVars
  <2> QED
    BY <2>1, <2>2
<1>7. ASSUME NEW r \in Requests, Verify(r) PROVE Pending(q)'
  <2>1. CASE q = r
    <3>1. StillAccepted(r)'
      BY <1>0, <1>7 DEF Verify, Accepted, StillAccepted, Pending, TypeOK, lifecycleVars
    <3>2. call[r].op \in Serializable => Current(r)'
      BY <1>0, <1>7 DEF Verify, Pending, Current, TypeOK, Serializable, lifecycleVars
    <3> QED
      BY <1>0, <1>7, <2>1, <3>1, <3>2 DEF Verify, Pending, TypeOK, Idle, lifecycleVars
  <2>2. CASE q # r
    BY <1>0, <1>7, <2>2, OthersUndisturbed DEF Verify, TypeOK, lifecycleVars
  <2> QED
    BY <2>1, <2>2
<1>8. ASSUME NEW r \in Requests, Commit(r) PROVE Pending(q)'
  <2>1. CASE q = r
    BY <1>0, <1>8, <2>1 DEF Commit, Release, Pending, TypeOK, Idle
  <2>2. CASE q # r
    <3>1. pc[q] \notin {"updated", "verified"}
      BY <1>0, <1>8, <2>2 DEF Commit, Pending
    <3>2. pc[q] = "snapshot" => q \in overtaken'
      BY <1>8 DEF Commit
    <3>3. pc'[q] = pc[q] /\ call'[q] = call[q] /\ seen'[q] = seen[q]
      BY <1>0, <1>8, <2>2 DEF Commit, Release, TypeOK
    <3> QED
      BY <1>0, <3>1, <3>2, <3>3 DEF Pending
  <2> QED
    BY <2>1, <2>2
<1>9. ASSUME NEW r \in Requests, Rollback(r) PROVE Pending(q)'
  <2>1. CASE q = r
    BY <1>0, <1>9, <2>1 DEF Rollback, Release, Pending, TypeOK, Idle
  <2>2. CASE q # r
    BY <1>0, <1>9, <2>2, OthersUndisturbed DEF Rollback, Release, TypeOK, lifecycleVars
  <2> QED
    BY <2>1, <2>2
<1>10. CASE ClientConfirms
  <2>1. pc[q] \notin {"updated", "verified"}
    BY <1>0, <1>10, RequestsAssumption DEF ClientConfirms, Pending
  <2>2. pc[q] = "snapshot" => q \in overtaken'
    BY <1>10 DEF ClientConfirms
  <2> QED
    BY <1>0, <1>10, <2>1, <2>2 DEF ClientConfirms, Pending
<1>11. CASE ChangeLimit
  BY <1>0, <1>11, OthersUndisturbed DEF ChangeLimit, session
<1>12. CASE UNCHANGED vars
  BY <1>0, <1>12, OthersUndisturbed DEF vars, lifecycleVars, session
<1> QED
  BY <1>1, <1>2, <1>3, <1>4, <1>5, <1>6, <1>7, <1>8, <1>9, <1>10, <1>11, <1>12 DEF Next

-----------------------------------------------------------------------------
(* Every commit is one use case.                                           *)

(* What r verified and still holds allows the atomic use case its commit   *)
(* performs.                                                               *)
LEMMA CommitStep == ASSUME Inv, NEW r \in Requests, Commit(r) PROVE LifecycleNext
<1> DEFINE c == call[r]
<1>0. /\ LifecycleTypeOK
      /\ quote \in Rows
      /\ pc[r] = "verified"
      /\ c \in Calls
      /\ Editable(quote)
      /\ quote' = Written(c, quote, seen[r])
      /\ c.op = "simulation" => seen[r].birth \in BirthDates
      /\ c.op \in Serializable => Current(r)
      /\ StillAccepted(r)
      /\ image[r] = quote'
      /\ limit' = limit
      /\ steps' = (steps \ StepsReset(c)) \cup StepsDone(c)
      /\ events' = EventsAfter(c)
      /\ linked' = LinkedAfter(c)
      /\ basis' = BasisAfter(c, quote', checked[r])
  BY DEF Inv, TypeOK, LifecycleTypeOK, PendingWritesCurrent, Pending, Commit, Idle
<1> HIDE DEF c
<1>1. CASE c.op = "save"
  <2>1. basis' = basis
    BY <1>0, <1>1, BasisForgets
  <2>2. SaveStep(c.step, c.birth)
    BY <1>0, <1>1, <2>1
       DEF SaveStep, Written, StepsReset, StepsDone, EventsAfter, LinkedAfter
  <2> QED
    BY <1>0, <1>1, <2>2, CallFields DEF LifecycleNext
<1>2. CASE c.op = "income"
  <2>1. basis' = basis
    BY <1>0, <1>2, BasisForgets
  <2>2. SaveIncome(c.income)
    BY <1>0, <1>2, <2>1
       DEF SaveIncome, Written, StepsReset, StepsDone, EventsAfter, LinkedAfter
  <2> QED
    BY <1>0, <1>2, <2>2, CallFields DEF LifecycleNext
<1>3. CASE c.op = "prefill"
  <2>1. basis' = basis
    BY <1>0, <1>3, BasisForgets
  <2>2. HasParty /\ events.prefilled = 0
    BY <1>0, <1>3 DEF StillAccepted, c
  <2>3. events' = [events EXCEPT !.prefilled = 1]
    BY <1>0, <1>3, <2>2 DEF EventsAfter
  <2>4. PrefillRenewal(c.income)
    BY <1>0, <1>3, <2>1, <2>2, <2>3 DEF PrefillRenewal, Written, StepsReset, StepsDone, LinkedAfter
  <2> QED
    BY <1>0, <1>3, <2>4, CallFields DEF LifecycleNext
<1>4. CASE c.op = "financial"
  <2>1. quote' = [quote EXCEPT !.committed = c.committed]
    BY <1>0, <1>4 DEF Written
  <2>2. CoversInstallment(quote')
    BY <1>0, <1>4 DEF StillAccepted, c
  <2>3. basis' = [basis EXCEPT !.financial = quote.terms]
    BY <1>0, <1>4, <2>1 DEF BasisAfter, Rows
  <2>4. SaveFinancial(c.committed)
    BY <1>0, <1>4, <2>1, <2>2, <2>3
       DEF SaveFinancial, StepsReset, StepsDone, EventsAfter, LinkedAfter
  <2> QED
    BY <1>0, <1>4, <2>4, CallFields DEF LifecycleNext
<1>5. CASE c.op = "simulation"
  <2>1. basis' = [basis EXCEPT !.financial = None, !.documentation = None]
    BY <1>0, <1>5, BasisForgets
  <2>2. ChangeTerms(c.terms, seen[r].birth)
    BY <1>0, <1>5, <2>1
       DEF ChangeTerms, Written, StepsReset, StepsDone, EventsAfter, LinkedAfter
  <2> QED
    BY <1>0, <1>5, <2>2, CallFields DEF LifecycleNext
<1>6. CASE c.op = "upload"
  <2>1. c.file \in Attachments /\ quote.files \in SUBSET Attachments
    BY <1>0, <1>6, CallFields DEF Rows
  <2>2. seen[r].files = Column(quote.files, c.file) /\ events.file[c.file] = None
    BY <1>0, <1>6 DEF Current, ReadBy, Serializable, c
  <2>3. quote' = [quote EXCEPT !.files = @ \cup {c.file}]
    <3>1. quote' = [quote EXCEPT !.files = WithColumn(quote.files, c.file, seen[r].files \cup {c.file})]
      BY <1>0, <1>6 DEF Written
    <3>2. WithColumn(quote.files, c.file, seen[r].files \cup {c.file}) = quote.files \cup {c.file}
      BY <2>1, <2>2, ColumnRewrite
    <3> QED
      BY <3>1, <3>2
  <2>4. basis' = [basis EXCEPT !.documentation = None]
    BY <1>0, <1>6, BasisForgets
  <2>5. AddAttachment(c.file)
    BY <1>0, <1>6, <2>2, <2>3, <2>4
       DEF AddAttachment, StepsReset, StepsDone, EventsAfter, LinkedAfter
  <2> QED
    BY <2>1, <2>5 DEF LifecycleNext
<1>7. CASE c.op = "remove"
  <2>1. c.file \in Attachments /\ quote.files \in SUBSET Attachments
    BY <1>0, <1>7, CallFields DEF Rows
  <2>2. seen[r].files = Column(quote.files, c.file) /\ c.file \in quote.files
    BY <1>0, <1>7 DEF Current, ReadBy, Serializable, c
  <2>3. quote' = [quote EXCEPT !.files = @ \ {c.file}]
    <3>1. quote' = [quote EXCEPT !.files = WithColumn(quote.files, c.file, seen[r].files \ {c.file})]
      BY <1>0, <1>7 DEF Written
    <3>2. WithColumn(quote.files, c.file, seen[r].files \ {c.file}) = quote.files \ {c.file}
      BY <2>1, <2>2, ColumnRewrite
    <3> QED
      BY <3>1, <3>2
  <2>4. basis' = [basis EXCEPT !.documentation = None]
    BY <1>0, <1>7, BasisForgets
  <2>5. RemoveAttachment(c.file)
    BY <1>0, <1>7, <2>2, <2>3, <2>4
       DEF RemoveAttachment, StepsReset, StepsDone, EventsAfter, LinkedAfter
  <2> QED
    BY <2>1, <2>5 DEF LifecycleNext
<1>8. CASE c.op = "complete"
  <2>1. checked[r] \in Limits /\ DocumentationComplete(quote, checked[r])
    BY <1>0, <1>8 DEF Current, Serializable, c
  <2>2. CompleteDocumentation(checked[r])
    BY <1>0, <1>8, <2>1
       DEF CompleteDocumentation, Written, StepsReset, StepsDone, EventsAfter, LinkedAfter, BasisAfter
  <2> QED
    BY <2>1, <2>2 DEF LifecycleNext
<1>9. CASE c.op = "submit"
  <2>1. quote' = [quote EXCEPT !.status = "client_review"]
    BY <1>0, <1>9 DEF Written
  <2>2. steps = Steps /\ checked[r] \in Limits /\ DocumentationComplete(quote', checked[r])
    BY <1>0, <1>9 DEF StillAccepted, c
  <2>3. DocumentationComplete(quote, checked[r])
    BY <1>0, <2>1, <2>2 DEF DocumentationComplete, RequiredKinds, Rows
  <2>4. Submit(checked[r])
    BY <1>0, <1>9, <2>1, <2>2, <2>3
       DEF Submit, StepsReset, StepsDone, EventsAfter, LinkedAfter, BasisAfter
  <2> QED
    BY <2>2, <2>4 DEF LifecycleNext
<1> QED
  BY <1>0, <1>1, <1>2, <1>3, <1>4, <1>5, <1>6, <1>7, <1>8, <1>9, CallFields DEF Operations

(* Every step of the requests is one use case or invisible to the users.   *)
LEMMA StepImplements == Inv /\ [Next]_vars => [LifecycleNext]_lifecycleVars
<1> SUFFICES ASSUME Inv, [Next]_vars PROVE [LifecycleNext]_lifecycleVars
  OBVIOUS
<1>1. ASSUME NEW r \in Requests, Commit(r) PROVE LifecycleNext
  BY <1>1, CommitStep
<1>2. CASE ClientConfirms
  BY <1>2 DEF ClientConfirms, Confirm, LifecycleNext
<1>3. CASE ChangeLimit
  BY <1>3 DEF ChangeLimit, EditLimit, LifecycleNext
<1>4. ASSUME NEW r \in Requests, NEW c \in Calls,
             UpdateDraft(r, c) \/ ReadDraft(r, c) \/ Open(r, c)
      PROVE  UNCHANGED lifecycleVars
  BY <1>4 DEF UpdateDraft, ReadDraft, Open
<1>5. ASSUME NEW r \in Requests,
             \/ UpdateConditions(r) \/ UpdateSnapshot(r) \/ Retry(r)
             \/ Verify(r) \/ Rollback(r)
      PROVE  UNCHANGED lifecycleVars
  BY <1>5 DEF UpdateConditions, UpdateSnapshot, Retry, Verify, Rollback
<1>6. CASE UNCHANGED vars
  BY <1>6 DEF vars
<1> QED
  BY <1>1, <1>2, <1>3, <1>4, <1>5, <1>6 DEF Next

(* A step of a request leaves its own session well typed.                  *)
LEMMA SessionTypes == Inv /\ [Next]_vars => TypeOK'
<1> SUFFICES ASSUME Inv, [Next]_vars PROVE TypeOK'
  OBVIOUS
<1>0. /\ TypeOK
      /\ \A r \in Requests : Pending(r)
      /\ LifecycleTypeOK'
      /\ quote \in Rows
      /\ limit \in Limits
  BY StepImplements, LifecycleTypesKept DEF Inv, PendingWritesCurrent, TypeOK, LifecycleTypeOK
<1>1. ASSUME NEW r \in Requests, NEW c \in Calls, UpdateDraft(r, c) PROVE TypeOK'
  <2>1. Written(c, quote, ReadBy(c, quote)) \in Rows
    BY <1>0, <1>1, WrittenType DEF UpdateDraft, Serializable
  <2> QED
    BY <1>0, <1>1, <2>1 DEF UpdateDraft, Write, TypeOK
<1>2. ASSUME NEW r \in Requests, NEW c \in Calls, ReadDraft(r, c) PROVE TypeOK'
  BY <1>0, <1>2, ReadByType DEF ReadDraft, TypeOK
<1>3. ASSUME NEW r \in Requests, NEW c \in Calls, Open(r, c) PROVE TypeOK'
  BY <1>0, <1>3, ReadByType DEF Open, Snapshot, TypeOK
<1>4. ASSUME NEW r \in Requests, UpdateConditions(r) PROVE TypeOK'
  <2>1. Written(call[r], quote, seen[r]) \in Rows
    BY <1>0, <1>4, WrittenType DEF UpdateConditions, Pending, Idle
  <2> QED
    BY <1>0, <1>4, <2>1 DEF UpdateConditions, Write, TypeOK
<1>5. ASSUME NEW r \in Requests, UpdateSnapshot(r) PROVE TypeOK'
  <2>1. Written(call[r], quote, seen[r]) \in Rows
    BY <1>0, <1>5, WrittenType DEF UpdateSnapshot, Pending, Idle, Serializable
  <2> QED
    BY <1>0, <1>5, <2>1 DEF UpdateSnapshot, Write, TypeOK
<1>6. ASSUME NEW r \in Requests, Retry(r) PROVE TypeOK'
  <2>1. call[r] \in Calls
    BY <1>0, <1>6 DEF Retry, Pending, Idle
  <2>2. attempt[r] + 1 \in 1 .. MaxAttempts
    BY <1>0, <1>6, AttemptsAssumption DEF Retry, TypeOK
  <2> QED
    BY <1>0, <1>6, <2>1, <2>2, ReadByType DEF Retry, Snapshot, TypeOK
<1>7. ASSUME NEW r \in Requests, Verify(r) PROVE TypeOK'
  BY <1>0, <1>7 DEF Verify, TypeOK
<1>8. ASSUME NEW r \in Requests, Commit(r) \/ Rollback(r) PROVE TypeOK'
  BY <1>0, <1>8, AttemptsAssumption DEF Commit, Rollback, Release, TypeOK
<1>9. CASE ClientConfirms
  BY <1>0, <1>9 DEF ClientConfirms, TypeOK
<1>10. CASE ChangeLimit
  BY <1>0, <1>10 DEF ChangeLimit, session, TypeOK
<1>11. CASE UNCHANGED vars
  BY <1>0, <1>11 DEF vars, session, TypeOK
<1> QED
  BY <1>1, <1>2, <1>3, <1>4, <1>5, <1>6, <1>7, <1>8, <1>9, <1>10, <1>11 DEF Next

(* The invariant holds initially: no request is open.                      *)
LEMMA InvInitially == Init => Inv
<1> SUFFICES ASSUME Init PROVE Inv
  OBVIOUS
<1>1. LifecycleTypeOK
  BY LifecycleTypesInitially DEF Init
<1>2. TypeOK
  BY <1>1, AttemptsAssumption DEF Init, TypeOK
<1>3. PendingWritesCurrent
  BY DEF Init, PendingWritesCurrent, Pending, Idle
<1> QED
  BY <1>2, <1>3 DEF Inv

-----------------------------------------------------------------------------
(* Types hold throughout, the attempts of the retry loop among them.       *)
THEOREM TransactionTypes == Spec => []TypeOK
<1>1. Inv /\ [Next]_vars => Inv'
  BY PendingStep, SessionTypes DEF Inv
<1>2. Inv => TypeOK
  BY DEF Inv
<1> QED
  BY <1>1, <1>2, InvInitially, PTL DEF Spec

(* A transaction that wrote the row keeps it, and its checks, until it     *)
(* ends: no lost update and no check overtaken by another commit.          *)
THEOREM NoLostUpdate == Spec => []PendingWritesCurrent
<1>1. Inv /\ [Next]_vars => Inv'
  BY PendingStep, SessionTypes DEF Inv
<1>2. Inv => PendingWritesCurrent
  BY DEF Inv
<1> QED
  BY <1>1, <1>2, InvInitially, PTL DEF Spec

(* Refinement: whatever the requests do, the users see a sequence of       *)
(* atomic use cases.                                                       *)
THEOREM TransactionsImplementUseCases == Spec => ImplementsLifecycle
<1>1. Inv /\ [Next]_vars => Inv'
  BY PendingStep, SessionTypes DEF Inv
<1>2. Init => LifecycleInit
  BY DEF Init
<1> QED
  BY <1>1, <1>2, InvInitially, StepImplements, PTL DEF Spec, ImplementsLifecycle, LifecycleSpec

(* A completed Documentação step is backed by the attachments, whatever    *)
(* uploads, removals, changes of conditions and submissions race.          *)
THEOREM DocumentationBackedUnderConcurrency == Spec => []DocumentationBacked
  BY TransactionsImplementUseCases, DocumentationStaysBacked, PTL DEF ImplementsLifecycle

(* A completed Financeiro step was checked against the present             *)
(* conditions.                                                             *)
THEOREM FinancialAssessedUnderConcurrency == Spec => []FinancialAssessed
  BY TransactionsImplementUseCases, FinancialStaysAssessed, PTL DEF ImplementsLifecycle

(* Concurrent submissions, saves and removals never yield a submitted      *)
(* proposal that is incomplete, or submitted twice.                        *)
THEOREM SubmissionSoundUnderConcurrency == Spec => []SubmissionSound
  BY TransactionsImplementUseCases, SubmissionStaysSound, PTL DEF ImplementsLifecycle

(* No upload is lost to a concurrent one and no removal is undone.         *)
THEOREM FilesMatchEventsUnderConcurrency == Spec => []FilesMatchEvents
  BY TransactionsImplementUseCases, FilesFollowEvents, PTL DEF ImplementsLifecycle

(* Concurrent prefills copy the renewal data once.                         *)
THEOREM PrefilledOnceUnderConcurrency == Spec => []PrefilledAtMostOnce
  BY TransactionsImplementUseCases, PrefillHappensOnce, PTL DEF ImplementsLifecycle

(* Proposal, simulation and insurance never disagree on the conditions.    *)
THEOREM ConditionsAgreeUnderConcurrency == Spec => []ConditionsAgree
  BY TransactionsImplementUseCases, ConditionsStayTogether, PTL DEF ImplementsLifecycle

(* A request that was open when the proposal was submitted cannot change   *)
(* it any more.                                                            *)
THEOREM FrozenUnderConcurrency == Spec => FrozenAfterDraft
  BY TransactionsImplementUseCases, NothingChangesAfterDraft, PTL DEF ImplementsLifecycle
=============================================================================
