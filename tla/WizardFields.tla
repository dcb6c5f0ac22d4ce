---------------------------- MODULE WizardFields ----------------------------
(***************************************************************************)
(* What the partner types into the steps of the wizard, what the columns   *)
(* of the proposal keep, and what is read back when the form is opened     *)
(* again: the validation and normalisation of each step's save, the copy   *)
(* of a renewal, and the mapping of the stored JSON into the detail.  Who  *)
(* may save and the order of the steps are QuoteLifecycle's.               *)
(* A text is a value of Texts; trimming, lower case, digits only and +55   *)
(* are one function, Canon, which maps what no validator accepts to Absent.*)
(***************************************************************************)
EXTENDS Integers, SequencesExt

CONSTANTS
  Absent,            \* a field not sent, NULL, an empty text
  Texts,
  Canon,             \* Canon[t]: the form in which t is stored
  Client,            \* [document, name, telephone] of the simulation, in that form
  RegistrationForms, IncomeForms, AddressForms, OpinionForms, GuarantorForms, FinancialForms,
  InstallmentAmount, \* of the proposal's conditions
  Sources,           \* proposals a renewal may copy
  MaxRenewed,        \* how many additional incomes of the columns it copies: 9 in the code
  PartyAddress       \* the address of the client, or Absent

\* QuoteIncomeEntryDto.
EntryFields ==
  {"id", "role", "activity", "otherActivity", "profession", "branch", "subcategory", "duration",
   "source", "amount", "relationship"}

\* The fields of a form are always there, with Absent for what was not sent.
ASSUME WizardAssumption ==
  /\ MaxRenewed \in Nat /\ Absent \notin Texts /\ Canon \in [Texts -> Texts \cup {Absent}]
  /\ \A t \in Texts : Canon[t] # Absent => Canon[Canon[t]] = Canon[t]
  /\ \A f \in IncomeForms :
       /\ f \in Seq(Range(f))
       /\ \A k \in DOMAIN f : DOMAIN f[k] = EntryFields /\ f[k].amount \in Int
  /\ \A f \in FinancialForms :
       /\ f.expenses \in Seq(Range(f.expenses)) /\ f.loans \in Seq(Range(f.loans))
       /\ \A k \in DOMAIN f.expenses :
            DOMAIN f.expenses[k] = {"category", "description", "amount"}
       /\ \A k \in DOMAIN f.loans :
            DOMAIN f.loans[k] = {"category", "institution", "description", "amount"}

VARIABLES
  columns,   \* the columns of the proposal the steps write
  prefilled, \* there is a RENEWAL_PREFILLED event
  entered    \* history: what the last save of each column, or the copy, meant
             \* the form to show; Absent where nothing is claimed

wizardVars == <<columns, prefilled, entered>>

Clean(t) == IF t = Absent THEN Absent ELSE Canon[t]
Needs(condition, t) == IF condition THEN Clean(t) ELSE Absent
SumOf(s) == FoldSeq(LAMBDA x, y : x + y, 0, s)
Amounts(s) == [k \in DOMAIN s |-> s[k].amount]

With(f, values) == [k \in DOMAIN f |-> IF k \in DOMAIN values THEN values[k] ELSE f[k]]

\* A save writes its columns and answers with what it wrote.
Save(values) ==
  /\ columns' = With(columns, values)
  /\ entered' = With(entered, values)
  /\ UNCHANGED prefilled
-----------------------------------------------------------------------------
(* Cadastro *)
HasSpouse(f) == f.marital \in {"married", "stable_union"}

\* SaveQuoteRegistrationDto, class-validator: what must be there at all.
RegistrationInvalid(f) ==
  \/ Absent \in {f.name, f.telephone, f.marital, f.ownsVehicle} \/ f.programs = {}
  \/ HasSpouse(f) /\ f.spouse = Absent
  \/ f.ownsVehicle /\ f.financed = Absent

\* The BadRequests of normalizeRegistration.
RegistrationRefused(f) ==
  \/ ~f.adult \/ Absent \in {Clean(f.name), Clean(f.telephone)}
  \/ HasSpouse(f) /\ Clean(f.spouse) = Absent
  \/ "none" \in f.programs /\ f.programs # {"none"}
  \/ f.ownsVehicle /\ f.financed = Absent

\* normalizeRegistration: what does not apply is dropped.
Registration(f) ==
  [name |-> Clean(f.name), telephone |-> Clean(f.telephone), marital |-> f.marital,
   spouse |-> Needs(HasSpouse(f), f.spouse), programs |-> f.programs,
   ownsVehicle |-> f.ownsVehicle,
   financed |-> IF f.ownsVehicle THEN f.financed ELSE Absent]

SaveRegistration(f) ==
  /\ ~RegistrationInvalid(f) /\ ~RegistrationRefused(f)
  /\ Save([registration |-> Registration(f)])
-----------------------------------------------------------------------------
(* Atividade e renda *)
ProfessionRequiredCategories ==
  {"clt_employee", "public_servant", "retired_or_pensioner", "unemployed"}
RequiresProfession(activity) == activity \in ProfessionRequiredCategories

\* The table of subcategories, for two branches and one subcategory of each.
Subcategories == [retail_commerce |-> {"general_commerce"}, construction |-> {"painter"}]
ASSUME BranchAssumption == Absent \notin DOMAIN Subcategories

\* isSubcategoryValidForBranch.
SubcategoryValid(branch, subcategory) ==
  \/ subcategory = "other"
  \/ branch \in DOMAIN Subcategories /\ subcategory \in Subcategories[branch]

\* QuoteIncomeEntryDto and SaveQuoteIncomeDto.
EntryInvalid(e) ==
  \/ Absent \in {e.id, e.role, e.activity, e.duration, e.source} \/ e.amount <= 0
  \/ e.activity = "other" /\ e.otherActivity = Absent
  \/ IF RequiresProfession(e.activity) THEN e.profession = Absent
     ELSE e.branch \notin DOMAIN Subcategories \/ e.subcategory = Absent
  \/ e.source = "family_income" /\ e.relationship = Absent

IncomesInvalid(f) == f = <<>> \/ \E k \in DOMAIN f : EntryInvalid(f[k])

\* The BadRequests of normalizeIncomeEntry and normalizeIncomes.
EntryRefused(e) ==
  \/ e.role = "primary" /\ e.source = "family_income"
  \/ ~RequiresProfession(e.activity) /\ ~SubcategoryValid(e.branch, e.subcategory)
  \/ RequiresProfession(e.activity) /\ Clean(e.profession) = Absent
  \/ e.activity = "other" /\ Clean(e.otherActivity) = Absent
  \/ e.source = "family_income" /\ e.relationship = Absent

IncomesRefused(f) ==
  \/ \E k \in DOMAIN f : f[k].role # (IF k = 1 THEN "primary" ELSE "secondary")
  \/ \E j, k \in DOMAIN f : j # k /\ f[j].id = f[k].id
  \/ \E k \in DOMAIN f : EntryRefused(f[k])

\* normalizeIncomeEntry.
Entry(e) ==
  LET business == ~RequiresProfession(e.activity)
  IN [e EXCEPT !.otherActivity = Needs(e.activity = "other", @),
               !.profession = Needs(~business, @),
               !.branch = IF business THEN @ ELSE Absent,
               !.subcategory = IF business THEN @ ELSE Absent,
               !.relationship = IF e.source = "family_income" THEN @ ELSE Absent]

\* The columns of the model before the entries, kept for its readers.
Mirrors(entries) ==
  LET others == Tail(entries)
      family(e) == e.source = "family_income"
      activity(e) == ~family(e)
  IN [activity |-> entries[1].activity, otherActivity |-> entries[1].otherActivity,
      profession |-> entries[1].profession, duration |-> entries[1].duration,
      branch |-> entries[1].branch, subcategory |-> entries[1].subcategory,
      personal |-> entries[1].amount, source |-> entries[1].source,
      additional |-> [k \in DOMAIN others |-> [source |-> others[k].source,
                                               amount |-> others[k].amount]],
      activityIncome |-> SumOf(Amounts(SelectSeq(others, activity))),
      familiarIncome |-> SumOf(Amounts(SelectSeq(others, family)))]

SaveIncome(f) ==
  /\ ~IncomesInvalid(f) /\ ~IncomesRefused(f)
  /\ LET entries == [k \in DOMAIN f |-> Entry(f[k])]
     IN Save([income |-> entries, mirrors |-> Mirrors(entries)])
-----------------------------------------------------------------------------
(* Endereço, Parecer, Avalista *)
Address(f) ==
  [street |-> Clean(f.street), complement |-> Clean(f.complement), state |-> f.state]

\* SaveQuoteAddressDto; the service refuses nothing more.
AddressInvalid(f) == Clean(f.street) = Absent \/ f.state = Absent

SaveAddress(f) ==
  ~AddressInvalid(f) /\ Save([address |-> Address(f), geolocation |-> f.geolocation])

\* SaveQuotePartnerOpinionDto, which trims before it measures.
OpinionInvalid(f) ==
  \/ f.origin = Absent \/ Clean(f.text) = Absent
  \/ f.origin = "other" /\ f.otherOrigin = Absent
  \/ f.origin = "aurea_customer_referral" /\ f.referrer = Absent

\* normalizePartnerOpinion: normalizeCpf refuses the referrer's document.
OpinionRefused(f) ==
  \/ f.origin = "other" /\ Clean(f.otherOrigin) = Absent
  \/ f.origin = "aurea_customer_referral" /\ Clean(f.referrer) = Absent

Opinion(f) ==
  [f EXCEPT !.otherOrigin = Needs(f.origin = "other", @),
            !.referrer = Needs(f.origin = "aurea_customer_referral", @), !.text = Clean(@)]

SaveOpinion(f) ==
  ~OpinionInvalid(f) /\ ~OpinionRefused(f) /\ Save([opinion |-> Opinion(f)])

\* SaveQuoteGuarantorDto, which trims before it measures.
GuarantorInvalid(f) ==
  \/ Clean(f.name) = Absent \/ Absent \in {f.document, f.telephone}
  \/ AddressInvalid(f.address)

\* normalizeGuarantor.
GuarantorRefused(f) == ~f.adult \/ Absent \in {Clean(f.document), Clean(f.telephone)}
Guarantor(f) ==
  [name |-> Clean(f.name), document |-> Clean(f.document), telephone |-> Clean(f.telephone),
   address |-> Address(f.address)]

\* The borrower is compared after the UPDATE, which is rolled back.
SaveGuarantor(f) ==
  /\ ~GuarantorInvalid(f) /\ ~GuarantorRefused(f)
  /\ Clean(f.document) # Client.document
  /\ Save([guarantor |-> Guarantor(f)])
-----------------------------------------------------------------------------
(* Financeiro: debts and loans under the names of the other programs. *)
Considered(m) == m.personal + m.activityIncome

Committed(f) == SumOf(Amounts(f.expenses)) + SumOf(Amounts(f.loans))

\* SaveQuoteFinancialDto.
FinancialInvalid(f) ==
  \/ f.pixCode = Absent
  \/ \E k \in DOMAIN f.expenses : f.expenses[k].category = Absent \/ f.expenses[k].amount <= 0
  \/ \E k \in DOMAIN f.loans : \/ Absent \in {f.loans[k].category, f.loans[k].institution}
                              \/ f.loans[k].amount <= 0

\* normalizeFinancial; normalizePaymentPixCode refuses the key.
FinancialRefused(f) ==
  \/ \E k \in DOMAIN f.expenses :
       f.expenses[k].category = "other" /\ Clean(f.expenses[k].description) = Absent
  \/ \E k \in DOMAIN f.loans : /\ "other" \in {f.loans[k].category, f.loans[k].institution}
                               /\ Clean(f.loans[k].description) = Absent
  \/ Clean(f.pixCode) = Absent

Financial(f) ==
  [expenses |-> [k \in DOMAIN f.expenses |-> [f.expenses[k] EXCEPT !.description = Clean(@)]],
   loans |-> [k \in DOMAIN f.loans |-> [f.loans[k] EXCEPT !.description = Clean(@)]],
   pixCode |-> Clean(f.pixCode)]

\* The capacity is read after the UPDATE, which is rolled back.
SaveFinancial(f) ==
  /\ ~FinancialInvalid(f) /\ ~FinancialRefused(f)
  /\ Considered(columns.mirrors) - Committed(f) >= InstallmentAmount
  /\ Save([financial |-> Financial(f)])
-----------------------------------------------------------------------------
(* Copy of a renewal *)

\* renewalIncomeEntries: the entries, or one made of the columns of before them, and
\* one of each of their first secondary incomes, which say neither activity nor
\* duration.
NotMixed(incomeSource) == IF incomeSource = "mixed_income" THEN "other" ELSE incomeSource

RenewalEntries(source) ==
  IF source.modelled /\ source.income # <<>> THEN source.income
  ELSE <<[id |-> "renewal-primary", role |-> "primary", activity |-> source.mirrors.activity,
          otherActivity |-> source.mirrors.otherActivity, profession |-> source.mirrors.profession,
          branch |-> source.mirrors.branch, subcategory |-> source.mirrors.subcategory,
          duration |-> source.mirrors.duration, source |-> NotMixed(source.mirrors.source),
          amount |-> source.mirrors.personal, relationship |-> Absent]>>
       \o [k \in {n \in DOMAIN source.mirrors.additional : n <= MaxRenewed} |->
            [id |-> "renewal-secondary", role |-> "secondary", activity |-> Absent,
             otherActivity |-> Absent, profession |-> Absent, branch |-> Absent,
             subcategory |-> Absent, duration |-> Absent,
             source |-> NotMixed(source.mirrors.additional[k].source),
             amount |-> source.mirrors.additional[k].amount, relationship |-> Absent]]

\* buildRenewalPrefillUpdate: name and telephone stay, and so do the sums of the
\* secondary incomes and the geolocation.
CopiedRegistration(source) ==
  [source.registration EXCEPT !.name = columns.registration.name,
                              !.telephone = columns.registration.telephone]
CopiedAddress(source) == IF PartyAddress = Absent THEN source.address ELSE PartyAddress

Prefill(source) ==
  /\ ~prefilled
  /\ prefilled' = TRUE
  /\ columns' = [columns EXCEPT
       !.registration = CopiedRegistration(source),
       !.income = RenewalEntries(source),
       !.mirrors = [source.mirrors EXCEPT !.activityIncome = columns.mirrors.activityIncome,
                                          !.familiarIncome = columns.mirrors.familiarIncome],
       !.address = CopiedAddress(source)]
  /\ entered' = [entered EXCEPT !.registration = CopiedRegistration(source),
                                !.income = IF source.modelled /\ source.income # <<>>
                                           THEN source.income ELSE Absent,
                                !.mirrors = Absent, !.address = CopiedAddress(source)]
-----------------------------------------------------------------------------
(* Read back: toDetail *)

\* filter: the elements at the positions in K, in their order.
Selected(s, K) ==
  [n \in 1 .. Cardinality(K) |-> s[CHOOSE k \in K : Cardinality({j \in K : j <= k}) = n]]

\* Mutant: branch and subcategory asked of every activity.
ReadIncomeAlwaysBranch(stored) ==
  Selected(stored, {k \in DOMAIN stored :
    /\ Absent \notin {stored[k].activity, stored[k].duration, stored[k].branch,
                      stored[k].subcategory}
    /\ stored[k].amount > 0})

\* mapIncomeEntries: an entry that lacks something is left out of the form.
EntryShown(e) ==
  /\ Absent \notin {e.activity, e.duration, e.source} /\ e.amount > 0
  /\ RequiresProfession(e.activity) \/ Absent \notin {e.branch, e.subcategory}
ReadIncome(stored) == Selected(stored, {k \in DOMAIN stored : EntryShown(stored[k])})

\* mapGuarantor: nothing at all when one of its fields is missing.
ReadGuarantor(stored) ==
  IF stored = Absent \/ Absent \in {stored.name, stored.document, stored.telephone}
  THEN Absent ELSE stored

\* mapExpenses, mapLoans.
ReadExpenses(stored) == Selected(stored, {k \in DOMAIN stored : stored[k].category # Absent})
ReadLoans(stored) ==
  Selected(stored, {k \in DOMAIN stored : Absent \notin {stored[k].category, stored[k].institution}})
ReadFinancial(stored) ==
  IF stored = Absent THEN Absent
  ELSE [stored EXCEPT !.expenses = ReadExpenses(@), !.loans = ReadLoans(@)]

ToDetail ==
  [registration |-> columns.registration, income |-> ReadIncome(columns.income),
   address |-> columns.address, geolocation |-> columns.geolocation, opinion |-> columns.opinion,
   guarantor |-> ReadGuarantor(columns.guarantor), financial |-> ReadFinancial(columns.financial)]
-----------------------------------------------------------------------------
\* A renewal copies a proposal that was submitted. Its entries, if it has any, were
\* entered through a save of Renda, there or in a proposal it was itself copied from
\* (not carried over from a proposal of the older form), and its mirrors are theirs;
\* its two sums need not be, since a renewal keeps the draft's own.
ASSUME SourcesAssumption ==
  \A source \in Sources : source.modelled /\ source.income # <<>> =>
    /\ source.income \in Seq(Range(source.income))
    /\ \A k \in DOMAIN source.income : EntryShown(source.income[k])
    /\ \A k \in DOMAIN source.mirrors \ {"activityIncome", "familiarIncome"} :
         source.mirrors[k] = Mirrors(source.income)[k]

\* The draft as it is created: contacts and address of the client, no income.
Created ==
  [registration |-> [name |-> Client.name, telephone |-> Client.telephone, marital |-> Absent,
                     spouse |-> Absent, programs |-> {}, ownsVehicle |-> Absent,
                     financed |-> Absent],
   income |-> <<>>,
   mirrors |-> [activity |-> Absent, otherActivity |-> Absent, profession |-> Absent,
                duration |-> Absent, branch |-> Absent, subcategory |-> Absent,
                personal |-> 0, source |-> Absent, additional |-> <<>>, activityIncome |-> 0, familiarIncome |-> 0],
   address |-> PartyAddress, geolocation |-> Absent, opinion |-> Absent, guarantor |-> Absent,
   financial |-> Absent]

WizardInit ==
  /\ columns = Created
  /\ prefilled = FALSE
  /\ entered = [Created EXCEPT !.mirrors = Absent]

WizardNext ==
  \/ \E f \in RegistrationForms : SaveRegistration(f)
  \/ \E f \in IncomeForms : SaveIncome(f)
  \/ \E f \in AddressForms : SaveAddress(f)
  \/ \E f \in OpinionForms : SaveOpinion(f)
  \/ \E f \in GuarantorForms : SaveGuarantor(f)
  \/ \E f \in FinancialForms : SaveFinancial(f)
  \/ \E source \in Sources : Prefill(source)

WizardSpec == WizardInit /\ [][WizardNext]_wizardVars
-----------------------------------------------------------------------------
\* Opening the proposal again shows what was saved last, field by field, whatever
\* other step or copy came between.
FormShowsWhatWasSaved ==
  \A k \in DOMAIN ToDetail : entered[k] # Absent => ToDetail[k] = entered[k]

\* The columns kept for older readers describe the incomes on the form: all of
\* them after Renda, all but the two sums after a copy of a proposal with entries.
MirrorsDescribeTheForm ==
  LET sums == {"activityIncome", "familiarIncome"}
      shown == Mirrors(ToDetail.income)
  IN entered.income \notin {Absent, <<>>} =>
       \A k \in DOMAIN columns.mirrors \ (IF entered.mirrors = Absent THEN sums ELSE {}) :
         columns.mirrors[k] = shown[k]

ShownAsSaved == FormShowsWhatWasSaved /\ MirrorsDescribeTheForm
=============================================================================
