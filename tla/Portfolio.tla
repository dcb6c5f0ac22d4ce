------------------------------ MODULE Portfolio -----------------------------
(***************************************************************************)
(* The screens that read the contracts of a partner, each with rules and   *)
(* SQL of its own: the cards of the Home, the summary of the portfolio     *)
(* (over the view vw_fato_parcela), the list of contracts and its filters, *)
(* the instalments of a contract, and the tabs Cobrança and Preventivo.    *)
(* Contracts, instalments and their owners are written by other programs:  *)
(* the actions are theirs, and the operators are the queries.              *)
(* Money is counted in cents of one unit, days from an arbitrary one.      *)
(***************************************************************************)
EXTENDS Hierarchy, Integers, FiniteSetsExt, Functions

CONSTANTS
  Contracts,
  Celcoin,       \* the contracts of the company CELCOIN
  Internal,      \* those of the companies vw_dim_empresa leaves out
  Partners,      \* trigo_users who may own a contract
  Consultant,    \* Consultant[c]: contracts.consultant_id
  DisbursedAs,   \* DisbursedAs[c]: the status of c once disbursed
  Installments,  \* instalments, each [contract, number]
  Due,           \* Due[i]: due_date
  Amount,        \* Amount[i]: total_amount
  DragAfter,     \* days of delay after which the whole balance counts: 30 in the code
  WithinDays,    \* the window of Preventivo: 15 in the code
  MonthDays,     \* the length of a month
  RenewalMonths, \* the window of renewals: 4 in the code
  Days           \* bound: the days that pass

ASSUME PortfolioAssumption ==
  /\ Celcoin \subseteq Contracts /\ Internal \subseteq Contracts \ Celcoin
  /\ Consultant \in [Contracts -> Partners]
  /\ Installments \subseteq [contract : Contracts, number : Nat]
  /\ Due \in [Installments -> Nat] /\ Amount \in [Installments -> Nat \ {0}]

\* The contracts of the portfolio are created with their instalments, at least one.
ASSUME SizesAssumption ==
  /\ IsFiniteSet(Contracts) /\ IsFiniteSet(Installments)
  /\ \A c \in Contracts : \E i \in Installments : i.contract = c
  /\ DisbursedAs \in [Contracts -> {"disbursed", "active"}]
  /\ DragAfter \in Nat /\ WithinDays \in Nat /\ Days \in Nat
  /\ MonthDays \in Nat \ {0} /\ RenewalMonths \in Nat

VARIABLES
  today,      \* CURRENT_DATE
  status,     \* contracts.status; "pending" before it is disbursed
  agent,      \* contracts.current_collection_agent_id, or NoAgent
  disbursed,  \* contracts.disbursement_date is set
  slip,       \* installments: status, total_paid, and a payment in course
  overhauled  \* the contracts with a row in renegotiations

portfolioVars == <<today, status, agent, disbursed, slip, overhauled>>

NoAgent == "no agent"
OpenStatuses == {"not_paid", "partially_paid"}
PortfolioStatuses == {"disbursed", "active"}
Of(c) == {i \in Installments : i.contract = c}

Disburse(c) ==
  /\ status[c] = "pending"
  /\ status' = [status EXCEPT ![c] = DisbursedAs[c]]
  /\ disbursed' = disbursed \cup {c}
  /\ UNCHANGED <<today, agent, slip, overhauled>>

\* Closed when nothing is open, cancelled at any time.
EndContract(c, s) ==
  /\ status[c] \in PortfolioStatuses
  /\ s = "closed" => \A i \in Of(c) : slip[i].status \notin OpenStatuses
  /\ status' = [status EXCEPT ![c] = s]
  /\ UNCHANGED <<today, agent, disbursed, slip, overhauled>>

Reassign(c, a) ==
  /\ agent' = [agent EXCEPT ![c] = a]
  /\ UNCHANGED <<today, status, disbursed, slip, overhauled>>

\* A payment in course: pending_amount no longer counts it, total_paid not yet.
StartPayment(i) ==
  /\ status[i.contract] \in PortfolioStatuses
  /\ slip[i].status \in OpenStatuses /\ ~slip[i].clearing
  /\ slip' = [slip EXCEPT ![i].clearing = TRUE]
  /\ UNCHANGED <<today, status, agent, disbursed, overhauled>>

\* It is credited, in part (p < balance) or in full.
Credit(i, p) ==
  /\ slip[i].clearing /\ slip[i].paid + p <= Amount[i]
  /\ slip' = [slip EXCEPT ![i] =
       [status |-> IF @.paid + p = Amount[i] THEN "paid" ELSE "partially_paid",
        paid |-> @.paid + p, clearing |-> FALSE]]
  /\ UNCHANGED <<today, status, agent, disbursed, overhauled>>

\* Some of the open instalments are renegotiated; what the agreement leaves to be
\* paid stays open.
Renegotiate(c, S) ==
  /\ status[c] \in PortfolioStatuses
  /\ S # {} /\ S \subseteq {i \in Of(c) : slip[i].status \in OpenStatuses}
  /\ \A i \in S : ~slip[i].clearing
  /\ slip' = [i \in Installments |->
       IF i \in S THEN [slip[i] EXCEPT !.status = "renegotiated"] ELSE slip[i]]
  /\ overhauled' = overhauled \cup {c}
  /\ UNCHANGED <<today, status, agent, disbursed>>

NextDay ==
  /\ today < Days
  /\ today' = today + 1
  /\ UNCHANGED <<status, agent, disbursed, slip, overhauled>>

PortfolioInit ==
  /\ today = 0
  /\ status = [c \in Contracts |-> "pending"]
  /\ agent = [c \in Contracts |-> NoAgent]
  /\ disbursed = {}
  /\ slip = [i \in Installments |-> [status |-> "not_paid", paid |-> 0, clearing |-> FALSE]]
  /\ overhauled = {}

PortfolioNext ==
  \/ \E c \in Contracts :
       \/ Disburse(c) \/ \E S \in SUBSET Of(c) : Renegotiate(c, S)
       \/ \E s \in {"closed", "cancelled"} : EndContract(c, s)
       \/ \E a \in Partners \cup {NoAgent} : Reassign(c, a)
  \/ \E i \in Installments : StartPayment(i) \/ \E p \in 1 .. Amount[i] : Credit(i, p)
  \/ NextDay

PortfolioSpec == PortfolioInit /\ [][PortfolioNext]_portfolioVars
-----------------------------------------------------------------------------
Balance(i) == Amount[i] - slip[i].paid
Pending(i) == IF slip[i].clearing THEN 0 ELSE Balance(i)
Open(i) == slip[i].status \in OpenStatuses
Late(i) == Open(i) /\ Due[i] < today
Delay(i) == today - Due[i]
Month(d) == d \div MonthDays
Total(S, amount(_)) == SumFunction([x \in S |-> amount(x)])
LastDue(c) == Max({Due[i] : i \in Of(c)})
InPortfolio(c) == status[c] \in PortfolioStatuses

\* buildDirectContractScopeSql, canDirectlyViewContract.
Mine(u) == {c \in Contracts : CanDirectlyView(u, {Consultant[c], agent[c]})}

(***************************************************************************)
(* dashboard.service: the cards of the Home.                               *)
(***************************************************************************)
HomeContracts(u) == {c \in Mine(u) : InPortfolio(c)}
HomeActive(u) == {c \in HomeContracts(u) : \E i \in Of(c) : Open(i)}
HomeDueToday(u) == {c \in HomeContracts(u) : \E i \in Of(c) : Open(i) /\ Due[i] = today}
HomeOverdue(u) == {c \in HomeContracts(u) : \E i \in Of(c) : Late(i)}
HomeRenewals(u) ==
  {c \in HomeContracts(u) : Month(LastDue(c)) \in Month(today) .. Month(today) + RenewalMonths - 1}

\* getMonthPerformance: the drag rule, for one contract.
HomeDelinquency(c) ==
  LET aging == Max({0} \cup {Delay(i) : i \in {j \in Of(c) : Late(j)}})
  IN CASE aging > DragAfter -> Total({i \in Of(c) : Open(i)}, Balance)
       [] aging \in 1 .. DragAfter -> Total({i \in Of(c) : Late(i)}, Balance)
       [] OTHER -> 0

(***************************************************************************)
(* vw_fato_parcela and portfolio.service: the summary.                     *)
(***************************************************************************)
\* Mutant: the view is not joined with the companies.
FactRowsOfEveryCompany ==
  {i \in Installments : /\ slip[i].status # "renegotiated" /\ i.contract \in disbursed
                        /\ status[i.contract] # "cancelled"}

FactRows == {i \in Installments : /\ slip[i].status # "renegotiated"
                                  /\ i.contract \in disbursed \ Internal
                                  /\ status[i.contract] # "cancelled"}

LongestDelay(c) == Max({0} \cup {Delay(i) : i \in {j \in FactRows \cap Of(c) : Late(j)}})

\* Mutant: each instalment counts by its own delay, without the drag.
ContributionWithoutDrag(i) == IF Late(i) THEN Balance(i) ELSE 0

Contribution(i) ==
  IF Open(i) /\ (LongestDelay(i.contract) > DragAfter \/ Due[i] < today) THEN Balance(i) ELSE 0

SummaryRows(u) == {i \in FactRows : i.contract \in Mine(u) \cap Celcoin}
Summary(u) ==
  [outstanding |-> Total(SummaryRows(u), Pending),
   active |-> Cardinality({i.contract : i \in {j \in SummaryRows(u) : Pending(j) > 0}}),
   renegotiated |-> Total({i \in SummaryRows(u) : i.contract \in overhauled}, Pending),
   amount |-> Total(SummaryRows(u), Contribution),
   delinquent |-> Cardinality({i.contract : i \in {j \in SummaryRows(u) : Contribution(j) > 0}})]

(***************************************************************************)
(* contracts.service: the list and its filters.                            *)
(***************************************************************************)
Listable(u) == Mine(u) \cap Celcoin

Filtered(u, filter) ==
  {c \in Listable(u) :
     CASE filter = "all" -> TRUE
       [] filter = "onlyActive" -> \E i \in FactRows \cap Of(c) : Pending(i) > 0
       [] filter = "onlyDelinquency" -> \E i \in FactRows \cap Of(c) : Contribution(i) > 0
       [] filter = "onlyRenegotiated" -> c \in overhauled
       [] filter = "onlyDueToday" -> InPortfolio(c) /\ \E i \in Of(c) : Open(i) /\ Due[i] = today
       [] filter = "onlyUpcomingRenewal" ->
            /\ InPortfolio(c)
            /\ LastDue(c) >= Month(today) * MonthDays
            /\ LastDue(c) < (Month(today) + RenewalMonths) * MonthDays}

\* mapItem: outstandingBalance.
OutstandingBalance(c) == Total({i \in Of(c) : Open(i)}, Pending)

Before(i, j) == Due[i] < Due[j] \/ (Due[i] = Due[j] /\ i.number <= j.number)
First(S) == CHOOSE i \in S : \A j \in S : Before(i, j)

\* next_open_installment: there is one, or the column is empty.
NextOpen(c) == {i \in Of(c) : Open(i) /\ \A j \in Of(c) : Open(j) => Before(i, j)}

\* resolveDisplayInstallmentNumber: without an open one, the last.
Displayed(c) ==
  IF \E i \in Of(c) : Open(i) THEN First({i \in Of(c) : Open(i)})
  ELSE CHOOSE i \in Of(c) : \A j \in Of(c) : j.number <= i.number

\* getContractInstallments: what the line of an instalment shows.
DisplayStatus(i) ==
  CASE slip[i].status = "paid" -> "paid"
    [] slip[i].status # "paid" /\ Due[i] < today -> "overdue"
    [] slip[i].status # "paid" /\ Due[i] = today -> "due_today"
    [] OTHER -> "upcoming"
Line(i) == [status |-> DisplayStatus(i),
            days |-> IF DisplayStatus(i) = "overdue" THEN Delay(i) ELSE 0]

(***************************************************************************)
(* collections.service: the tabs and the detail they open.                 *)
(***************************************************************************)
Overdue(u) == {i \in Installments : Late(i) /\ i.contract \in Mine(u) /\ InPortfolio(i.contract)}

Preventive(u) ==
  {i \in Installments : /\ Open(i) /\ Due[i] >= today /\ Due[i] <= today + WithinDays
                        /\ InPortfolio(i.contract) /\ i.contract \in Mine(u)}

\* mapItem and mapUpcomingItem, getResponsible: a line of either tab.
TabRow(i) ==
  [installment |-> i, pending |-> Pending(i), days |-> Delay(i),
   responsible |-> IF agent[i.contract] = NoAgent THEN Consultant[i.contract]
                   ELSE agent[i.contract]]

\* getDetail: a 404 outside the direct scope or without the instalment.
NotFound == [found |-> FALSE]
Detail(u, c, n) ==
  LET rows == {i \in Of(c) : i.number = n}
  IN IF c \notin Mine(u) \/ rows = {} THEN NotFound
     ELSE [found |-> TRUE, installment |-> First(rows), pending |-> Pending(First(rows)),
           endDate |-> LastDue(c),
           responsible |-> IF agent[c] # NoAgent THEN agent[c] ELSE Consultant[c]]
-----------------------------------------------------------------------------
PortfolioTypeOK ==
  /\ today \in 0 .. Days /\ overhauled \subseteq Contracts /\ disbursed \subseteq Contracts
  /\ status \in [Contracts -> {"pending", "disbursed", "active", "closed", "cancelled"}]
  /\ agent \in [Contracts -> Partners \cup {NoAgent}]
  /\ \A i \in Installments :
       /\ slip[i].paid \in 0 .. Amount[i]
       /\ Open(i) <=> (slip[i].paid < Amount[i] /\ slip[i].status # "renegotiated")

\* Home and view count the same delinquency of a contract, with drag and without,
\* but for the contracts of the internal companies, which the Home alone counts.
DelinquencyAgrees ==
  \A u \in Partners :
    /\ \A c \in HomeContracts(u) :
         Total(FactRows \cap Of(c), Contribution) = IF c \in Internal THEN 0 ELSE HomeDelinquency(c)
    /\ HomeOverdue(u) \cap Celcoin = {c \in Filtered(u, "onlyDelinquency") : InPortfolio(c)}

\* The cards of the summary count and add up what their filter lists; the card of
\* active contracts of the Home counts, of that company, those whose last open
\* instalment has its payment in course as well.
CardsOpenTheirList ==
  \A u \in Partners :
    /\ Summary(u).active = Cardinality(Filtered(u, "onlyActive"))
    /\ Summary(u).delinquent = Cardinality(Filtered(u, "onlyDelinquency"))
    /\ Summary(u).outstanding = Total(Filtered(u, "onlyActive"), OutstandingBalance)
    /\ Summary(u).renegotiated =
         Total(Filtered(u, "onlyActive") \cap Filtered(u, "onlyRenegotiated"), OutstandingBalance)
    /\ Filtered(u, "onlyActive") =
         {c \in HomeActive(u) \cap Celcoin : \E i \in Of(c) : Open(i) /\ ~slip[i].clearing}
    /\ HomeDueToday(u) \cap Celcoin = Filtered(u, "onlyDueToday")
    /\ HomeRenewals(u) \cap Celcoin = Filtered(u, "onlyUpcomingRenewal")

\* Each open instalment due within the window is on exactly one tab; the card of
\* the Home counts the contracts of Cobrança.
TabsCover ==
  \A u \in Partners :
    /\ Overdue(u) \cap Preventive(u) = {}
    /\ Overdue(u) \cup Preventive(u) =
         {i \in Installments : /\ Open(i) /\ i.contract \in HomeContracts(u)
                               /\ Due[i] <= today + WithinDays}
    /\ {i.contract : i \in Overdue(u)} = HomeOverdue(u)

\* What a tab shows opens on that very instalment, and the list of instalments
\* of its contract says the same of it.
TabsOpen ==
  \A u \in Partners :
    /\ \A i \in Overdue(u) \cup Preventive(u) :
         /\ Detail(u, i.contract, i.number).found
         /\ \A k \in {"installment", "pending", "responsible"} :
              Detail(u, i.contract, i.number)[k] = TabRow(i)[k]
         /\ i \in Overdue(u) <=> Line(i) = [status |-> "overdue", days |-> TabRow(i).days]
    /\ \A c \in Listable(u) :
         /\ NextOpen(c) # {} => NextOpen(c) = {Displayed(c)}
         /\ Detail(u, c, Displayed(c).number).found
         /\ (\E i \in Of(c) : i \in Overdue(u)) => Displayed(c) \in Overdue(u)

(***************************************************************************)
(* The screens that show a contract to one partner agree on it: the Home   *)
(* and the tabs show every company, the list and the summary CELCOIN       *)
(* alone, the view no internal company                                     *)
(* (dashboard.service.ts, 67-246; portfolio.service.ts, 41-69;             *)
(* contracts.service.ts, 267-366; collections.service.ts, 166-444;         *)
(* vw_fato_parcela.sql, 27-42).                                            *)
(***************************************************************************)
ViewsAgree ==
  PortfolioTypeOK /\ DelinquencyAgrees /\ CardsOpenTheirList /\ TabsCover /\ TabsOpen
=============================================================================
