---------------------------- MODULE Interactions ----------------------------
(***************************************************************************)
(* What the partner says of an execution and what the history keeps of it: *)
(* the form of an interaction, the rules of the task, its translation to   *)
(* a follow-up and the rules of the follow-up, which also come alone       *)
(* through its own route, in an older and a newer form.  Who may act and   *)
(* when is ActivityQueue's; the forms are all those the enumerations give. *)
(***************************************************************************)
EXTENDS Integers

CONSTANTS
  Unsaid,         \* a field that was not sent, a NULL
  PromiseMaxDays  \* PROMISE_MAX_DAYS: 10 in the code

VARIABLE last  \* history: the last form accepted and the row it stored

interactionVars == <<last>>

Channels == {"whatsapp", "call", "visit"}
Results == {"no_response", "not_located", "payment_promise", "dispute", "renegotiation",
            "deceased", "no_forecast", "other"}
Parties == {"client", "guarantor"}
Types == {"call", "message", "visit", "automatic"}
AutomaticActions == {"collection_letter", "negativation", "renegotiation"}
LegacyStatuses ==
  {"contacted", "client_call", "guarantor_call", "whatsapp_message", "client_visit",
   "guarantor_visit", "client_collection_letter", "guarantor_collection_letter"}

\* What was not sent is none of the values that are.
ASSUME InteractionsAssumption ==
  /\ PromiseMaxDays \in Nat /\ Unsaid \notin Int
  /\ Unsaid \notin Parties \cup Types \cup AutomaticActions \cup LegacyStatuses

\* The promise is given in days from today; "observed": the observation is not blank.
Forms ==
  [task : {"contact", "visit"}, channel : Channels, recipient : Parties \cup {"other"},
   result : Results, observed : BOOLEAN, promise : {Unsaid} \cup (-1 .. PromiseMaxDays + 1),
   place : {Unsaid, "exact", "manual"}, reason : BOOLEAN]

\* CreateFollowUpDto sent to POST /follow-up.
DirectForms ==
  [status : {Unsaid, "contacted", "client_call"},
   type : {Unsaid} \cup Types, party : {Unsaid} \cup Parties,
   action : {Unsaid} \cup AutomaticActions, result : {Unsaid, "no_return"},
   forecast : {Unsaid, 0}]
-----------------------------------------------------------------------------
\* VisitLocationConfirmationConstraint: a reason exactly when it is manual.
DtoAccepts(f) == (f.place = "manual") <=> f.reason

ChannelsOf(taskType) == IF taskType = "visit" THEN {"visit"} ELSE {"whatsapp", "call"}
ResultsOf(taskType) == Results \ (IF taskType = "visit" THEN {"no_response"} ELSE {"not_located"})

\* validateChannelAndResult, observation_required and resolvePromiseDate.
TaskAccepts(f) ==
  /\ f.channel \in ChannelsOf(f.task)
  /\ f.result \in ResultsOf(f.task)
  /\ f.result = "other" => f.observed
  /\ f.result = "payment_promise" => f.promise # Unsaid /\ f.promise \in 0 .. PromiseMaxDays

FollowUpType(channel) == IF channel = "whatsapp" THEN "message" ELSE channel

ExpectedResult(result) ==
  CASE result = "no_response" -> "no_return"
    [] result = "payment_promise" -> "will_pay_on_date"
    [] result = "renegotiation" -> "wants_renegotiation"
    [] OTHER -> result

\* mapInteractionToFollowUp, for the recipients it supports.
Mapped(f) ==
  [status |-> Unsaid, type |-> FollowUpType(f.channel), party |-> f.recipient, action |-> Unsaid,
   result |-> ExpectedResult(f.result),
   forecast |-> IF f.result = "payment_promise" THEN f.promise ELSE Unsaid]

\* normalize: what it refuses with a BadRequest.
Legacy(d) == d.type = Unsaid
FollowUpAccepts(d) ==
  \/ Legacy(d) /\ d.party = Unsaid /\ d.action = Unsaid /\ d.status # Unsaid
  \/ /\ ~Legacy(d) /\ d.status = Unsaid /\ d.party # Unsaid
     /\ (d.action # Unsaid) <=> (d.type = "automatic")
     /\ d.type = "automatic" => d.result = Unsaid
     /\ d.action = "renegotiation" => d.party = "client"

\* Mutant: the call of a guarantor is filed as one of the client.
LegacyStatusOfClient(type, party, action) ==
  CASE type = "call" -> "client_call"
    [] type = "message" -> "whatsapp_message"
    [] type = "visit" -> IF party = "client" THEN "client_visit" ELSE "guarantor_visit"
    [] OTHER -> action

\* deriveLegacyStatus.
LegacyStatus(type, party, action) ==
  CASE type = "call" -> IF party = "client" THEN "client_call" ELSE "guarantor_call"
    [] type = "message" -> "whatsapp_message"
    [] type = "visit" -> IF party = "client" THEN "client_visit" ELSE "guarantor_visit"
    [] action = "collection_letter" ->
         IF party = "client" THEN "client_collection_letter" ELSE "guarantor_collection_letter"
    [] OTHER -> action

\* persistWithinTransaction: the row of installment_followups.
Stored(d) ==
  [d EXCEPT !.status = IF Legacy(d) THEN @ ELSE LegacyStatus(d.type, d.party, d.action)]

\* mapRecipientToFollowUpParty throws for the recipient it has no party for; what
\* is left goes through normalize.
FollowUpTakes(f) == f.recipient \in Parties /\ FollowUpAccepts(Mapped(f))

\* The task's execution and its follow-up are one transaction: a recipient or a
\* follow-up that is refused leaves nothing behind.  Bound: one registration, for
\* the next knows nothing of it.
Register(f) ==
  /\ last = Unsaid
  /\ DtoAccepts(f) /\ TaskAccepts(f)
  /\ FollowUpTakes(f)
  /\ last' = [asked |-> f, row |-> Stored(Mapped(f)), direct |-> FALSE]

CreateFollowUp(d) ==
  /\ last = Unsaid
  /\ FollowUpAccepts(d)
  /\ last' = [asked |-> d, row |-> Stored(d), direct |-> TRUE]

InteractionsInit == last = Unsaid

InteractionsNext ==
  \/ \E f \in Forms : Register(f)
  \/ \E d \in DirectForms : CreateFollowUp(d)

InteractionsSpec == InteractionsInit /\ [][InteractionsNext]_interactionVars
-----------------------------------------------------------------------------
\* What a reader of the single column status learns of the channel and the party.
StatusTells(status, type, party) ==
  /\ type = "message" <=> status = "whatsapp_message"
  /\ type = "call" <=> status \in {"client_call", "guarantor_call"}
  /\ type = "visit" <=> status \in {"client_visit", "guarantor_visit"}
  /\ status \in {"client_call", "client_visit", "client_collection_letter"} => party = "client"
  /\ status \in {"guarantor_call", "guarantor_visit", "guarantor_collection_letter"}
       => party = "guarantor"

\* Of the executions the rules of the task accept the follow-up refuses those that
\* reached "other", always, and no other one.
OnlyOtherIsRefused ==
  \A f \in Forms : DtoAccepts(f) /\ TaskAccepts(f)
                     => (FollowUpTakes(f) <=> f.recipient # "other")

\* The row keeps who was reached, how, with what result and for when.
HistoryTells ==
  last # Unsaid =>
    LET r == last.row IN
    /\ r.status # Unsaid
    /\ r.type # Unsaid => StatusTells(r.status, r.type, r.party)
    /\ ~last.direct =>
         /\ r.party = last.asked.recipient
         /\ {x \in Results : ExpectedResult(x) = r.result} = {last.asked.result}
         /\ r.forecast # Unsaid <=> r.result = "will_pay_on_date"
         /\ r.forecast # Unsaid => r.forecast \in 0 .. PromiseMaxDays

FollowUpTells == OnlyOtherIsRefused /\ HistoryTells
=============================================================================
