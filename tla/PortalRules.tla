----------------------------- MODULE PortalRules ----------------------------
(***************************************************************************)
(* The parts of the portal that share no state with the wizard's           *)
(* transactions nor with the queue, side by side in one specification:     *)
(* the quota of e-mail checks, who sees whom, the screens over the         *)
(* contracts, what is told of an interaction, the fields of the wizard,    *)
(* the permissions a session carries, and the place of a visit.  They      *)
(* share no variable, so a behaviour takes the steps of one of them, drawn *)
(* at the start; nothing is lost, for the interleavings of independent     *)
(* parts satisfy what each part satisfies.                                 *)
(***************************************************************************)
EXTENDS EmailLimiter, People, Portfolio, Interactions, WizardFields, Sessions,
  VisitLocation

VARIABLE part  \* the part that takes the steps

portalVars ==
  <<part, limiterVars, peopleVars, portfolioVars, interactionVars, wizardVars, sessionVars,
    visitVars>>

PortalInit ==
  /\ part \in {"limiter", "people", "portfolio", "interactions", "wizard", "sessions", "visit"}
  /\ LimiterInit /\ PeopleInit /\ PortfolioInit /\ InteractionsInit /\ WizardInit
  /\ VisitInit /\ SessionInit /\ (part # "sessions" => keys = CHOOSE k \in Keysets : TRUE)

LimiterStep ==
  /\ part = "limiter" /\ LimiterNext
  /\ UNCHANGED <<part, peopleVars, portfolioVars, interactionVars, wizardVars, sessionVars,
                 visitVars>>

PeopleStep ==
  /\ part = "people" /\ PeopleNext
  /\ UNCHANGED <<part, limiterVars, portfolioVars, interactionVars, wizardVars, sessionVars,
                 visitVars>>

PortfolioStep ==
  /\ part = "portfolio" /\ PortfolioNext
  /\ UNCHANGED <<part, limiterVars, peopleVars, interactionVars, wizardVars, sessionVars,
                 visitVars>>

InteractionsStep ==
  /\ part = "interactions" /\ InteractionsNext
  /\ UNCHANGED <<part, limiterVars, peopleVars, portfolioVars, wizardVars, sessionVars, visitVars>>

WizardStep ==
  /\ part = "wizard" /\ WizardNext
  /\ UNCHANGED <<part, limiterVars, peopleVars, portfolioVars, interactionVars, sessionVars,
                 visitVars>>

SessionStep ==
  /\ part = "sessions" /\ SessionNext
  /\ UNCHANGED <<part, limiterVars, peopleVars, portfolioVars, interactionVars, wizardVars,
                 visitVars>>

VisitStep ==
  /\ part = "visit" /\ VisitNext
  /\ UNCHANGED <<part, limiterVars, peopleVars, portfolioVars, interactionVars, wizardVars,
                 sessionVars>>

PortalNext ==
  \/ LimiterStep \/ PeopleStep \/ PortfolioStep \/ InteractionsStep \/ WizardStep
  \/ SessionStep \/ VisitStep

PortalSpec == PortalInit /\ [][PortalNext]_portalVars
-----------------------------------------------------------------------------
(***************************************************************************)
(* What a user may see and do follows the registry: whom he sees, the live *)
(* hierarchy behind the guards (scope.service.ts, 74-91); what he creates, *)
(* the permissions he had within the life of an access token and the       *)
(* requests around it, that of the new flow among them                     *)
(* (auth.service.ts, 70-79; permissions.guard.ts, 26-52).                  *)
(* While another part steps the hierarchy is the one of the start.         *)
(***************************************************************************)
AccessFollowsRegistry == (part = "people" => WhoSeesWhom) /\ DraftsOnLiveAuthority

(***************************************************************************)
(* A form opened again shows what the last accepted save or copy left      *)
(* (quote-read.service.ts, 262-350 and 470-535), and the row of a          *)
(* follow-up tells whom the execution reached, how and with what result;   *)
(* of what the task accepts the follow-up refuses the recipient "other"    *)
(* and nothing else (activities.service.ts, 795-860; follow-up.service.ts, *)
(* 98-196); the place of a visit is told as VisitConfirmed says.           *)
(***************************************************************************)
ShownAsEntered == ShownAsSaved /\ FollowUpTells /\ VisitConfirmed
=============================================================================
