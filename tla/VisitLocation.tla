--------------------------- MODULE VisitLocation ----------------------------
(***************************************************************************)
(* The check of a visit: which registered address of the client or of the  *)
(* guarantor is geocoded, and what the distance from the agent to the      *)
(* point found confirms.  Points are on a line; the answers of the         *)
(* geocoder are part of the address.                                       *)
(***************************************************************************)
EXTENDS Integers, Sequences, FiniteSetsExt

CONSTANTS
  Homes,       \* addresses: [at, rooftop, city, cited]; at \in Int or Nowhere
  Nowhere,     \* an address that is missing, or a point not found
  Radii,       \* values of LOCATION_CHECK_RADIUS_METERS and ..._PROXIMITY_...
  MaxBonus,    \* MAX_ACCURACY_BONUS_METERS
  Places,      \* where the agent may stand
  MaxAddresses \* bound: addresses of a client

ASSUME VisitAssumption ==
  /\ Radii \subseteq Nat \ {0} /\ Places \subseteq Int /\ MaxBonus \in Nat
  /\ Nowhere \notin Int /\ Nowhere \notin Homes
  /\ Homes \subseteq [at : Int \cup {Nowhere}, rooftop : BOOLEAN, city : BOOLEAN, cited : BOOLEAN]

VARIABLES
  addresses, \* of the client, in the order of created_at: [home, primary]
  guarantor, \* the address in the proposal of the contract, or Nowhere
  visit      \* history: the last check, [party, place, settings, result], or Nowhere

visitVars == <<addresses, guarantor, visit>>

Distance(a, b) == Max({a - b, b - a})
-----------------------------------------------------------------------------
\* Mutant: ORDER BY is_primary DESC, which PostgreSQL sorts NULLS FIRST.
RankNullsFirst(row) == CASE row.primary = "null" -> 3 [] row.primary = "no" -> 1 [] OTHER -> 2

\* is_primary DESC NULLS LAST, created_at DESC.
Rank(row) == CASE row.primary = "null" -> 0 [] row.primary = "no" -> 1 [] OTHER -> 2

FindClientAddress(rows) ==
  IF rows = <<>> THEN Nowhere
  ELSE rows[CHOOSE i \in DOMAIN rows : \A j \in DOMAIN rows \ {i} :
              \/ Rank(rows[j]) < Rank(rows[i])
              \/ Rank(rows[j]) = Rank(rows[i]) /\ j < i].home

\* settings: [radius, proximity], from the environment; accuracy: what the phone
\* reports, negative or missing (0) included.
ProximityRadius(settings) == Max({settings.proximity, settings.radius})

\* Mutant: the bonus is not cut at the proximity band.
EffectiveUncut(settings, accuracy) == settings.radius + Min({Max({accuracy, 0}), MaxBonus})

EffectiveRadius(settings, accuracy) ==
  Min({settings.radius + Min({Max({accuracy, 0}), MaxBonus}), ProximityRadius(settings)})

\* A blank city is nothing to compare with.
AddressLikelyWrong(home) == ~home.rooftop \/ (home.city /\ ~home.cited)

ConfirmationLevel(distance, effective, proximity) ==
  CASE distance <= effective -> "exact"
    [] distance > effective /\ distance <= proximity -> "proximity"
    [] OTHER -> "none"

\* verify from the geocoder's answer on; unreliableResult when there is no point.
Result(home, place, settings, accuracy) ==
  IF home.at = Nowhere
  THEN [level |-> "none", wrong |-> TRUE]
  ELSE [level |-> IF AddressLikelyWrong(home) THEN "none"
                  ELSE ConfirmationLevel(Distance(home.at, place),
                         EffectiveRadius(settings, accuracy), ProximityRadius(settings)),
        wrong |-> AddressLikelyWrong(home)]
-----------------------------------------------------------------------------
\* The registration programs add addresses; the newest may or may not be primary.
AddAddress(home, primary) ==
  /\ Len(addresses) < MaxAddresses
  /\ addresses' = Append(addresses, [home |-> home, primary |-> primary])
  /\ visit' = Nowhere
  /\ UNCHANGED guarantor

\* The proposal of the contract names a guarantor.
NameGuarantor(home) ==
  /\ guarantor = Nowhere /\ guarantor' = home
  /\ visit' = Nowhere
  /\ UNCHANGED addresses

\* verify; a party without an address is a 404.
Verify(party, place, settings, accuracy) ==
  LET home == IF party = "guarantor" THEN guarantor ELSE FindClientAddress(addresses)
  IN /\ home # Nowhere /\ visit = Nowhere  \* nothing is kept from check to check
     /\ visit' = [party |-> party, place |-> place, settings |-> settings,
                  result |-> Result(home, place, settings, accuracy)]
     /\ UNCHANGED <<addresses, guarantor>>

VisitInit ==
  /\ addresses = <<>>
  /\ guarantor = Nowhere
  /\ visit = Nowhere

VisitNext ==
  \/ \E home \in Homes, primary \in {"yes", "no", "null"} : AddAddress(home, primary)
  \/ \E home \in Homes : NameGuarantor(home)
  \/ \E party \in {"client", "guarantor"}, place \in Places,
        settings \in [radius : Radii, proximity : Radii], accuracy \in -1 .. MaxBonus + 1 :
       Verify(party, place, settings, accuracy)

VisitSpec == VisitInit /\ [][VisitNext]_visitVars
-----------------------------------------------------------------------------
\* The addresses a visit to the client may be measured from: no primary one is
\* passed over, and none is newer among those that are alike.
Registered(rows) ==
  {rows[i].home : i \in {i \in DOMAIN rows :
     /\ rows[i].primary = "yes" \/ \A j \in DOMAIN rows : rows[j].primary # "yes"
     /\ \A j \in DOMAIN rows : j > i => rows[j].primary # rows[i].primary}}

(***************************************************************************)
(* A visit is confirmed only near a point that is trusted and belongs to   *)
(* the party visited; what the phone says of its precision may make it     *)
(* exact, and neither confirms it nor undoes that; and another trusted     *)
(* visit, nearer to the same point, would not be confirmed less            *)
(* (location-check.service.ts, 71-138 and 219-225).                        *)
(***************************************************************************)
VisitConfirmed ==
  visit # Nowhere /\ visit.result.level # "none" =>
    \E home \in IF visit.party = "guarantor" THEN {guarantor} ELSE Registered(addresses) :
      LET distance == Distance(home.at, visit.place)
      IN /\ home.at # Nowhere /\ home.rooftop /\ (home.city => home.cited)
         /\ distance <= ProximityRadius(visit.settings)
         /\ visit.result.level = "exact" => distance <= visit.settings.radius + MaxBonus
         /\ \A other \in -1 .. MaxBonus + 1 :
              /\ Result(home, visit.place, visit.settings, other).level # "none"
              /\ \A place \in Places : Distance(home.at, place) <= distance =>
                   /\ Result(home, place, visit.settings, other).level # "none"
                   /\ visit.result.level = "exact" /\ other >= MaxBonus =>
                        Result(home, place, visit.settings, other).level = "exact"
=============================================================================
