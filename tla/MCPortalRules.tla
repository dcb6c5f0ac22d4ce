---------------------------- MODULE MCPortalRules ---------------------------
(* Three checks of two users; three users of a hierarchy; two contracts, one *)
(* of two instalments; every form of an interaction; forms of each step; two *)
(* requests of a session.                                                    *)
EXTENDS PortalRules

CONSTANTS r1, r2, r3, ana, bia, leo, c1, c2, q1, q2

\* Nothing distinguishes the two requests of a session.
MCRequests == Permutations({q1, q2})

MCUserOf == (r1 :> ana) @@ (r2 :> ana) @@ (r3 :> bia)

Flow == "QUOTE_NEW_ORIGINATION_FLOW"
MCProfiles ==
  {{Admin, "INSTALLMENT_VIEW", "PERFORMANCE_VIEW"}, {Admin, Flow}, {Support, "PERFORMANCE_VIEW"},
   {"INSTALLMENT_VIEW", "PERFORMANCE_VIEW", "QUOTE_APPROVER", Flow},
   {"QUOTE_CREATE", "INSTALLMENT_VIEW_ALL", "PERFORMANCE_VIEW", Flow},
   {"QUOTE_CREATE", "QUOTE_VIEW_ALL", Flow}, {"QUOTE_CREATE", "QUOTE_VIEW_ALL"}}
MCSnapshotTeam == (ana :> {leo}) @@ (bia :> {}) @@ (leo :> {leo})

I(c, n) == [contract |-> c, number |-> n]
MCInstallments == {I(c1, 1), I(c1, 2), I(c2, 1)}
MCDue == (I(c1, 1) :> 1) @@ (I(c1, 2) :> 3) @@ (I(c2, 1) :> 2)
MCAmount == (I(c1, 1) :> 2) @@ (I(c1, 2) :> 1) @@ (I(c2, 1) :> 1)
MCConsultant == (c1 :> ana) @@ (c2 :> ana)
MCDisbursedAs == (c1 :> "disbursed") @@ (c2 :> "active")

MCTexts == {"ana", "Ana ", "x", "?"}
MCCanon == ("ana" :> "ana") @@ ("Ana " :> "ana") @@ ("x" :> "x") @@ ("?" :> Absent)
MCClient == [document |-> "x", name |-> "x", telephone |-> "x"]
Reg == [name |-> "Ana ", telephone |-> "x", marital |-> "married", spouse |-> "x",
        programs |-> {"none"}, ownsVehicle |-> TRUE, financed |-> FALSE, adult |-> TRUE]
MCRegistrations ==
  {Reg, [Reg EXCEPT !.marital = "single", !.ownsVehicle = FALSE, !.financed = TRUE],
   [Reg EXCEPT !.adult = FALSE], [Reg EXCEPT !.spouse = "?"], [Reg EXCEPT !.financed = Absent],
   [Reg EXCEPT !.programs = {"none", "bolsa_familia"}]}
Inc(id, activity, source, amount) ==
  [id |-> id, role |-> IF id = "i1" THEN "primary" ELSE "secondary", activity |-> activity,
   otherActivity |-> "Ana ", profession |-> "Ana ", branch |-> "retail_commerce",
   subcategory |-> "general_commerce", duration |-> "1_to_3_years", source |-> source,
   amount |-> amount, relationship |-> "spouse"]
Clt == [Inc("i1", "clt_employee", "salary", 3) EXCEPT !.branch = Absent, !.subcategory = Absent]
MCIncomes ==
  {<<Clt>>, <<Inc("i1", "business_owner", "own_business", 3)>>,
   <<Inc("i1", "other", "mixed_income", 1), Inc("i2", "retired_or_pensioner", "benefit", 1),
     Inc("i3", "unemployed", "family_income", 2)>>,
   <<>>, <<Clt, Clt>>, <<Inc("i1", "clt_employee", "family_income", 1)>>,
   <<[Inc("i1", "business_owner", "own_business", 3) EXCEPT !.branch = "construction"]>>}
MCAddresses ==
  {[street |-> "Ana ", complement |-> "Ana ", state |-> "SP", geolocation |-> Absent],
   [street |-> "x", complement |-> Absent, state |-> "RJ", geolocation |-> "here"]}
Op == [origin |-> "other", otherOrigin |-> "Ana ", referrer |-> "x", text |-> "Ana "]
MCOpinions ==
  {Op, [Op EXCEPT !.origin = "aurea_customer_referral"], [Op EXCEPT !.otherOrigin = "?"],
   [Op EXCEPT !.text = "?"]}
Gu == [name |-> "Ana ", document |-> "ana", telephone |-> "x", adult |-> TRUE,
       address |-> [street |-> "x", complement |-> Absent, state |-> "SP"]]
MCGuarantors == {Gu, [Gu EXCEPT !.document = "x"], [Gu EXCEPT !.name = "?"]}
Fi(n, category, description) ==
  [expenses |-> <<[category |-> category, description |-> description, amount |-> n]>>,
   loans |-> <<[category |-> "other", institution |-> "bank", description |-> "Ana ", amount |-> 1]>>,
   pixCode |-> "Ana "]
MCFinancials == {Fi(2, "rent", Absent), Fi(1, "other", "Ana "), Fi(1, "other", Absent),
                 [Fi(1, "rent", Absent) EXCEPT !.loans = <<>>]}
MCSources ==
  LET entries == <<Entry(Clt), Entry(Inc("i2", "other", "rent", 1)), Entry(Inc("i3", "other", "rent", 2))>>
      source == [modelled |-> TRUE, registration |-> Registration(Reg), income |-> entries,
                 mirrors |-> Mirrors(entries),
                 address |-> [street |-> "ana", complement |-> Absent, state |-> "SP"]]
  IN {source, [source EXCEPT !.modelled = FALSE, !.income = <<>>]}

MCKeysets ==
  {{"QUOTE_CREATE", "ROLE_CONSULTANT", Flow, "QUOTE_ACTIVITY_GATES"}, {"QUOTE_CREATE", "ROLE_CONSULTANT"}}
MCHomes ==
  LET home == [at |-> 0, rooftop |-> TRUE, city |-> TRUE, cited |-> TRUE]
  IN {home, [home EXCEPT !.at = 4, !.city = FALSE, !.cited = FALSE], [home EXCEPT !.cited = FALSE],
      [home EXCEPT !.at = 2, !.rooftop = FALSE], [home EXCEPT !.at = Nowhere, !.rooftop = FALSE]}
=============================================================================
