SPECIFICATION PortalSpec
CONSTANTS
  r1 = r1 r2 = r2 r3 = r3
  ana = ana bia = bia leo = leo
  c1 = c1 c2 = c2
  q1 = q1 q2 = q2
  Checks = {r1, r2, r3}
  UserOf <- MCUserOf
  Window = 3 MaxPerWindow = 1 ReadTime = 1 MaxClock = 5
  Users = {ana, bia, leo}
  NoManager = NoManager
  Profiles <- MCProfiles
  RolloutPartners = {ana, bia}
  Creator = ana
  SnapshotTeam <- MCSnapshotTeam
  Contracts = {c1, c2}
  Celcoin = {c1}
  Internal = {c2}
  Partners = {ana, bia}
  Consultant <- MCConsultant
  DisbursedAs <- MCDisbursedAs
  Installments <- MCInstallments
  Due <- MCDue
  Amount <- MCAmount
  DragAfter = 1 WithinDays = 1 MonthDays = 2 RenewalMonths = 1 Days = 4
  Unsaid = Unsaid
  PromiseMaxDays = 2
  Absent = Absent
  Texts <- MCTexts
  Canon <- MCCanon
  Client <- MCClient
  RegistrationForms <- MCRegistrations
  IncomeForms <- MCIncomes
  AddressForms <- MCAddresses
  OpinionForms <- MCOpinions
  GuarantorForms <- MCGuarantors
  FinancialForms <- MCFinancials
  InstallmentAmount = 1
  Sources <- MCSources
  MaxRenewed = 1
  PartyAddress = Absent
  Calls = {q1, q2}
  Keysets <- MCKeysets
  AccessLife = 2 RefreshLife = 3 RequestTime = 1
  NoToken = NoToken
  Nowhere = Nowhere
  Homes <- MCHomes
  Radii = {1, 3}
  MaxBonus = 1
  Places = {0, 1, 3}
  MaxAddresses = 2
SYMMETRY MCRequests
INVARIANTS
  QuotaRespected
  AccessFollowsRegistry
  ViewsAgree
  ShownAsEntered
CHECK_DEADLOCK FALSE
