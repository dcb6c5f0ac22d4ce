SPECIFICATION Spec
CONSTANTS
  r1 = r1
  r2 = r2
  id1 = id1
  inc1 = inc1
  None = None
  Requests <- MCRequests
  MaxAttempts = 2
  PlainSteps = {"registration"}
  Terms <- MCTerms
  Amount <- MCAmount
  Installment <- MCInstallment
  Limits = {0, 2}
  Incomes = {0, 2}
  Commitments = {0, 1}
  BirthDates = {"b1", "b2"}
  Attachments <- MCAttachments
  Kind <- MCKind
  MandatoryKinds = {"identification_document"}
  IncomeProof = "proof_of_income"
  HasParty = TRUE
PROPERTY InsuredAtBirthOfRecord
