SPECIFICATION Spec
CONSTANTS
  Requests = {r1, r2, r3}
  Kinds <- TwoKinds
  Reports = {"report"}
  Roles <- TwoRoles
  Approvers <- Rbac
  Deliveries = {"d1"}
  MaxPauses = 2
  MaxRestarts = 1
SYMMETRY RequestSymmetry
INVARIANTS AuthorisedIsAnswered AcceptedOncePerProcess
PROPERTIES QuestionStands AnsweredOnce
