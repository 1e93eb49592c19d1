CONSTANTS
  Inputs <- AllInputs
SPECIFICATION Spec
INVARIANTS
  TypeOK
  BuildsByPolicy
  FailsWhole
  ReportsInvalid
  GatesHold
  BuildInv
