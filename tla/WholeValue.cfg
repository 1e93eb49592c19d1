CONSTANTS
  Inputs <- FailureInputs
SPECIFICATION Spec
INVARIANTS
  DropKeepsValid
