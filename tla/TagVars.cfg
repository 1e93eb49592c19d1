CONSTANTS
  Inputs <- TagInputs
SPECIFICATION Spec
INVARIANTS
  TagVarsAvailable
