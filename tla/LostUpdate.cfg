CONSTANTS
  ns = ns
  app = app
  job = job
  r1 = r1
  r2 = r2
  NoRevision = NoRevision
  Objects = {ns, app, job}
  Revisions = {r1, r2}
  ClusterDefs = {ns}
  Protected = {}
  Disabled = {}
  Content <- MCContent
  Specs <- SuspendSpecs
  MaxGeneration = 1
  AccountMoves = FALSE
  MaxLag = 2
  FreshStarts = FALSE
SPECIFICATION Spec
INVARIANTS
  LastAppliedIsLast
