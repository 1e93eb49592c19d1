CONSTANTS
  ns = ns
  app = app
  job = job
  r1 = r1
  r2 = r2
  NoRevision = NoRevision
  Objects = {ns, app}
  Revisions = {r1}
  ClusterDefs = {ns}
  Protected = {ns}
  Disabled = {}
  Content <- LagContent
  Specs <- SuspendSpecs
  MaxGeneration = 2
  AccountMoves = TRUE
  MaxLag = 2
  FreshStarts = FALSE
SPECIFICATION FairSpec
INVARIANTS
  FinalizeLeavesNothing
  IInv
PROPERTIES
  NoApplyAfterGone
  ImplementsLifecycle
  DeletionCompletes
