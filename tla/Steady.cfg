CONSTANTS
  ns = ns
  app = app
  job = job
  r1 = r1
  r2 = r2
  NoRevision = NoRevision
  Objects = {ns, app}
  Revisions = {r1, r2}
  ClusterDefs = {ns}
  Protected = {app}
  Disabled = {app}
  Content <- SwapContent
  Specs <- PlainSpecs
  MaxGeneration = 2
  AccountMoves = FALSE
  MaxLag = 2
  FreshStarts = TRUE
SPECIFICATION FairSpec
INVARIANTS
  TypeOK
  ReadyIsTrue
  ReadyInv
  LastAppliedIsLast
PROPERTIES
  NoSilentOrphan
  ForgetsOnlyByFailedPrune
  Converges
