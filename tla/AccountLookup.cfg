CONSTANTS
  ns = ns
  app = app
  job = job
  r1 = r1
  r2 = r2
  NoRevision = NoRevision
  Objects = {ns, app, job}
  Revisions = {r1, r2}
  ClusterDefs = {ns}
  Protected = {}
  Disabled = {}
  Content <- MCContent
  Specs <- ActiveSpecs
  MaxGeneration = 1
  AccountMoves = TRUE
  MaxLag = 1
  FreshStarts = TRUE
SPECIFICATION Spec
PROPERTIES
  SkipsOnlyWithoutAccount
