SPECIFICATION FairSpec
CONSTANTS
  a = a
  b = b
  r1 = r1
  r2 = r2
  Instances = {a, b}
  Objects = {}
  Revisions = {r1, r2}
  NoRevision = NoRevision
  Topologies <- MCTopologies
  Releases <- MCReleases
  MaxEdits <- MCMaxEdits
  Lagging = FALSE
INVARIANTS
  TypeOK
  ReadyIsRolledOut
  BlockedForever
PROPERTIES
  UnseenAloneOpens
  ImplementsRollout
  RollsOut
