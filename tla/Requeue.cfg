CONSTANTS
  a = a
  b = b
  r1 = r1
  r2 = r2
  NoRevision = NoRevision
  Instances = {a, b}
  Revisions = {r1}
  DependsOn <- Circle
  ArtifactVanishes = TRUE
  Workers = 1
  MaxEdits <- EditAOnce
  MaxLag = 1
SPECIFICATION FairSpec
INVARIANTS
  NeverForgotten
PROPERTIES
  CatchesUp
