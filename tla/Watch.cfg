CONSTANTS
  a = a
  b = b
  r1 = r1
  r2 = r2
  NoRevision = NoRevision
  Instances = {a, b}
  Revisions = {r1, r2}
  DependsOn <- Chain
  ArtifactVanishes = FALSE
  Workers = 1
  MaxEdits <- EditATwice
  MaxLag = 1
SPECIFICATION Spec
INVARIANTS
  TypeOK
  NoChangeMissed
  WatchInv
SYMMETRY RevisionSymmetry
