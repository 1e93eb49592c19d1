SPECIFICATION FairSpec
CONSTANTS
  a = a
  b = b
  Nobody = Nobody
  NoNamespace = NoNamespace
  Instances = {a, b}
  Groups = {"g"}
  Kinds = {"Deployment", "ClusterRole"}
  ClusterKinds = {"ClusterRole"}
  Names = {"app", "role"}
  Namespaces = {"default"}
  Versions = {"v0", "v1"}
  Specs <- MCSpecs
  Recorded <- MCRecorded
  Protected <- MCDisabled
  Disabled <- MCDisabled
  MaxEdits = 1
INVARIANTS
  TypeOK
  NothingForgotten
PROPERTIES
  DeletesOwn
  PruneSparesBuilt
  Settles
CHECK_DEADLOCK FALSE
