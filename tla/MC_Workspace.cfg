SPECIFICATION Spec
CONSTANTS
  Dirs <- AllDirs
  Imports <- Unpacked
  Bodies <- AllBodies
  Savers = {r1, r2}
  Scenarios <- Workspaces
  Nobody = Nobody
  Runs = {i1, i2}
  Server = Server
  i1 = i1
  i2 = i2
  r1 = r1
  r2 = r2
  Inputs <- AllInputs
  Artifacts <- Outputs
  SizeOf <- Sizes
  MaxArtifact = 2
  Quota = 2
  ContractOf <- Contracts
  DefaultCache = ""
  NoArtifact = NoArtifact
SYMMETRY Symmetric
INVARIANTS
  TypeOK
  OneDefinition
  HitIsRight
  QuotaBounded
PROPERTIES
  SavesAreExact
