SPECIFICATION HostingSpec
CONSTANTS
  a = a  h1 = h1  h2 = h2  g1 = g1  g2 = g2
  Photos = {a}
  Handlers = {h1, h2}
  Pages = {g1, g2}
  Faults = {"disk", "database", "ack", "crash"}
  MaxVersion = 4  History <- MCHistory
  DeadImages = {2}  DeadCompose = {3}  OpenCompose = {4}
  DeployFaults = {"fetch", "inspect", "build", "migrate", "swap", "slow", "tag", "cut"}
SYMMETRY Sym
CONSTRAINT Focus
INVARIANTS
  FilesServed OrphansExplained ReferencedImagesKept GalleryAgrees
  SchemaCoversApp FailureLeavesAnApp RollbackRestores
CHECK_DEADLOCK FALSE
