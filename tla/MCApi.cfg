\* Two connections, one request of nearly every endpoint.
CONSTANTS
  s1 = s1
  s2 = s2
  a = a
  b = b
  Subject = {s1, s2}
  Identity = {a, b}
  OperationID <- MCOperations
  NoOperation = NoOperation
  Global = Global
  None = None
  Refs <- MCRefs
  Reads <- MCReads
  MaxInt = 3
  RequestedIDs = {0}
  RequestedVersions = {0}
  ConfigLevels = {"NONE"}
  ConfigModes = {"READONLY"}
  Backups <- MCBackups
  MaxSequence = 5
  Connection = {c1, c2}
  Requests <- MCRequests
  Foreign <- MCForeign
SPECIFICATION Spec
INVARIANTS DirectReadsAreAtomic RegistrationsNameTheirSchema DeletionsHold
PROPERTIES CommandsOnly RetriesFailOnlyForWhatIsGone
CHECK_DEADLOCK FALSE
