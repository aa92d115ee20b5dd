\* Modes, explicit IDs and versions at the edges of the integer range, retried
\* operations and a restored backup.
CONSTANTS
  s1 = s1
  s2 = s2
  a = a
  b = b
  c = c
  o1 = o1
  Subject = {s1, s2}
  Identity = {a, b, c}
  OperationID = {o1}
  NoOperation = NoOperation
  Global = Global
  None = None
  Refs <- MCRefs
  Reads <- MCReads
  MaxInt = 2
  RequestedIDs <- MCRequestedIDs
  RequestedVersions = {0, 1, 2}
  ConfigLevels = {"NONE"}
  ConfigModes = {"IMPORT", "READONLY"}
  Backups <- MCBackups
  MaxSequence = 5
SPECIFICATION Spec
INVARIANTS TypeOK IDsAreUnique LatestForIDIsUnique
PROPERTIES SchemasAreImmutable ResultsAreFinal
CHECK_DEADLOCK FALSE
