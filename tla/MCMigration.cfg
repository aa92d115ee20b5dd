\* Registrations, deletions and settings before the export and, unless the
\* source is frozen, during it.
CONSTANTS
  s1 = s1
  s2 = s2
  a = a
  b = b
  Subject = {s1, s2}
  Identity = {a, b}
  OperationID = {}
  NoOperation = NoOperation
  Global = Global
  None = None
  Refs <- MCRefs
  Reads <- MCReads
  Rank <- MCRank
  MaxInt = 3
  RequestedIDs <- MCRequestedIDs
  RequestedVersions = {0, 2}
  ConfigLevels = {"NONE"}
  ConfigModes = {"IMPORT"}
  Backups = {}
  MaxSequence = 4
SPECIFICATION FairSpec
INVARIANTS IdentifiersAreKept OnlyRepeatsAreMissed FailureHasACause
PROPERTIES ExportTerminates
CHECK_DEADLOCK FALSE
