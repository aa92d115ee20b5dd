\* Three schemas, c referencing b's subject and b referencing a's: register,
\* soft delete and permanent delete in every order, under two policies.
CONSTANTS
  s1 = s1
  s2 = s2
  a = a
  b = b
  c = c
  o1 = o1
  Subject = {s1, s2}
  Identity = {a, b, c}
  OperationID = {}
  NoOperation = NoOperation
  Global = Global
  None = None
  Refs <- MCRefs
  Reads <- MCReads
  MaxInt = 3
  RequestedIDs = {0}
  RequestedVersions = {0}
  ConfigLevels = {"NONE", "FULL_TRANSITIVE"}
  ConfigModes = {}
  Backups = {}
  MaxSequence = 7
SPECIFICATION Spec
INVARIANTS OneActiveVersionPerSchema ReferencesSurvive
PROPERTIES VersionsAreForEver VersionsIncrease
CHECK_DEADLOCK FALSE
