\* One subject, one schema and one client operation: every interleaving of
\* commits, failed syncs, snapshots, crashes, recoveries and one restore.  The
\* client repeats its operation until it is answered.
CONSTANTS
  s1 = s1
  a = a
  o1 = o1
  Subject = {s1}
  Identity = {a}
  OperationID = {o1}
  NoOperation = NoOperation
  Global = Global
  None = None
  Refs <- MCRefs
  Reads = {}
  MaxInt = 2
  RequestedIDs = {0}
  RequestedVersions = {0}
  ConfigLevels = {}
  ConfigModes = {}
  Backups <- MCBackups
  MaxSequence = 3
SPECIFICATION FairSpec
INVARIANTS TypeOK AckedIsDurable PublishedIsDurable RecoveryCompletes ExecutedOnce StallIsReported
PROPERTIES ImplementsRegistry RetriesAreAnswered
CHECK_DEADLOCK FALSE
