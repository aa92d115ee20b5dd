\* Transitions, shutdown snapshots, crashes and compaction, with or without the
\* restore of a backup of two transitions or of none.
CONSTANTS
    Backup = {0, 2}
    None = None
    MaxSequence = 5
    MaxOffset = 8
SPECIFICATION Spec
INVARIANTS ServesEverything NothingIsLost TopicOpensUnlessBackupIsGone
CHECK_DEADLOCK FALSE
