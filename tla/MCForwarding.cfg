\* Two replicas, an operation of either kind, a deletion by another client of a
\* mode that was put earlier, two faults.
CONSTANTS
  p1 = p1
  Replica = {r1, r2}
  OperationID = {o1}
  OtherPuts = {p1}
  OtherDeletes = {p2}
  Earlier <- PutEarlier
  Kinds = {"delete", "import"}
  FirstMember = r1
  Retries = 1
  MaxCalls = 2
  MaxFaults = 2
SPECIFICATION FairSpec
INVARIANTS TypeOK ExecutedOnce AnswersAreDecided
PROPERTIES RequestsAreAnswered
CHECK_DEADLOCK FALSE
