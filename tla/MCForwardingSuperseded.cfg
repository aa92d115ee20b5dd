\* Two replicas, one rebalance.
CONSTANTS
  p1 = p1
  Replica = {r1, r2}
  OperationID = {o1}
  OtherPuts = {p1}
  OtherDeletes = {}
  Earlier <- PutEarlier
  Kinds = {"delete", "import"}
  FirstMember = r1
  Retries = 1
  MaxCalls = 2
  MaxFaults = 1
SPECIFICATION FairSpec
PROPERTIES LeadersReturn
CHECK_DEADLOCK FALSE
