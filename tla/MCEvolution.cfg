\* Three versions of a subject.
CONSTANTS
  p = p
  q = q
  Name = {p, q}
  Other = Other
  Documents <- MCDocuments
  Values <- MCValues
  Files <- MCFiles
  ConfiguredLevels = {"BACKWARD", "BACKWARD_TRANSITIVE", "FORWARD", "FULL_TRANSITIVE"}
  MaxVersions = 3
SPECIFICATION Spec
INVARIANTS ReadersKeepUp NumbersKeepTheirEncoding
CHECK_DEADLOCK FALSE
