SPECIFICATION Spec
CONSTANTS
  Keys = {"owner", "stage"}
  Workloads <- MCWorkloads
  ChunkSize = 2
  TaskLimit = 2
INVARIANTS
  CombinedIsPiped
  TagsInSync
PROPERTIES
  LinesEnd
CHECK_DEADLOCK FALSE
