SPECIFICATION Spec
CONSTANTS
  Keys = {"owner", "stage"}
  Workloads <- MCTagAndProtect
  ChunkSize = 2
  TaskLimit = 2
PROPERTIES
  ProtectStays
CHECK_DEADLOCK FALSE
