SPECIFICATION Spec
CONSTANTS
  Keys = {"owner", "stage"}
  Workloads <- MCWorkloads
  ChunkSize = 2
  TaskLimit = 2
INVARIANTS
  CountIsPiped
CHECK_DEADLOCK FALSE
