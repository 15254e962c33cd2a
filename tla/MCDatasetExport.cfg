SPECIFICATION ExportSpec
CONSTANTS
  Assertions = {1, 2, 3, 4}
  Requests = {r1, f}
  Foreign = {f}
  Task = Task
  Absent = Absent
  Window = 2
  PageSize = 1
  Options <- MCOptions
  MaxChanges = 1
INVARIANTS PagesSafe ExportComplete ManifestCovers
CHECK_DEADLOCK FALSE
