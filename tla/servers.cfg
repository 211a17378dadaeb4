SPECIFICATION MCSpec
CONSTANTS
  Language = {ts}
  Task = {t1}
  Event = {"crash", "idle", "dispose", "rescan", "install"}
  MaxSessions = 2
  MaxSearches = 2
CHECK_DEADLOCK FALSE
INVARIANTS PartsTypeOK OneServer FramesKept FoundAsSearched WorkerAccounted ItemsOfText
PROPERTIES KeepsPromise SessionsInOrder WorkedSafely WaitsEnd
