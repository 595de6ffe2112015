SPECIFICATION Spec
CONSTANTS Chats = {a}
          Messages = {m, n}
          MaxTasks = 3
          MaxParts = 0
          MaxRestarts = 0
          Closing = FALSE
          Slots = 2
SYMMETRY Symmetry
INVARIANTS DistinctThreads
PROPERTIES SnapshotNeverOlder
CHECK_DEADLOCK FALSE
