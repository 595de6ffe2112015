SPECIFICATION Spec
CONSTANTS Chats = {a}
          Messages = {m}
          MaxTasks = 1
          MaxParts = 2
          MaxRestarts = 1
          Closing = TRUE
          Slots = 1
INVARIANTS TypeOK SlotsKept CompletedDelivered OneLateSend
PROPERTIES WindowFrozen OutboxSpec WorkerFreed
CHECK_DEADLOCK FALSE
