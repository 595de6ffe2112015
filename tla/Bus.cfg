SPECIFICATION Spec
CONSTANTS Chats = {a, b}
          Processor = processor
          Timers = {timer}
          MaxReceived = 2
          MaxFollowups = 1
          MaxUsers = 1
          QueueSize = 1
          None = none
INVARIANTS TypeOK SerialQueue InOrder StopDrains BoxServed
PROPERTIES StopReturns
CHECK_DEADLOCK FALSE
