SPECIFICATION Spec
CONSTANTS bot = bot
          web = web
          Services = {bot, web}
          MaxGen <- Generations
          CrashLimit = 1
INVARIANTS TypeOK OneProcess ShownIsReal ShutdownFinal StopHolds
PROPERTIES RestoreAlone
CHECK_DEADLOCK FALSE
