SPECIFICATION Spec
CONSTANTS
  t1 = t1  t2 = t2  c1 = c1  c2 = c2  o1 = o1  o2 = o2
  None = None
  Tasks = {t1}
  Chats = {c1}
  ChatOf <- MCChatOf
  DestOf <- MCChatOf
  Owners = {o1}
  Rules <- TwoRules
  Forward <- MCForward
  Backward <- MCBackward
  Monitored = {}
  Baselined = {}
  Goals = {}
  Target = 1
  Events = {}
  ManualKeys = {}
  ChatLimit = 1
  MaxTime = 2
  LeaseTime = 2
  RetryDelay <- Delays
  Grace = 1
  LateWindow = 1
  NoticeWindow = 2
  UserOps = {"update","pause","pause_until","resume","delete","next","switch","stop","chat"}
  Faults = {}
  Errors = {"connection"}
  Outcomes = {}
  Handled = {t1}
  MaxVersion = 3
  CreateBy = 0
  ManualBy = 0
INVARIANTS NoOverlap ClosedQueueEmpty PlanMatchesStatus SkipHonoured CancelIsSilent
PROPERTY NoBackfill
