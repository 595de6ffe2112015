SPECIFICATION Spec
CONSTANTS
  t1 = t1  t2 = t2  c1 = c1  c2 = c2  o1 = o1  o2 = o2
  None = None
  Tasks = {t1}
  Chats = {c1, c2}
  ChatOf <- MCChatOf
  DestOf <- MCDestOf
  Owners = {o1, o2}
  Rules <- OneFire
  Forward <- MCForward
  Backward <- MCBackward
  Monitored = {}
  Baselined = {}
  Goals = {}
  Target = 1
  Events = {}
  ManualKeys = {}
  ChatLimit = 1
  MaxTime = 2
  LeaseTime = 1
  RetryDelay <- Delays
  Grace = 1
  LateWindow = 1
  NoticeWindow = 2
  UserOps = {"redeliver"}
  Faults = {"crash", "lapse", "refusal", "lost"}
  Errors = {"connection"}
  Outcomes = {"completed","role_blocked"}
  Handled = {t1}
  MaxVersion = 2
  CreateBy = 0
  ManualBy = 0
INVARIANTS TypeOK SentOnce TurnOnce RunningOwned
PROPERTY EndedStays
