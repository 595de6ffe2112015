SPECIFICATION FairSpec
CONSTANTS
  t1 = t1  t2 = t2  c1 = c1  c2 = c2  o1 = o1  o2 = o2
  None = None
  Tasks = {t1, t2}
  Chats = {c1, c2}
  ChatOf <- MCChatOf
  DestOf <- MCDestOf
  Owners = {o1, o2}
  Rules <- OneFire
  Forward <- MCForward
  Backward <- MCBackward
  Monitored = {t2}
  Baselined = {}
  Goals = {}
  Target = 1
  Events = {1}
  ManualKeys = {}
  ChatLimit = 1
  MaxTime = 4
  LeaseTime = 2
  RetryDelay <- Delays
  Grace = 1
  LateWindow = 1
  NoticeWindow = 2
  UserOps = {"pause_until"}
  Faults = {"crash", "refusal"}
  Errors = {"connection"}
  Outcomes = {"completed", "invalid", "observed", "blocked"}
  Handled = {t1, t2}
  MaxVersion = 2
  CreateBy = 0
  ManualBy = 0
PROPERTY Settles
