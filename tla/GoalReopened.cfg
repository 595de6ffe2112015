SPECIFICATION Spec
CONSTANTS
  t1 = t1  t2 = t2  c1 = c1  c2 = c2  o1 = o1  o2 = o2
  None = None
  Tasks = {t1}
  Chats = {c1}
  ChatOf <- MCChatOf
  DestOf <- MCChatOf
  Owners = {o1}
  Rules <- TwoFires
  Forward <- MCForward
  Backward <- MCBackward
  Monitored = {t1}
  Baselined = {}
  Goals = {t1}
  Target = 1
  Events = {1,2}
  ManualKeys = {}
  ChatLimit = 1
  MaxTime = 2
  LeaseTime = 1
  RetryDelay <- Delays
  Grace = 1
  LateWindow = 1
  NoticeWindow = 2
  UserOps = {"next"}
  Faults = {}
  Errors = {}
  Outcomes = {"observed","blocked"}
  Handled = {t1}
  MaxVersion = 3
  CreateBy = 0
  ManualBy = 0
INVARIANT GoalStaysDone
