SPECIFICATION Spec
CONSTANTS
  t1 = t1  t2 = t2  c1 = c1  c2 = c2  o1 = o1  o2 = o2
  None = None
  Tasks = {t1, t2}
  Chats = {c1, c2}
  ChatOf <- MCChatOf
  DestOf <- MCDestOf
  Owners = {o1, o2}
  Rules <- TwoFires
  Forward <- MCForward
  Backward <- MCBackward
  Monitored = {t1, t2}
  Baselined = {t2}
  Goals = {t1}
  Target = 2
  Events = {1,2}
  ManualKeys = {1}
  ChatLimit = 1
  MaxTime = 2
  LeaseTime = 2
  RetryDelay <- Delays
  Grace = 1
  LateWindow = 1
  NoticeWindow = 2
  UserOps = {"update", "resume", "run_now"}
  Faults = {"stop"}
  Errors = {}
  Outcomes = {"observed"}
  Handled = {t1}
  MaxVersion = 3
  CreateBy = 0
  ManualBy = 1
INVARIANTS NewsOnce ObservationsCounted GoalStaysDone
