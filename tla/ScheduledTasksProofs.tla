------------------------ MODULE ScheduledTasksProofs ------------------------
(***************************************************************************)
(* Type correctness of ScheduledTasks, for every number of tasks, chats    *)
(* and processes and every bound: every transaction of ScheduleStore keeps *)
(* the tables well formed and never removes a run or a delivery; every     *)
(* thread stays with rows that exist.                                      *)
(***************************************************************************)
EXTENDS ScheduledTasks, SequenceTheorems, TLAPS

USE StoreAssumption, TaskAssumption

\* Nothing is deleted from the two tables that only grow.
Grows == DOMAIN run \subseteq DOMAIN run' /\ DOMAIN dlv \subseteq DOMAIN dlv'
-----------------------------------------------------------------------------
(* Tables.                                                                 *)

\* INSERT OR IGNORE of well-formed rows leaves a well-formed table of runs.
LEMMA OrIgnoreRuns ==
  ASSUME NEW f, NEW g, IsRunTable(f), IsRunTable(g)
  PROVE  /\ IsRunTable(OrIgnore(f, g))
         /\ DOMAIN OrIgnore(f, g) = DOMAIN f \cup DOMAIN g
  BY DEF IsRunTable, OrIgnore

\* The same for deliveries.
LEMMA OrIgnoreDlvs ==
  ASSUME NEW f, NEW g, NEW ks, IsDlvTable(f, ks), IsDlvTable(g, ks)
  PROVE  /\ IsDlvTable(OrIgnore(f, g), ks)
         /\ DOMAIN OrIgnore(f, g) = DOMAIN f \cup DOMAIN g
  BY DEF IsDlvTable, OrIgnore

\* A row as _insert_run writes it.
LEMMA NewRowType ==
  ASSUME NEW version \in Nat, NEW at \in Times, now \in Times,
         NEW status \in {"queued"} \cup Ended
  PROVE  NewRow(version, at, status) \in RunRows
  BY DEF NewRow, RunRows, OrNone, Ended, Times

\* A table of one new row.
LEMMA RowTable ==
  ASSUME NEW k \in Keys, NEW row \in RunRows, row.attempts <= 2
  PROVE  IsRunTable(Row(k, row)) /\ DOMAIN Row(k, row) = {k}
  BY DEF IsRunTable, Row

\* Dropping, cancelling and sweeping only change the status and the cancel flag.
LEMMA DropQueuedType ==
  ASSUME IsRunTable(run), NEW t \in Tasks
  PROVE  IsRunTable(DropQueued(t)) /\ DOMAIN DropQueued(t) = DOMAIN run
  BY DEF IsRunTable, DropQueued, HasStatus, RunRows, Ended

LEMMA CancelRunsType ==
  ASSUME IsRunTable(run), NEW S
  PROVE  IsRunTable(CancelRuns(S)) /\ DOMAIN CancelRuns(S) = DOMAIN run
<1>1. ASSUME NEW k \in DOMAIN run
      PROVE  /\ CancelRuns(S)[k] \in RunRows
             /\ CancelRuns(S)[k].result = run[k].result
             /\ CancelRuns(S)[k].attempts = run[k].attempts
  <2>0. run[k] \in RunRows BY DEF IsRunTable
  <2>1. CASE k \in S /\ run[k].status = "queued"
    BY <2>0, <2>1 DEF CancelRuns, RunRows, Ended
  <2>2. CASE k \in S /\ run[k].status = "running"
    BY <2>0, <2>2 DEF CancelRuns, RunRows, Ended
  <2>3. CASE ~(k \in S /\ run[k].status \in {"queued", "running"})
    BY <2>0, <2>3 DEF CancelRuns
  <2> QED BY <2>1, <2>2, <2>3
<1> QED BY <1>1 DEF IsRunTable, CancelRuns

LEMMA SweptType ==
  ASSUME IsRunTable(run)
  PROVE  IsRunTable(Swept) /\ DOMAIN Swept = DOMAIN run
  BY DEF IsRunTable, Swept, RunRows, Ended
-----------------------------------------------------------------------------
(* Fires.                                                                  *)

LEMMA NextFireType ==
  ASSUME NEW rule \in Rules, NEW after \in Times, NEW exc \in Exceptions
  PROVE  NextFire(rule, after, exc) \in OrNone(Times)
  BY FireAssumption DEF NextFire, Exceptions, OrNone

LEMMA LatestFireType ==
  ASSUME NEW rule \in Rules, NEW at \in Times, NEW exc \in Exceptions
  PROVE  LatestFire(rule, at, exc) \in OrNone(Times)
<1>1. /\ Backward[rule][at] \in OrNone(Times)
      /\ Backward[rule][at] # None => Backward[rule][at] \in 1 .. at
  BY FireAssumption DEF OrNone
<1>2. Backward[rule][at] # None =>
        Backward[rule][Backward[rule][at] - 1] \in OrNone(Times)
  <2>1. Backward[rule][at] # None => Backward[rule][at] - 1 \in Times
    BY <1>1 DEF Times
  <2> QED BY <2>1, FireAssumption DEF OrNone
<1> QED BY <1>1, <1>2 DEF LatestFire, Exceptions, OrNone
-----------------------------------------------------------------------------
(* Switches.                                                               *)

LEMMA KeyType ==
  ASSUME NEW t \in Tasks, NEW trigger \in Triggers, NEW n \in Nat
  PROVE  Key(t, trigger, n) \in Keys
  BY DEF Key, Keys

LEMMA ReplanOK ==
  ASSUME StoreOK, NEW S \in SUBSET Tasks, Replan(S),
         \A t \in S : task[t].status = "active"
  PROVE  /\ IsTaskTable(task') /\ IsRunTable(run')
         /\ DOMAIN run \subseteq DOMAIN run'
<1> DEFINE due  == [t \in S |-> NextFire(task[t].rule, now, task[t].exc)]
           lost == {t \in S : due[t] = None /\ task[t].next # None}
           new  == [k \in {Key(t, "scheduled", task[t].next) : t \in lost} |->
                      NewRow(task[k.task].version, k.n, "missed")]
<1>1. \A t \in S : /\ due[t] \in OrNone(Times)
                   /\ task[t].next \in OrNone(Times)
  <2> TAKE t \in S
  <2>1. task[t] \in TaskRows BY DEF StoreOK, IsTaskTable
  <2>2. task[t].rule \in Rules /\ task[t].exc \in Exceptions
    BY <2>1 DEF StoreOK, IsTaskTable, TaskRows, OrNone
  <2> QED BY <2>1, <2>2, NextFireType DEF StoreOK, TaskRows
<1>2. IsRunTable(new)
  <2>1. ASSUME NEW k \in DOMAIN new
        PROVE  k \in Keys /\ new[k] \in RunRows /\ new[k].attempts <= 2
    <3>1. PICK t \in lost : k = Key(t, "scheduled", task[t].next) OBVIOUS
    <3>2. k.task = t /\ k.n \in Times
      BY <1>1, <3>1 DEF Key, OrNone
    <3>3. k \in Keys
      BY <3>1, <3>2 DEF Key, Keys, Triggers, Times
    <3>4. task[t].version \in Nat
      BY DEF StoreOK, IsTaskTable, TaskRows
    <3>5. NewRow(task[k.task].version, k.n, "missed") \in RunRows
      BY <3>2, <3>4, NewRowType DEF Ended, StoreOK
    <3> QED BY <3>3, <3>5 DEF NewRow
  <2> QED BY <2>1 DEF IsRunTable
<1>3. run' = OrIgnore(run, new) BY DEF Replan
<1>4. IsRunTable(run') /\ DOMAIN run \subseteq DOMAIN run'
  <2> HIDE DEF new
  <2>1. IsRunTable(run) BY DEF StoreOK
  <2>2. /\ IsRunTable(OrIgnore(run, new))
        /\ DOMAIN OrIgnore(run, new) = DOMAIN run \cup DOMAIN new
    BY <1>2, <2>1, OrIgnoreRuns
  <2> QED BY <1>3, <2>2
<1>5. task' = [t \in Tasks |->
                 IF t \notin S THEN task[t]
                 ELSE [task[t] EXCEPT
                         !.next = due[t],
                         !.status = IF due[t] = None THEN "completed" ELSE "active"]]
  BY DEF Replan
<1>6. IsTaskTable(task')
  <2> HIDE DEF due
  <2>1. ASSUME NEW t \in Tasks
        PROVE  task'[t] \in TaskRows
    <3>1. task[t] \in TaskRows
      BY DEF StoreOK, IsTaskTable
    <3>2. CASE t \notin S BY <1>5, <3>1, <3>2
    <3>3. CASE t \in S
      <4>1. task[t].status = "active" BY <3>3
      <4>2. task'[t] = [task[t] EXCEPT
                          !.next = due[t],
                          !.status = IF due[t] = None THEN "completed" ELSE "active"]
        BY <1>5, <3>3
      <4> QED BY <1>1, <3>1, <3>3, <4>1, <4>2 DEF TaskRows
    <3> QED BY <3>2, <3>3
  <2> QED BY <1>5, <2>1 DEF IsTaskTable
<1> QED BY <1>4, <1>6

LEMMA SetEnabledOK ==
  ASSUME StoreOK, now' = now, NEW on \in BOOLEAN, SetEnabled(on)
  PROVE  StoreOK' /\ Grows
<1>1. IsTaskTable(task') /\ IsRunTable(run') /\ DOMAIN run \subseteq DOMAIN run'
  <2>1. CASE run' = CancelRuns(DOMAIN run) /\ UNCHANGED task
    BY <2>1, CancelRunsType DEF StoreOK
  <2>2. CASE Replan({t \in Tasks : task[t].status = "active"})
    BY <2>2, ReplanOK
  <2> QED BY <2>1, <2>2 DEF SetEnabled
<1> QED BY <1>1 DEF SetEnabled, StoreOK, IsDlvTable, Grows

LEMMA SetChatEnabledOK ==
  ASSUME StoreOK, now' = now, NEW c \in Chats, NEW on \in BOOLEAN,
         SetChatEnabled(c, on)
  PROVE  StoreOK' /\ Grows
<1> DEFINE touched == {t \in Tasks : c \in {ChatOf[t], DestOf[t]}}
           planned == {t \in touched : /\ task[t].status = "active"
                                       /\ chatOn'[ChatOf[t]] /\ chatOn'[DestOf[t]]}
<1>1. IsTaskTable(task') /\ IsRunTable(run') /\ DOMAIN run \subseteq DOMAIN run'
  <2>1. CASE /\ run' = CancelRuns({k \in DOMAIN run : k.task \in touched})
             /\ UNCHANGED task
    BY <2>1, CancelRunsType DEF StoreOK
  <2>2. CASE Replan(planned)
    BY <2>2, ReplanOK
  <2> QED BY <2>1, <2>2 DEF SetChatEnabled
<1>2. chatOn' \in [Chats -> BOOLEAN]
  BY DEF SetChatEnabled, StoreOK
<1> QED BY <1>1, <1>2 DEF SetChatEnabled, StoreOK, IsDlvTable, Grows
-----------------------------------------------------------------------------
(* User actions.                                                           *)

\* One row of a table replaced by a well-formed one.
LEMMA TaskChange ==
  ASSUME IsTaskTable(task), NEW t \in Tasks, NEW row \in TaskRows
  PROVE  IsTaskTable([task EXCEPT ![t] = row])
  BY DEF IsTaskTable

LEMMA RunChange ==
  ASSUME NEW f, IsRunTable(f), NEW k, NEW row \in RunRows,
         row.result = "none" => row.attempts <= 2
  PROVE  /\ IsRunTable([f EXCEPT ![k] = row])
         /\ DOMAIN [f EXCEPT ![k] = row] = DOMAIN f
  BY DEF IsRunTable

\* Rows inserted in the table of runs.
LEMMA InsertRuns ==
  ASSUME NEW f, IsRunTable(f), DOMAIN f = DOMAIN run, NEW g, IsRunTable(g),
         run' = OrIgnore(f, g)
  PROVE  IsRunTable(run') /\ DOMAIN run \subseteq DOMAIN run'
<1>1. /\ IsRunTable(OrIgnore(f, g))
      /\ DOMAIN OrIgnore(f, g) = DOMAIN f \cup DOMAIN g
  BY OrIgnoreRuns
<1> QED BY <1>1

LEMMA EmptyRuns == IsRunTable(EmptyTable)
  BY DEF IsRunTable, EmptyTable

\* A task row and the fire that follows from it.
LEMMA TaskRowType ==
  ASSUME StoreOK, NEW t \in Tasks
  PROVE  /\ task[t] \in TaskRows
         /\ task[t].version \in Nat /\ task[t].next \in OrNone(Times)
         /\ task[t].exc \in Exceptions
         /\ task[t].rule \in Rules
         /\ NextFire(task[t].rule, now, task[t].exc) \in OrNone(Times)
<1>1. task[t] \in TaskRows
  BY DEF StoreOK, IsTaskTable
<1>2. task[t].exc \in Exceptions /\ now \in Times
  BY <1>1 DEF TaskRows, StoreOK
<1>3. task[t].rule \in Rules
  BY <1>1 DEF TaskRows
<1>4. task[t].version \in Nat /\ task[t].next \in OrNone(Times)
  BY <1>1 DEF TaskRows
<1> QED BY <1>1, <1>2, <1>3, <1>4, NextFireType

LEMMA BaselineRowType ==
  ASSUME StoreOK, NEW t \in Tasks, NEW status, NEW version \in Nat
  PROVE  IsRunTable(BaselineRow(t, status, version))
<1>1. now \in Times BY DEF StoreOK
<1>2. NewRow(version, now, "queued") \in RunRows BY <1>1, NewRowType
<1>3. NewRow(version, now, "queued").attempts <= 2 BY DEF NewRow
<1>4. Key(t, "baseline", version) \in Keys BY KeyType DEF Triggers
<1>5. IsRunTable(Row(Key(t, "baseline", version), NewRow(version, now, "queued")))
  BY <1>2, <1>3, <1>4, RowTable
<1> QED BY <1>5, EmptyRuns DEF BaselineRow

LEMMA CreateOK ==
  ASSUME StoreOK, now' = now, NEW t \in Tasks, NEW rule \in Rules, Create(t, rule)
  PROVE  StoreOK' /\ Grows
<1> DEFINE due == NextFire(rule, now, NoExc)
           row == [AbsentTask EXCEPT !.status = "active", !.version = 1,
                                     !.next = due, !.rule = rule]
<1>1. NoExc \in Exceptions /\ now \in Times
  BY DEF NoExc, Exceptions, OrNone, StoreOK
<1>2. due \in OrNone(Times) BY <1>1, NextFireType
<1>3. row \in TaskRows
  BY <1>1, <1>2 DEF AbsentTask, TaskRows, OrNone
<1>4. IsTaskTable(task')
  <2> HIDE DEF row
  <2>1. IsTaskTable(task) BY DEF StoreOK
  <2> QED BY <1>3, <2>1, TaskChange DEF Create, row
<1>5. IsRunTable(run') /\ DOMAIN run \subseteq DOMAIN run'
  <2>1. IsRunTable(BaselineRow(t, "active", 1)) BY BaselineRowType
  <2>2. IsRunTable(run) BY DEF StoreOK
  <2>3. run' = OrIgnore(run, BaselineRow(t, "active", 1)) BY DEF Create
  <2> QED BY <2>1, <2>2, <2>3, InsertRuns
<1> QED BY <1>4, <1>5 DEF Create, StoreOK, IsDlvTable, Grows

LEMMA UpdateOK ==
  ASSUME StoreOK, now' = now, NEW t \in Tasks, NEW rule \in OrNone(Rules),
         NEW withMonitor \in BOOLEAN, Update(t, rule, withMonitor)
  PROVE  StoreOK' /\ Grows
<1> DEFINE cur     == task[t]
           replan  == rule # None
           newRule == IF replan THEN rule ELSE cur.rule
           exc     == IF replan THEN NoExc ELSE cur.exc
           fire    == NextFire(newRule, now, exc)
           revived == /\ t \in Goals /\ withMonitor
                      /\ ~replan /\ cur.status = "completed"
           planned == (replan /\ cur.status # "paused") \/ revived
           status  == IF GoalDone(t) THEN "completed"
                      ELSE IF ~planned THEN cur.status
                      ELSE IF fire = None THEN "completed" ELSE "active"
           due     == IF GoalDone(t) THEN None
                      ELSE IF planned THEN fire
                      ELSE IF replan THEN None ELSE cur.next
           reason  == IF GoalDone(t) THEN "none" ELSE cur.reason
           until   == IF GoalDone(t) THEN None ELSE cur.until
           row     == [cur EXCEPT
                         !.status = status, !.version = cur.version + 1,
                         !.next = due, !.rule = newRule, !.exc = exc,
                         !.reason = reason, !.until = until]
<1>1. /\ cur \in TaskRows /\ cur.rule \in Rules
      /\ cur.version \in Nat /\ cur.next \in OrNone(Times)
  BY TaskRowType DEF Update
<1>2. newRule \in Rules /\ exc \in Exceptions
  BY <1>1 DEF OrNone, NoExc, Exceptions, TaskRows
<1>3. fire \in OrNone(Times)
  BY <1>2, NextFireType DEF StoreOK
<1>4. /\ status \in {"active", "paused", "completed", "deleted"}
      /\ due \in OrNone(Times)
  <2> HIDE DEF fire
  <2>1. cur.status \in {"active", "paused", "completed", "deleted"}
    BY <1>1 DEF TaskRows, Update
  <2> QED BY <1>1, <1>3, <2>1 DEF OrNone
<1>5. IsTaskTable(task')
  <2>1. row \in TaskRows
    <3>1. cur.version + 1 \in Nat
      BY <1>1
    <3>2. /\ reason \in {"none", "user", "timed", "role", "resume_blocked"}
          /\ until \in OrNone(Times)
      BY <1>1 DEF TaskRows, OrNone
    <3> HIDE DEF cur, status, due, newRule, exc, reason, until
    <3> QED BY <1>1, <1>2, <1>4, <3>1, <3>2 DEF TaskRows
  <2>2. IsTaskTable(task) BY DEF StoreOK
  <2>3. task' = [task EXCEPT ![t] = row] BY DEF Update
  <2> HIDE DEF row
  <2> QED BY <2>1, <2>2, <2>3, TaskChange
<1>6. IsRunTable(run') /\ DOMAIN run \subseteq DOMAIN run'
  <2> DEFINE f == IF replan \/ GoalDone(t) THEN DropQueued(t) ELSE run
  <2>1. run' = OrIgnore(f, BaselineRow(t, status, cur.version + 1))
    BY DEF Update
  <2>2. IsRunTable(f) /\ DOMAIN f = DOMAIN run
    BY DropQueuedType DEF StoreOK
  <2>3. IsRunTable(BaselineRow(t, status, cur.version + 1))
    <3> HIDE DEF status
    <3> QED BY <1>1, BaselineRowType
  <2> HIDE DEF f
  <2> QED BY <2>1, <2>2, <2>3, InsertRuns
<1> QED BY <1>5, <1>6 DEF Update, StoreOK, IsDlvTable, Grows

LEMMA PauseOK ==
  ASSUME StoreOK, now' = now, NEW t \in Tasks, NEW until \in OrNone(Times),
         Pause(t, until)
  PROVE  StoreOK' /\ Grows
<1> DEFINE cur == task[t]
           version == cur.version + 1
           reason == IF until = None THEN "user" ELSE "timed"
           row == [cur EXCEPT
                     !.status = "paused", !.version = version, !.next = None,
                     !.reason = reason, !.until = until]
<1>1. /\ cur \in TaskRows /\ cur.rule \in Rules
      /\ version \in Nat /\ None \in OrNone(Times)
      /\ reason \in {"user", "timed"}
  BY TaskRowType DEF Pause, OrNone
<1>2. row \in TaskRows
  <2> HIDE DEF cur, version, reason
  <2> QED BY <1>1 DEF TaskRows
<1>3. IsTaskTable(task')
  <2>1. IsTaskTable(task) /\ task' = [task EXCEPT ![t] = row]
    BY DEF StoreOK, Pause
  <2> HIDE DEF row
  <2> QED BY <1>2, <2>1, TaskChange
<1>4. IsRunTable(run') /\ DOMAIN run' = DOMAIN run
  BY DropQueuedType DEF StoreOK, Pause
<1> QED BY <1>3, <1>4 DEF Pause, StoreOK, IsDlvTable, Grows

LEMMA DeleteOK ==
  ASSUME StoreOK, now' = now, NEW t \in Tasks, Delete(t)
  PROVE  StoreOK' /\ Grows
<1> DEFINE cur == task[t]
           version == cur.version + 1
           row == [cur EXCEPT
                     !.status = "deleted", !.version = version, !.next = None,
                     !.reason = "none", !.until = None, !.exc = NoExc]
<1>1. /\ cur \in TaskRows /\ cur.rule \in Rules
      /\ version \in Nat /\ None \in OrNone(Times)
      /\ NoExc \in Exceptions
  BY TaskRowType DEF Delete, OrNone, NoExc, Exceptions
<1>2. row \in TaskRows
  <2> HIDE DEF cur, version
  <2> QED BY <1>1 DEF TaskRows
<1>3. IsTaskTable(task')
  <2>1. IsTaskTable(task) /\ task' = [task EXCEPT ![t] = row]
    BY DEF StoreOK, Delete
  <2> HIDE DEF row
  <2> QED BY <1>2, <2>1, TaskChange
<1>4. IsRunTable(run') /\ DOMAIN run' = DOMAIN run
  <2>1. IsRunTable(run) BY DEF StoreOK
  <2>2. ASSUME NEW k \in DOMAIN run
        PROVE  /\ run'[k] \in RunRows
               /\ run'[k].result = run[k].result
               /\ run'[k].attempts = run[k].attempts
    <3>1. run[k] \in RunRows BY <2>1 DEF IsRunTable
    <3>2. run'[k] = IF k \in HasStatus(t, {"running"})
                    THEN [run[k] EXCEPT !.cancel = TRUE]
                    ELSE IF k \in HasStatus(t, {"queued"})
                    THEN [run[k] EXCEPT !.status = "cancelled"] ELSE run[k]
      BY DEF Delete, DropQueued
    <3>3. CASE k \in HasStatus(t, {"running"})
      BY <3>1, <3>2, <3>3 DEF RunRows
    <3>4. CASE k \notin HasStatus(t, {"running"}) /\ k \in HasStatus(t, {"queued"})
      BY <3>1, <3>2, <3>4 DEF RunRows, Ended
    <3>5. CASE k \notin HasStatus(t, {"running"}) /\ k \notin HasStatus(t, {"queued"})
      BY <3>1, <3>2, <3>5
    <3> QED BY <3>3, <3>4, <3>5
  <2> QED BY <2>1, <2>2 DEF Delete, IsRunTable
<1> QED BY <1>3, <1>4 DEF Delete, StoreOK, IsDlvTable, Grows

LEMMA ResumeAsOK ==
  ASSUME StoreOK, now' = now, NEW t \in Tasks, NEW due \in OrNone(Times),
         ResumeAs(t, due)
  PROVE  StoreOK' /\ Grows
<1> DEFINE status == IF due = None THEN "completed" ELSE "active"
           cur == task[t]
           version == cur.version + 1
           row == [cur EXCEPT !.status = status, !.version = version,
                              !.next = due, !.reason = "none", !.until = None]
<1>1. /\ cur \in TaskRows /\ cur.rule \in Rules
      /\ version \in Nat /\ None \in OrNone(Times)
      /\ status \in {"completed", "active"}
  BY TaskRowType DEF OrNone
<1>2. row \in TaskRows
  <2> HIDE DEF cur, version, status
  <2> QED BY <1>1 DEF TaskRows
<1>3. IsTaskTable(task')
  <2>1. IsTaskTable(task) /\ task' = [task EXCEPT ![t] = row]
    BY DEF StoreOK, ResumeAs
  <2> HIDE DEF row
  <2> QED BY <1>2, <2>1, TaskChange
<1> QED BY <1>3 DEF ResumeAs, StoreOK, Grows

LEMMA ResumeOK ==
  ASSUME StoreOK, now' = now, NEW t \in Tasks, Resume(t)
  PROVE  StoreOK' /\ Grows
  BY TaskRowType, ResumeAsOK DEF Resume

LEMMA AutoResumeOK ==
  ASSUME StoreOK, now' = now, NEW t \in Tasks, NEW checkedAt \in Times,
         AutoResume(t, checkedAt)
  PROVE  StoreOK' /\ Grows
<1> DEFINE cur    == task[t]
           latest == LatestFire(cur.rule, checkedAt, cur.exc)
           late   == latest # None /\ latest >= cur.until
                       /\ checkedAt - latest <= LateWindow
           due    == IF late THEN latest
                     ELSE NextFire(cur.rule, checkedAt, cur.exc)
<1>1. cur.rule \in Rules /\ cur.exc \in Exceptions
  BY TaskRowType
<1>2. due \in OrNone(Times)
  <2> HIDE DEF cur
  <2> QED BY <1>1, NextFireType, LatestFireType
<1>3. ResumeAs(t, due)
  BY DEF AutoResume
<1> HIDE DEF due
<1> QED BY <1>2, <1>3, ResumeAsOK

LEMMA BlockResumeOK ==
  ASSUME StoreOK, now' = now, NEW t \in Tasks, BlockResume(t)
  PROVE  StoreOK' /\ Grows
<1> DEFINE cur == task[t]
           version == cur.version + 1
           row == [cur EXCEPT !.reason = "resume_blocked", !.until = None,
                              !.version = version]
<1>1. /\ cur \in TaskRows /\ cur.rule \in Rules
      /\ version \in Nat /\ None \in OrNone(Times)
  BY TaskRowType DEF OrNone
<1>2. row \in TaskRows
  <2> HIDE DEF cur, version
  <2> QED BY <1>1 DEF TaskRows
<1>3. IsTaskTable(task')
  <2>1. IsTaskTable(task) /\ task' = [task EXCEPT ![t] = row]
    BY DEF StoreOK, BlockResume
  <2> HIDE DEF row
  <2> QED BY <1>2, <2>1, TaskChange
<1> QED BY <1>3 DEF BlockResume, StoreOK, Grows

LEMMA RunNowOK ==
  ASSUME StoreOK, now' = now, NEW t \in Tasks, NEW key \in ManualKeys,
         RunNow(t, key)
  PROVE  StoreOK' /\ Grows
<1> DEFINE row == NewRow(task[t].version, now, "queued")
<1>1. row \in RunRows /\ row.attempts <= 2
  BY TaskRowType, NewRowType DEF NewRow, StoreOK
<1>2. Key(t, "manual", key) \in Keys
  BY KeyType DEF Triggers
<1>3. IsRunTable(Row(Key(t, "manual", key), row))
  <2> HIDE DEF row
  <2> QED BY <1>1, <1>2, RowTable
<1>4. IsRunTable(run) /\ run' = OrIgnore(run, Row(Key(t, "manual", key), row))
  BY DEF StoreOK, RunNow
<1>5. IsRunTable(run') /\ DOMAIN run \subseteq DOMAIN run'
  <2> HIDE DEF row
  <2> QED BY <1>3, <1>4, InsertRuns
<1> QED BY <1>5 DEF RunNow, StoreOK, IsDlvTable, Grows

LEMMA StopRunOK ==
  ASSUME StoreOK, now' = now, NEW t \in Tasks, StopRun(t)
  PROVE  StoreOK' /\ Grows
<1>1. IsRunTable(run) BY DEF StoreOK
<1>2. ASSUME NEW k \in DOMAIN run
      PROVE  /\ run'[k] \in RunRows
             /\ run'[k].result = run[k].result
             /\ run'[k].attempts = run[k].attempts
  BY <1>1 DEF StopRun, IsRunTable, RunRows
<1>3. IsRunTable(run') /\ DOMAIN run' = DOMAIN run
  BY <1>1, <1>2 DEF StopRun, IsRunTable
<1> QED BY <1>3 DEF StopRun, StoreOK, IsDlvTable, Grows

LEMMA WithExceptionOK ==
  ASSUME StoreOK, NEW t \in Tasks, NEW exc \in Exceptions,
         WithException(t, exc)
  PROVE  IsTaskTable(task')
<1> DEFINE due    == NextFire(task[t].rule, now, exc)
           status == IF due = None THEN "completed" ELSE "active"
           cur    == task[t]
           version == cur.version + 1
           row    == [cur EXCEPT !.exc = exc, !.next = due, !.version = version,
                                 !.status = status]
<1>1. /\ cur \in TaskRows /\ cur.rule \in Rules
      /\ version \in Nat /\ now \in Times
      /\ status \in {"completed", "active"}
  BY TaskRowType DEF StoreOK
<1>2. due \in OrNone(Times)
  BY <1>1, NextFireType
<1>3. row \in TaskRows
  <2> HIDE DEF cur, version, status, due
  <2> QED BY <1>1, <1>2 DEF TaskRows
<1>4. IsTaskTable(task) /\ task' = [task EXCEPT ![t] = row]
  BY DEF StoreOK, WithException
<1> HIDE DEF row
<1> QED BY <1>3, <1>4, TaskChange

LEMMA ChangeNextOK ==
  ASSUME StoreOK, now' = now, NEW t \in Tasks, NEW at \in OrNone(Times),
         ChangeNext(t, at)
  PROVE  StoreOK' /\ Grows
<1> DEFINE cur == task[t]
           exc == [original |-> cur.next, replacement |-> at]
           key == Key(t, "exception", cur.version + 1)
           row == NewRow(cur.version, cur.next, "skipped")
<1>1. /\ cur.next \in Times /\ cur.version \in Nat /\ cur.version + 1 \in Nat
      /\ now \in Times
  BY TaskRowType DEF ChangeNext, OrNone, StoreOK
<1>2. exc \in Exceptions
  BY <1>1 DEF Exceptions, OrNone
<1>3. IsTaskTable(task')
  <2>1. WithException(t, exc) BY DEF ChangeNext
  <2> HIDE DEF exc
  <2> QED BY <1>1, <1>2, <2>1, WithExceptionOK
<1>4. IsRunTable(run') /\ DOMAIN run \subseteq DOMAIN run'
  <2>1. row \in RunRows /\ row.attempts <= 2
    <3>1. row.attempts <= 2 BY DEF NewRow
    <3> HIDE DEF cur
    <3>2. NewRow(cur.version, cur.next, "skipped") \in RunRows
      BY <1>1, NewRowType DEF Ended
    <3> QED BY <3>1, <3>2
  <2>2. key \in Keys BY <1>1, KeyType DEF Triggers
  <2>3. IsRunTable(run) /\ run' = OrIgnore(run, Row(key, row))
    BY DEF StoreOK, ChangeNext
  <2> HIDE DEF key, row
  <2>4. IsRunTable(Row(key, row)) BY <2>1, <2>2, RowTable
  <2> QED BY <2>3, <2>4, InsertRuns
<1> QED BY <1>3, <1>4 DEF ChangeNext, StoreOK, IsDlvTable, Grows

LEMMA ClearNextChangeOK ==
  ASSUME StoreOK, now' = now, NEW t \in Tasks, ClearNextChange(t)
  PROVE  StoreOK' /\ Grows
<1>1. NoExc \in Exceptions
  BY DEF NoExc, Exceptions, OrNone, ClearNextChange
<1>2. IsTaskTable(task')
  BY <1>1, WithExceptionOK DEF ClearNextChange
<1> QED BY <1>2 DEF ClearNextChange, StoreOK, Grows
-----------------------------------------------------------------------------
(* The dispatcher.                                                         *)

\* A table rebuilt row by row, each keeping its result and its attempts.
LEMMA RowByRow ==
  ASSUME IsRunTable(run), NEW f, f = [k \in DOMAIN run |-> f[k]],
         \A k \in DOMAIN run : /\ f[k] \in RunRows
                               /\ f[k].result = run[k].result
                               /\ f[k].attempts = run[k].attempts
  PROVE  IsRunTable(f) /\ DOMAIN f = DOMAIN run
  BY DEF IsRunTable

LEMMA LeaseOK ==
  ASSUME StoreOK, now' = now, NEW o \in Owners, Lease(o)
  PROVE  StoreOK' /\ Grows
<1>1. lease' \in [owner : OrNone(Owners), expires : Nat]
  BY DEF Lease, StoreOK, OrNone, Times
<1>2. /\ IsRunTable(run') /\ DOMAIN run' = DOMAIN run
      /\ IsDlvTable(dlv', DOMAIN run) /\ DOMAIN dlv' = DOMAIN dlv
  <2>0. IsRunTable(run) /\ IsDlvTable(dlv, DOMAIN run) BY DEF StoreOK
  <2>1. CASE lease.owner = o BY <2>0, <2>1 DEF Lease
  <2>2. CASE lease.owner # o
    <3> DEFINE end(k) == IF run[k].result = "none" THEN "interrupted"
                         ELSE "completed"
    <3>1. run' = [k \in DOMAIN run |->
                    IF run[k].status # "running" THEN run[k]
                    ELSE [run[k] EXCEPT !.status = end(k)]]
      BY <2>2 DEF Lease
    <3>2. \A k \in DOMAIN run : end(k) \in Ended BY DEF Ended
    <3> HIDE DEF end
    <3>3. ASSUME NEW k \in DOMAIN run
          PROVE  /\ run'[k] \in RunRows
                 /\ run'[k].result = run[k].result
                 /\ run'[k].attempts = run[k].attempts
      <4>1. run[k] \in RunRows BY <2>0 DEF IsRunTable
      <4> QED BY <3>1, <3>2, <4>1 DEF RunRows
    <3>4. IsRunTable(run') /\ DOMAIN run' = DOMAIN run
      <4>1. run' = [k \in DOMAIN run |-> run'[k]] BY <3>1
      <4> QED BY <2>0, <3>3, <4>1, RowByRow
    <3>5. IsDlvTable(dlv', DOMAIN run) /\ DOMAIN dlv' = DOMAIN dlv
      BY <2>0, <2>2 DEF Lease, IsDlvTable, DlvRows
    <3> QED BY <3>4, <3>5
  <2> QED BY <2>1, <2>2
<1> QED BY <1>1, <1>2 DEF Lease, StoreOK, Grows

LEMMA AdmitDueOK ==
  ASSUME StoreOK, now' = now, NEW o \in Owners, AdmitDue(o)
  PROVE  StoreOK' /\ Grows
<1> DEFINE due    == {t \in Tasks : /\ task[t].status = "active"
                                    /\ task[t].next # None /\ task[t].next <= now
                                    /\ Permitted(t)}
           latest == [t \in due |-> LatestFire(task[t].rule, now, task[t].exc)]
           at     == [t \in due |-> IF latest[t] # None /\ latest[t] > task[t].next
                                    THEN latest[t] ELSE task[t].next]
           status == [t \in due |-> IF now - at[t] > Grace THEN "missed"
                                    ELSE IF Live(t) THEN "skipped" ELSE "queued"]
           next   == [t \in due |-> NextFire(task[t].rule, now, task[t].exc)]
           new    == [k \in {Key(t, "scheduled", at[t]) : t \in due} |->
                        NewRow(task[k.task].version, k.n, status[k.task])]
<1>1. ASSUME NEW t \in due
      PROVE  /\ at[t] \in Times /\ next[t] \in OrNone(Times)
             /\ status[t] \in {"queued"} \cup Ended
             /\ task[t].version \in Nat
  <2>1. /\ task[t] \in TaskRows /\ task[t].version \in Nat
        /\ task[t].next \in Times /\ task[t].rule \in Rules
        /\ task[t].exc \in Exceptions /\ now \in Times
        /\ next[t] \in OrNone(Times)
    BY TaskRowType DEF OrNone, StoreOK
  <2>2. latest[t] \in OrNone(Times) BY <2>1, LatestFireType
  <2>3. at[t] \in Times
    <3> HIDE DEF latest
    <3> QED BY <2>1, <2>2 DEF OrNone
  <2>4. status[t] \in {"queued"} \cup Ended
    <3> HIDE DEF at
    <3> QED BY DEF Ended
  <2> QED BY <2>1, <2>3, <2>4
<1>2. IsRunTable(new)
  <2> HIDE DEF at, status
  <2>1. ASSUME NEW k \in DOMAIN new
        PROVE  k \in Keys /\ new[k] \in RunRows /\ new[k].attempts <= 2
    <3>1. PICK t \in due : k = Key(t, "scheduled", at[t]) OBVIOUS
    <3>2. k.task = t /\ k.n = at[t] BY <3>1 DEF Key
    <3>3. k \in Keys
      <4>1. at[t] \in Times BY <1>1
      <4>2. t \in Tasks /\ at[t] \in Nat BY <4>1 DEF Times
      <4> QED BY <3>1, <4>2, KeyType DEF Triggers
    <3>4. NewRow(task[t].version, at[t], status[t]) \in RunRows
      BY <1>1, NewRowType DEF StoreOK
    <3>5. new[k] = NewRow(task[t].version, at[t], status[t]) BY <3>2
    <3>6. new[k].attempts <= 2 BY <3>5 DEF NewRow
    <3> QED BY <3>3, <3>4, <3>5, <3>6
  <2> QED BY <2>1 DEF IsRunTable
<1>3. IsRunTable(run') /\ DOMAIN run \subseteq DOMAIN run'
  <2>1. run' = OrIgnore(run, new) BY DEF AdmitDue
  <2>2. IsRunTable(run) BY DEF StoreOK
  <2> HIDE DEF new
  <2> QED BY <1>2, <2>1, <2>2, InsertRuns
<1>4. IsTaskTable(task')
  <2>1. task' = [t \in Tasks |->
                   IF t \notin due THEN task[t]
                   ELSE [task[t] EXCEPT
                           !.next = next[t],
                           !.status = IF next[t] = None THEN "completed"
                                      ELSE "active"]]
    BY DEF AdmitDue
  <2>2. ASSUME NEW t \in Tasks
        PROVE  task'[t] \in TaskRows
    <3>1. task[t] \in TaskRows
      BY DEF StoreOK, IsTaskTable
    <3>2. CASE t \notin due BY <2>1, <3>1, <3>2
    <3>3. CASE t \in due
      <4>1. task[t].status = "active" /\ next[t] \in OrNone(Times)
        BY <1>1, <3>3
      <4> HIDE DEF due, next
      <4>2. task'[t] = [task[t] EXCEPT
                          !.next = next[t],
                          !.status = IF next[t] = None THEN "completed" ELSE "active"]
        BY <2>1, <3>3
      <4> QED BY <3>1, <4>1, <4>2 DEF TaskRows
    <3> QED BY <3>2, <3>3
  <2> QED BY <2>1, <2>2 DEF IsTaskTable
<1> QED BY <1>3, <1>4 DEF AdmitDue, StoreOK, IsDlvTable, Grows

LEMMA ClaimOK ==
  ASSUME StoreOK, now' = now, NEW o \in Owners, NEW k, Claim(o, k)
  PROVE  StoreOK' /\ Grows
<1>1. IsRunTable(Swept) /\ DOMAIN Swept = DOMAIN run
  BY SweptType DEF StoreOK
<1>2. k \in DOMAIN Swept BY <1>1 DEF Claim, Oldest, Ready
<1>3. Swept[k] \in RunRows /\ (Swept[k].result = "none" => Swept[k].attempts <= 2)
  BY <1>1, <1>2 DEF IsRunTable
<1> DEFINE row == IF Permitted(k.task)
                  THEN [Swept[k] EXCEPT !.status = "running", !.owner = o]
                  ELSE [Swept[k] EXCEPT !.status = "cancelled", !.cancel = TRUE]
<1>4. row \in RunRows /\ (row.result = "none" => row.attempts <= 2)
  <2>1. o \in OrNone(Owners) BY DEF OrNone
  <2>2. CASE Permitted(k.task) BY <1>3, <2>1, <2>2 DEF RunRows, Ended
  <2>3. CASE ~Permitted(k.task) BY <1>3, <2>3 DEF RunRows, Ended
  <2> QED BY <2>2, <2>3
<1>5. run' = [Swept EXCEPT ![k] = row] BY DEF Claim
<1>6. IsRunTable(run') /\ DOMAIN run' = DOMAIN run
  <2> HIDE DEF row
  <2> QED BY <1>1, <1>4, <1>5, RunChange
<1> QED BY <1>6 DEF Claim, StoreOK, Grows

LEMMA ClaimNothingOK ==
  ASSUME StoreOK, now' = now, NEW o \in Owners, ClaimNothing(o)
  PROVE  StoreOK' /\ Grows
<1>1. IsRunTable(run') /\ DOMAIN run' = DOMAIN run
  BY SweptType DEF ClaimNothing, StoreOK
<1> QED BY <1>1 DEF ClaimNothing, StoreOK, Grows

LEMMA FinishOK ==
  ASSUME StoreOK, now' = now, NEW k \in DOMAIN run, NEW status \in Ended,
         Finish(k, status)
  PROVE  StoreOK' /\ Grows
<1>1. IsRunTable(run) BY DEF StoreOK
<1>2. IsRunTable(run') /\ DOMAIN run' = DOMAIN run
  <2>1. CASE run' = run BY <1>1, <2>1
  <2>2. CASE run' = [run EXCEPT ![k].status = status]
    <3> DEFINE row == [run[k] EXCEPT !.status = status]
    <3>1. row \in RunRows /\ (row.result = "none" => row.attempts <= 2)
      BY <1>1 DEF IsRunTable, RunRows
    <3>2. run' = [run EXCEPT ![k] = row] BY <2>2
    <3> HIDE DEF row
    <3> QED BY <1>1, <3>1, <3>2, RunChange
  <2> QED BY <2>1, <2>2 DEF Finish
<1> QED BY <1>2 DEF Finish, StoreOK, Grows

LEMMA BindOK ==
  ASSUME StoreOK, now' = now, NEW k \in DOMAIN run, Bind(k)
  PROVE  StoreOK' /\ Grows
<1> DEFINE row == [run[k] EXCEPT !.thread = TRUE]
<1>1. IsRunTable(run) BY DEF StoreOK
<1>2. row \in RunRows /\ (row.result = "none" => row.attempts <= 2)
  BY <1>1 DEF IsRunTable, RunRows
<1>3. run' = [run EXCEPT ![k] = row] BY DEF Bind
<1>4. IsRunTable(run') /\ DOMAIN run' = DOMAIN run
  <2> HIDE DEF row
  <2> QED BY <1>1, <1>2, <1>3, RunChange
<1> QED BY <1>4 DEF Bind, StoreOK, Grows
-----------------------------------------------------------------------------
(* Failures, results and deliveries.                                       *)

\* Parts of one message, as the INSERTs of fail_or_retry and save_result write
\* them.
LEMMA PendingType ==
  ASSUME now \in Times, NEW k, NEW ks, k \in ks, NEW n \in 1 .. 2
  PROVE  IsDlvTable(Pending(k, n), ks)
<1> DEFINE row == [status |-> "pending", created |-> now]
<1>1. row \in DlvRows BY DEF DlvRows
<1>2. \A i \in 1 .. n : Part(k, i) \in [run : ks, part : 1 .. 2]
  BY DEF Part
<1> HIDE DEF row
<1>3. Pending(k, n) = [d \in {Part(k, i) : i \in 1 .. n} |-> row]
  BY DEF Pending, row
<1> QED BY <1>1, <1>2, <1>3 DEF IsDlvTable

LEMMA InsertDlvs ==
  ASSUME NEW ks, IsDlvTable(dlv, ks), NEW g, IsDlvTable(g, ks),
         dlv' = OrIgnore(dlv, g)
  PROVE  IsDlvTable(dlv', ks) /\ DOMAIN dlv \subseteq DOMAIN dlv'
<1>1. /\ IsDlvTable(OrIgnore(dlv, g), ks)
      /\ DOMAIN OrIgnore(dlv, g) = DOMAIN dlv \cup DOMAIN g
  BY OrIgnoreDlvs
<1> QED BY <1>1

LEMMA FailOrRetryOK ==
  ASSUME StoreOK, now' = now, NEW o \in Owners, NEW k \in DOMAIN run,
         NEW category \in Categories, NEW transient \in BOOLEAN,
         NEW status \in {"blocked", "failed"},
         FailOrRetry(o, k, category, transient, status)
  PROVE  StoreOK' /\ Grows
<1>0. /\ IsRunTable(run) /\ IsDlvTable(dlv, DOMAIN run) /\ now \in Times
      /\ run[k] \in RunRows /\ run[k].attempts \in 0 .. 3
  BY DEF StoreOK, IsRunTable, RunRows
<1>1. /\ IsRunTable(run') /\ DOMAIN run' = DOMAIN run
      /\ IsDlvTable(dlv', DOMAIN run) /\ DOMAIN dlv \subseteq DOMAIN dlv'
  <2>1. CASE Fenced(o, k) BY <1>0, <2>1 DEF FailOrRetry
  <2>2. CASE ~Fenced(o, k) /\ MayRetry(k, transient)
    <3> DEFINE attempts == run[k].attempts + 1
               retryAt == now + RetryDelay[attempts]
               row == [run[k] EXCEPT !.status = "queued", !.owner = None,
                                     !.attempts = attempts, !.retryAt = retryAt]
    <3>1. attempts \in 1 .. 2 BY <1>0, <2>2 DEF MayRetry
    <3>2. retryAt \in Nat
      <4>1. RetryDelay[attempts] \in Nat BY <3>1
      <4> QED BY <1>0, <4>1 DEF Times
    <3>3. row \in RunRows /\ row.attempts <= 2
      <4>1. None \in OrNone(Owners) BY DEF OrNone
      <4>2. attempts \in 0 .. 3 /\ attempts <= 2 BY <3>1
      <4> HIDE DEF attempts, retryAt
      <4> QED BY <1>0, <3>2, <4>1, <4>2 DEF RunRows
    <3>4. run' = [run EXCEPT ![k] = row] /\ dlv' = dlv
      BY <2>2 DEF FailOrRetry
    <3> HIDE DEF row
    <3> QED BY <1>0, <3>3, <3>4, RunChange
  <2>3. CASE ~Fenced(o, k) /\ ~MayRetry(k, transient)
    <3> DEFINE attempts == run[k].attempts + 1
               row == [run[k] EXCEPT !.status = status, !.result = category,
                                     !.attempts = attempts]
               notice == Row(Part(k, 1), [status |-> "pending", created |-> now])
    <3>1. attempts \in 0 .. 3
      <4>1. run[k].attempts <= 2 BY <1>0, <2>3 DEF Fenced, IsRunTable
      <4> QED BY <1>0, <4>1
    <3>2. row \in RunRows /\ row.result # "none"
      <4>1. status \in {"queued", "running"} \cup Ended BY DEF Ended
      <4>2. category # "none" BY DEF Categories
      <4> HIDE DEF attempts
      <4> QED BY <1>0, <3>1, <4>1, <4>2 DEF RunRows
    <3>3. run' = [run EXCEPT ![k] = row]
      BY <2>3 DEF FailOrRetry
    <3>4. dlv' = dlv \/ dlv' = OrIgnore(dlv, notice)
      BY <2>3 DEF FailOrRetry
    <3>5. IsDlvTable(notice, DOMAIN run)
      BY <1>0 DEF IsDlvTable, Row, Part, DlvRows
    <3> HIDE DEF row, notice
    <3>6. IsRunTable(run') /\ DOMAIN run' = DOMAIN run
      BY <1>0, <3>2, <3>3, RunChange
    <3>7. IsDlvTable(dlv', DOMAIN run) /\ DOMAIN dlv \subseteq DOMAIN dlv'
      BY <1>0, <3>4, <3>5, InsertDlvs
    <3> QED BY <3>6, <3>7
  <2> QED BY <2>1, <2>2, <2>3
<1> QED BY <1>1 DEF FailOrRetry, StoreOK, Grows

LEMMA SaveReportOK ==
  ASSUME StoreOK, now' = now, NEW o \in Owners, NEW k \in DOMAIN run,
         NEW n \in 1 .. 2, SaveReport(o, k, n)
  PROVE  StoreOK' /\ Grows
<1> DEFINE row == [run[k] EXCEPT !.result = "report"]
<1>0. IsRunTable(run) /\ IsDlvTable(dlv, DOMAIN run) /\ now \in Times
  BY DEF StoreOK
<1>1. row \in RunRows /\ row.result # "none"
  BY <1>0 DEF IsRunTable, RunRows
<1>2. run' = [run EXCEPT ![k] = row] /\ dlv' = OrIgnore(dlv, Pending(k, n))
  BY DEF SaveReport
<1> HIDE DEF row
<1>3. IsRunTable(run') /\ DOMAIN run' = DOMAIN run
  BY <1>0, <1>1, <1>2, RunChange
<1>4. IsDlvTable(dlv', DOMAIN run) /\ DOMAIN dlv \subseteq DOMAIN dlv'
  BY <1>0, <1>2, PendingType, InsertDlvs
<1> QED BY <1>3, <1>4 DEF SaveReport, StoreOK, Grows

LEMMA SaveRoleBlockOK ==
  ASSUME StoreOK, now' = now, NEW o \in Owners, NEW k \in DOMAIN run,
         SaveRoleBlock(o, k)
  PROVE  StoreOK' /\ Grows
<1> DEFINE t == k.task
           current == task[t].version = run[k].version /\ task[t].status # "deleted"
           f == IF current THEN DropQueued(t) ELSE run
           row == [f[k] EXCEPT !.result = "role", !.status = "role_blocked"]
<1>0. /\ IsRunTable(run) /\ IsDlvTable(dlv, DOMAIN run) /\ now \in Times
      /\ IsTaskTable(task)
  BY DEF StoreOK
<1>1. k \in Keys /\ t \in Tasks BY <1>0 DEF IsRunTable, Keys
<1>2. IsRunTable(f) /\ DOMAIN f = DOMAIN run
  BY <1>0, <1>1, DropQueuedType
<1>3. row \in RunRows /\ row.result # "none"
  <2>1. f[k] \in RunRows BY <1>2 DEF IsRunTable
  <2> HIDE DEF f
  <2> QED BY <2>1 DEF RunRows, Ended
<1>4. run' = [f EXCEPT ![k] = row] /\ dlv' = OrIgnore(dlv, Pending(k, 1))
  BY DEF SaveRoleBlock
<1>5. IsRunTable(run') /\ DOMAIN run' = DOMAIN run
  <2> HIDE DEF row, f
  <2> QED BY <1>2, <1>3, <1>4, RunChange
<1>6. IsDlvTable(dlv', DOMAIN run) /\ DOMAIN dlv \subseteq DOMAIN dlv'
  <2> HIDE DEF row, f
  <2>1. 1 \in 1 .. 2 OBVIOUS
  <2> QED BY <1>0, <1>4, <2>1, PendingType, InsertDlvs
<1>7. IsTaskTable(task')
  <2>1. CASE ~current BY <1>0, <2>1 DEF SaveRoleBlock
  <2>2. CASE current
    <3> DEFINE cur == task[t]
               version == cur.version + 1
               new == [cur EXCEPT !.status = "paused", !.next = None,
                                  !.version = version, !.reason = "role",
                                  !.until = None]
    <3>1. cur \in TaskRows /\ version \in Nat /\ None \in OrNone(Times)
      BY <1>1, TaskRowType DEF OrNone
    <3>2. new \in TaskRows
      <4> HIDE DEF cur, version
      <4> QED BY <3>1 DEF TaskRows
    <3>3. task' = [task EXCEPT ![t] = new] BY <2>2 DEF SaveRoleBlock
    <3> HIDE DEF new
    <3> QED BY <1>0, <1>1, <3>2, <3>3, TaskChange
  <2> QED BY <2>1, <2>2
<1> QED BY <1>5, <1>6, <1>7 DEF SaveRoleBlock, StoreOK, Grows

LEMMA SaveObservationOK ==
  ASSUME StoreOK, now' = now, NEW o \in Owners, NEW k \in DOMAIN run,
         NEW rev \in Nat, NEW observed \in SUBSET Events,
         SaveObservation(o, k, rev, observed)
  PROVE  StoreOK' /\ Grows
<1> DEFINE t == k.task
           baseline == rev = 0 /\ t \in Baselined
           taken == Fresh(t, observed)
           news == IF baseline THEN {} ELSE taken
           done == Reaches(t, news)
           f == IF done THEN DropQueued(t) ELSE run
           status == IF news = {} THEN "no_change" ELSE "completed"
           row == [f[k] EXCEPT !.result = "observation", !.news = news,
                               !.status = status]
<1>0. /\ IsRunTable(run) /\ IsDlvTable(dlv, DOMAIN run) /\ now \in Times
      /\ IsTaskTable(task) /\ mon \in [Tasks -> MonRows]
  BY DEF StoreOK
<1>1. k \in Keys /\ t \in Tasks BY <1>0 DEF IsRunTable, Keys
<1>2. taken \in SUBSET Events /\ news \in SUBSET Events
  BY DEF Fresh
<1>3. IsRunTable(f) /\ DOMAIN f = DOMAIN run
  BY <1>0, <1>1, DropQueuedType
<1>4. row \in RunRows /\ row.result # "none"
  <2>1. f[k] \in RunRows BY <1>3 DEF IsRunTable
  <2>2. status \in Ended BY DEF Ended
  <2> HIDE DEF f, news, status
  <2> QED BY <1>2, <2>1, <2>2 DEF RunRows
<1>5. /\ run' = [f EXCEPT ![k] = row]
      /\ dlv' = dlv \/ dlv' = OrIgnore(dlv, Pending(k, 1))
      /\ mon' = [mon EXCEPT ![t] = Observed(t, taken, news)]
  BY DEF SaveObservation
<1>6. IsRunTable(run') /\ DOMAIN run' = DOMAIN run
  <2> HIDE DEF row, f
  <2> QED BY <1>3, <1>4, <1>5, RunChange
<1>7. IsDlvTable(dlv', DOMAIN run) /\ DOMAIN dlv \subseteq DOMAIN dlv'
  <2> HIDE DEF row, f
  <2>1. 1 \in 1 .. 2 OBVIOUS
  <2> QED BY <1>0, <1>5, <2>1, PendingType, InsertDlvs
<1>8. mon' \in [Tasks -> MonRows]
  <2> HIDE DEF t, taken, news, row, f
  <2>1. mon[t] \in MonRows BY <1>0, <1>1
  <2>2. Observed(t, taken, news) \in MonRows
    <3> DEFINE ledger == IF t \in Goals THEN mon[t].ledger \cup news ELSE {}
    <3>1. /\ mon[t].rev \in Nat /\ mon[t].seen \in SUBSET Events
          /\ mon[t].ledger \in SUBSET Events
      BY <2>1 DEF MonRows
    <3>2. mon[t].rev + 1 \in Nat BY <3>1
    <3>3. mon[t].seen \cup taken \in SUBSET Events BY <1>2, <3>1
    <3>4. ledger \in SUBSET Events BY <1>2, <3>1
    <3>5. Observed(t, taken, news) =
            [rev |-> mon[t].rev + 1, seen |-> mon[t].seen \cup taken,
             ledger |-> ledger]
      BY DEF Observed
    <3> HIDE DEF ledger
    <3> QED BY <3>2, <3>3, <3>4, <3>5 DEF MonRows
  <2> QED BY <1>0, <1>5, <2>2
<1>9. IsTaskTable(task')
  <2>1. CASE ~done BY <1>0, <2>1 DEF SaveObservation
  <2>2. CASE done
    <3> DEFINE cur == task[t]
               version == cur.version + 1
               new == [cur EXCEPT !.status = "completed", !.next = None,
                                  !.version = version, !.reason = "none",
                                  !.until = None, !.exc = NoExc]
    <3>1. /\ cur \in TaskRows /\ version \in Nat /\ None \in OrNone(Times)
          /\ NoExc \in Exceptions
      BY <1>1, TaskRowType DEF OrNone, NoExc, Exceptions
    <3>2. new \in TaskRows
      <4> HIDE DEF cur, version
      <4> QED BY <3>1 DEF TaskRows
    <3>3. task' = [task EXCEPT ![t] = new] BY <2>2 DEF SaveObservation
    <3> HIDE DEF new
    <3> QED BY <1>0, <1>1, <3>2, <3>3, TaskChange
  <2> QED BY <2>1, <2>2
<1> QED BY <1>6, <1>7, <1>8, <1>9 DEF SaveObservation, StoreOK, Grows

LEMMA DlvChange ==
  ASSUME StoreOK, now' = now, NEW d \in DOMAIN dlv,
         NEW status \in {"pending", "sending", "sent", "failed", "unknown"},
         dlv' = [dlv EXCEPT ![d].status = status],
         UNCHANGED <<enabled, chatOn, task, run, mon, lease>>
  PROVE  StoreOK' /\ Grows
<1>1. IsDlvTable(dlv', DOMAIN run) /\ DOMAIN dlv' = DOMAIN dlv
  <2> DEFINE row == [dlv[d] EXCEPT !.status = status]
  <2>1. IsDlvTable(dlv, DOMAIN run) BY DEF StoreOK
  <2>2. row \in DlvRows BY <2>1 DEF IsDlvTable, DlvRows
  <2>3. dlv' = [dlv EXCEPT ![d] = row] OBVIOUS
  <2> HIDE DEF row
  <2> QED BY <2>1, <2>2, <2>3 DEF IsDlvTable
<1> QED BY <1>1 DEF StoreOK, Grows

LEMMA ReserveOK ==
  ASSUME StoreOK, now' = now, NEW d \in DOMAIN dlv, Reserve(d)
  PROVE  StoreOK' /\ Grows
  BY DlvChange DEF Reserve

LEMMA SettleOK ==
  ASSUME StoreOK, now' = now, NEW d \in DOMAIN dlv,
         NEW status \in {"sent", "failed", "unknown"}, Settle(d, status)
  PROVE  StoreOK' /\ Grows
  BY DlvChange DEF Settle

-----------------------------------------------------------------------------
(* Type correctness: the pieces a step is made of.                         *)

\* A job stays well formed while the tables grow under it.
LEMMA JobGrows ==
  ASSUME NEW j, NEW ks, NEW ds, NEW ks2, NEW ds2, JobOK(j, ks, ds),
         ks \subseteq ks2, ds \subseteq ds2
  PROVE  JobOK(j, ks2, ds2)
  BY DEF JobOK

LEMMA IdleOK ==
  ASSUME NEW ks, NEW ds
  PROVE  JobOK(IdleJob, ks, ds)
<1>1. IdleJob \in Jobs
  BY DEF IdleJob, Jobs, Pcs, OrNone, Times, Categories
<1> QED BY <1>1 DEF JobOK, IdleJob, OnTask, OnRun

\* One thread moves on, or none.
LEMMA JobChange ==
  ASSUME TypeOK, Grows, NEW th \in Threads, NEW j,
         JobOK(j, DOMAIN run', DOMAIN dlv'), job' = [job EXCEPT ![th] = j]
  PROVE  JobsOK'
<1>1. \A x \in Threads : JobOK(job[x], DOMAIN run', DOMAIN dlv')
  BY JobGrows DEF TypeOK, JobsOK, Grows
<1> QED BY <1>1 DEF TypeOK, JobsOK

LEMMA JobsSame ==
  ASSUME TypeOK, Grows, job' = job
  PROVE  JobsOK'
<1>1. \A x \in Threads : JobOK(job[x], DOMAIN run', DOMAIN dlv')
  BY JobGrows DEF TypeOK, JobsOK, Grows
<1> QED BY <1>1 DEF TypeOK, JobsOK

LEMMA StoreSame ==
  ASSUME StoreOK, now' = now, UNCHANGED storeVars
  PROVE  StoreOK' /\ Grows
  BY DEF StoreOK, IsTaskTable, IsRunTable, IsDlvTable, storeVars, Grows

\* What the threads of a process do changes neither processes, nor messages,
\* nor turns, unless said otherwise.
LEMMA Typed ==
  ASSUME TypeOK, StoreOK', Grows, JobsOK',
         UNCHANGED <<proc, wechat, turns, since>>,
         tick' \in [Owners -> {"lease", "admit", "resumes", "failures", "claim"}]
  PROVE  TypeOK'
<1>1. wechat' \in Seq(DOMAIN dlv') /\ turns' \in Seq(DOMAIN run')
  BY SeqMonotonic DEF TypeOK, Grows
<1> QED BY <1>1 DEF TypeOK

\* The current job of a thread, and the row it works on.
LEMMA Current ==
  ASSUME TypeOK, NEW th \in Threads
  PROVE  /\ job[th] \in Jobs /\ JobOK(job[th], DOMAIN run, DOMAIN dlv)
         /\ job[th].pc \in OnTask => job[th].task \in Tasks
         /\ job[th].pc \in OnRun =>
              /\ job[th].key \in DOMAIN run /\ job[th].key \in Keys
              /\ job[th].key.task \in Tasks
<1>1. JobOK(job[th], DOMAIN run, DOMAIN dlv)
  BY DEF TypeOK, JobsOK
<1>2. DOMAIN run \subseteq Keys BY DEF TypeOK, StoreOK, IsRunTable
<1>3. \A k \in Keys : k.task \in Tasks BY DEF Keys
<1> QED BY <1>1, <1>2, <1>3 DEF JobOK

\* Goto, Leave and Throw.
LEMMA GotoOK ==
  ASSUME TypeOK, Grows, NEW th \in Threads, NEW pc \in OnRun \ {"send", "settle"},
         job[th].pc \in OnRun, Goto(th, pc)
  PROVE  JobsOK'
<1> DEFINE j == [job[th] EXCEPT !.pc = pc]
<1>1. JobOK(job[th], DOMAIN run', DOMAIN dlv')
  BY Current, JobGrows DEF Grows
<1>2. JobOK(j, DOMAIN run', DOMAIN dlv')
  BY <1>1 DEF JobOK, Jobs, OnRun, OnTask
<1>3. job' = [job EXCEPT ![th] = j] BY DEF Goto
<1> HIDE DEF j
<1> QED BY <1>2, <1>3, JobChange

LEMMA LeaveOK ==
  ASSUME TypeOK, Grows, NEW th \in Threads, Leave(th)
  PROVE  JobsOK'
  BY IdleOK, JobChange DEF Leave

LEMMA ThrowOK ==
  ASSUME TypeOK, Grows, NEW th \in Threads, NEW exc \in Categories,
         job[th].pc \in OnRun, Throw(th, exc)
  PROVE  JobsOK'
<1> DEFINE j == [job[th] EXCEPT !.pc = "caught", !.exc = exc]
<1>1. JobOK(job[th], DOMAIN run', DOMAIN dlv')
  BY Current, JobGrows DEF Grows
<1>2. JobOK(j, DOMAIN run', DOMAIN dlv')
  BY <1>1 DEF JobOK, Jobs, OnRun, OnTask, Pcs
<1>3. job' = [job EXCEPT ![th] = j] BY DEF Throw
<1> HIDE DEF j
<1> QED BY <1>2, <1>3, JobChange
-----------------------------------------------------------------------------
(* Type correctness: initially, and the processes.                         *)

LEMMA InitType == Init => TypeOK
<1> SUFFICES ASSUME Init PROVE TypeOK OBVIOUS
<1>1. StoreOK
  <2>1. AbsentTask \in TaskRows
    <3>1. (CHOOSE rule \in Rules : TRUE) \in Rules OBVIOUS
    <3>2. NoExc \in Exceptions BY DEF NoExc, Exceptions, OrNone
    <3> QED BY <3>1, <3>2 DEF AbsentTask, TaskRows, OrNone
  <2>2. IsTaskTable(task) BY <2>1 DEF Init, StoreInit, IsTaskTable
  <2>3. IsRunTable(run) BY EmptyRuns DEF Init, StoreInit
  <2>4. IsDlvTable(dlv, DOMAIN run)
    BY DEF Init, StoreInit, EmptyTable, IsDlvTable
  <2>5. mon \in [Tasks -> MonRows] BY DEF Init, StoreInit, MonRows
  <2>6. lease \in [owner : OrNone(Owners), expires : Nat]
    BY DEF Init, StoreInit, OrNone
  <2> QED BY <2>2, <2>3, <2>4, <2>5, <2>6 DEF StoreOK, Init, StoreInit, Times
<1>2. JobsOK BY IdleOK DEF Init, JobsOK
<1>3. wechat \in Seq(DOMAIN dlv) /\ turns \in Seq(DOMAIN run)
  BY DEF Init
<1>4. since \in [Tasks -> OrNone(Times)] BY DEF Init, OrNone, Times
<1> QED BY <1>1, <1>2, <1>3, <1>4 DEF TypeOK, Init

LEMMA StutterType ==
  ASSUME TypeOK, UNCHANGED vars
  PROVE  TypeOK'
<1>1. StoreOK' /\ Grows BY StoreSame DEF vars, storeVars, TypeOK
<1>2. JobsOK' BY <1>1, JobsSame DEF vars
<1> QED BY <1>1, <1>2, Typed DEF vars, TypeOK

\* Start, Stop, DropFuture and Crash only touch processes and their threads.
LEMMA ProcessType ==
  ASSUME TypeOK, NEW o \in Owners,
         Start(o) \/ Stop(o) \/ DropFuture(o) \/ Crash(o)
  PROVE  TypeOK'
<1>1. StoreOK' /\ Grows
  BY StoreSame DEF TypeOK, Start, Stop, DropFuture, Crash
<1>2. JobsOK'
  <2>1. CASE Start(o) \/ Stop(o) BY <1>1, <2>1, JobsSame DEF Start, Stop
  <2>2. CASE DropFuture(o)
    <3>1. Worker(o) \in Threads BY DEF Worker, Threads
    <3> QED BY <1>1, <2>2, <3>1, LeaveOK DEF DropFuture
  <2>3. CASE Crash(o)
    <3>1. \A th \in Threads : JobOK(job[th], DOMAIN run', DOMAIN dlv')
      BY <1>1, Current, JobGrows DEF Grows
    <3> QED BY <2>3, <3>1, IdleOK DEF Crash, JobsOK
  <2> QED BY <2>1, <2>2, <2>3
<1>3. /\ proc' \in [Owners -> {"unborn", "up", "stopping", "down"}]
      /\ tick' \in [Owners -> {"lease", "admit", "resumes", "failures", "claim"}]
      /\ UNCHANGED <<wechat, turns, since, run, dlv>>
  BY DEF TypeOK, Start, Stop, DropFuture, Crash, storeVars
<1> QED BY <1>1, <1>2, <1>3 DEF TypeOK

LEMMA AdvanceType ==
  ASSUME TypeOK, Advance
  PROVE  TypeOK'
<1>1. now' \in Times BY DEF Advance, TypeOK, StoreOK, Times
<1>2. StoreOK' /\ Grows
  BY <1>1 DEF Advance, TypeOK, StoreOK, IsTaskTable, IsRunTable, IsDlvTable,
              storeVars, Grows
<1>3. JobsOK' BY <1>2, JobsSame DEF Advance, procVars
<1> QED BY <1>2, <1>3, Typed DEF Advance, procVars, TypeOK
-----------------------------------------------------------------------------
(* Type correctness: the timer thread.                                     *)

LEMMA WorkerThread ==
  ASSUME NEW o \in Owners
  PROVE  Worker(o) \in Threads /\ Web(o) \in Threads
  BY DEF Worker, Web, Threads

\* The timer thread hands a job to the worker, or not.
LEMMA HandOver ==
  ASSUME TypeOK, Grows, NEW o \in Owners, NEW j,
         JobOK(j, DOMAIN run', DOMAIN dlv'),
         job' = [job EXCEPT ![Worker(o)] = j]
  PROVE  JobsOK'
  BY WorkerThread, JobChange

LEMMA TickLeaseType ==
  ASSUME TypeOK, NEW o \in Owners, TickLease(o)
  PROVE  TypeOK'
<1>1. StoreOK' /\ Grows BY LeaseOK DEF TypeOK, TickLease
<1>2. JobsOK' BY <1>1, JobsSame DEF TickLease
<1> QED BY <1>1, <1>2, Typed DEF TypeOK, TickLease

LEMMA TickAdmitType ==
  ASSUME TypeOK, NEW o \in Owners, TickAdmit(o)
  PROVE  TypeOK'
<1>1. StoreOK' /\ Grows
  <2>1. CASE AdmitDue(o) BY <2>1, AdmitDueOK DEF TypeOK, TickAdmit
  <2>2. CASE UNCHANGED storeVars BY <2>2, StoreSame DEF TypeOK, TickAdmit
  <2> QED BY <2>1, <2>2 DEF TickAdmit
<1>2. JobsOK' BY <1>1, JobsSame DEF TickAdmit
<1>3. tick' \in [Owners -> {"lease", "admit", "resumes", "failures", "claim"}]
  BY DEF TypeOK, TickAdmit
<1> QED BY <1>1, <1>2, <1>3, Typed DEF TickAdmit

LEMMA TickResumesType ==
  ASSUME TypeOK, NEW o \in Owners, TickResumes(o)
  PROVE  TypeOK'
<1>1. StoreOK' /\ Grows BY StoreSame DEF TypeOK, TickResumes
<1>2. JobsOK'
  <2>1. CASE job' = job BY <1>1, <2>1, JobsSame
  <2>2. ASSUME NEW t \in PendingResumes(o),
               job' = [job EXCEPT ![Worker(o)] =
                         [IdleJob EXCEPT !.pc = "review", !.task = t,
                                         !.version = task[t].version]]
        PROVE  JobsOK'
    <3> DEFINE j == [IdleJob EXCEPT !.pc = "review", !.task = t,
                                    !.version = task[t].version]
    <3>1. t \in Tasks /\ task[t].version \in Nat
      BY TaskRowType DEF PendingResumes, TypeOK
    <3>2. IdleJob \in Jobs /\ IdleJob.todo = {}
      BY IdleOK DEF JobOK, IdleJob
    <3>3. JobOK(j, DOMAIN run', DOMAIN dlv')
      <4>1. t \in OrNone(Tasks) /\ "review" \in Pcs BY <3>1 DEF OrNone, Pcs
      <4> QED BY <3>1, <3>2, <4>1 DEF JobOK, Jobs, OnTask, OnRun
    <3> HIDE DEF j
    <3> QED BY <1>1, <2>2, <3>3, HandOver DEF j
  <2> QED BY <2>1, <2>2 DEF TickResumes
<1>3. tick' \in [Owners -> {"lease", "admit", "resumes", "failures", "claim"}]
  BY DEF TypeOK, TickResumes
<1> QED BY <1>1, <1>2, <1>3, Typed DEF TickResumes

\* A fresh job on a run, for the worker or a Web request.
LEMMA RunJob ==
  ASSUME NEW k \in Keys, NEW ks, k \in ks, NEW ds, NEW pc \in {"start", "handed", "deliver"}
  PROVE  JobOK([IdleJob EXCEPT !.pc = pc, !.key = k], ks, ds)
<1>1. IdleJob \in Jobs /\ IdleJob.todo = {}
  BY IdleOK DEF JobOK, IdleJob
<1>2. k \in OrNone(Keys) /\ pc \in Pcs BY DEF OrNone, Pcs
<1> QED BY <1>1, <1>2 DEF JobOK, Jobs, OnTask, OnRun

LEMMA TickFailuresType ==
  ASSUME TypeOK, NEW o \in Owners, TickFailures(o)
  PROVE  TypeOK'
<1>1. StoreOK' /\ Grows BY StoreSame DEF TypeOK, TickFailures
<1>2. JobsOK'
  <2>1. CASE job' = job BY <1>1, <2>1, JobsSame
  <2>2. ASSUME NEW k \in PendingFailureRuns,
               job' = [job EXCEPT ![Worker(o)] =
                         [IdleJob EXCEPT !.pc = "handed", !.key = k]]
        PROVE  JobsOK'
    <3>1. k \in Keys /\ k \in DOMAIN run'
      BY <1>1 DEF PendingFailureRuns, TypeOK, StoreOK, IsRunTable, Grows
    <3> QED BY <1>1, <2>2, <3>1, RunJob, HandOver
  <2> QED BY <2>1, <2>2 DEF TickFailures
<1>3. tick' \in [Owners -> {"lease", "admit", "resumes", "failures", "claim"}]
  BY DEF TypeOK, TickFailures
<1> QED BY <1>1, <1>2, <1>3, Typed DEF TickFailures

LEMMA TickClaimType ==
  ASSUME TypeOK, NEW o \in Owners, TickClaim(o)
  PROVE  TypeOK'
<1>1. StoreOK' /\ Grows
  BY ClaimOK, ClaimNothingOK DEF TypeOK, TickClaim
<1>2. JobsOK'
  <2>1. CASE job' = job BY <1>1, <2>1, JobsSame
  <2>2. ASSUME NEW k \in Ready,
               job' = [job EXCEPT ![Worker(o)] =
                         [IdleJob EXCEPT !.pc = "start", !.key = k]]
        PROVE  JobsOK'
    <3>1. k \in Keys /\ k \in DOMAIN run'
      BY <1>1 DEF Ready, TypeOK, StoreOK, IsRunTable, Grows
    <3> QED BY <1>1, <2>2, <3>1, RunJob, HandOver
  <2> QED BY <2>1, <2>2 DEF TickClaim
<1>3. tick' \in [Owners -> {"lease", "admit", "resumes", "failures", "claim"}]
  BY DEF TypeOK, TickClaim
<1> QED BY <1>1, <1>2, <1>3, Typed DEF TickClaim
-----------------------------------------------------------------------------
(* Type correctness: the worker on a run.                                  *)

\* A worker at one of its steps on a run has a row to work on.
LEMMA AtRun ==
  ASSUME TypeOK, NEW o \in Owners, NEW pc \in OnRun, At(Worker(o), pc)
  PROVE  /\ Worker(o) \in Threads /\ job[Worker(o)] \in Jobs
         /\ job[Worker(o)].pc \in OnRun
         /\ job[Worker(o)].key \in DOMAIN run /\ job[Worker(o)].key \in Keys
         /\ job[Worker(o)].key.task \in Tasks
  BY WorkerThread, Current DEF At

LEMMA WorkStartType ==
  ASSUME TypeOK, NEW o \in Owners, WorkStart(o)
  PROVE  TypeOK'
<1> DEFINE th == Worker(o)
<1>0. /\ th \in Threads /\ job[th].pc \in OnRun /\ job[th].key \in DOMAIN run
  BY AtRun DEF WorkStart, OnRun, OnTask, Pcs
<1>1. StoreOK' /\ Grows
  <2>1. CASE Finish(job[th].key, "missed")
    BY <1>0, <2>1, FinishOK DEF WorkStart, TypeOK, Ended
  <2>2. CASE UNCHANGED storeVars BY <2>2, StoreSame DEF WorkStart, TypeOK
  <2> QED BY <2>1, <2>2 DEF WorkStart
<1>2. JobsOK'
  <2>1. "check" \in OnRun \ {"send", "settle"} BY DEF OnRun, OnTask, Pcs
  <2> HIDE DEF th
  <2> QED BY <1>0, <1>1, <2>1, LeaveOK, GotoOK DEF WorkStart, th
<1> QED BY <1>1, <1>2, Typed DEF WorkStart, TypeOK

LEMMA WorkCheckType ==
  ASSUME TypeOK, NEW o \in Owners, WorkCheck(o)
  PROVE  TypeOK'
<1> DEFINE th == Worker(o)
           k == job[th].key
<1>0. /\ th \in Threads /\ job[th] \in Jobs /\ job[th].pc \in OnRun
      /\ k \in DOMAIN run /\ k.task \in Tasks
  BY AtRun DEF WorkCheck, OnRun, OnTask, Pcs
<1>1. StoreOK' /\ Grows BY StoreSame DEF WorkCheck, TypeOK
<1>2. JobsOK'
  <2>1. CASE Goto(th, "cancel")
    <3>1. "cancel" \in OnRun \ {"send", "settle"} BY DEF OnRun, OnTask, Pcs
    <3> QED BY <1>0, <1>1, <2>1, <3>1, GotoOK
  <2>2. CASE Throw(th, "permission")
    BY <1>0, <1>1, <2>2, ThrowOK DEF Categories
  <2>3. CASE \E pc \in {"reply", "save"}, out \in {job[th].outcome, "unchanged"} :
               job' = [job EXCEPT ![th] =
                         [job[th] EXCEPT !.pc = pc, !.rev = mon[k.task].rev,
                                         !.outcome = out]]
    <3>1. PICK pc \in {"reply", "save"}, out \in {job[th].outcome, "unchanged"} :
            job' = [job EXCEPT ![th] =
                      [job[th] EXCEPT !.pc = pc, !.rev = mon[k.task].rev,
                                      !.outcome = out]]
      BY <2>3
    <3> DEFINE j == [job[th] EXCEPT !.pc = pc, !.rev = mon[k.task].rev,
                                    !.outcome = out]
    <3>2. JobOK(job[th], DOMAIN run', DOMAIN dlv')
      BY <1>0, <1>1, Current, JobGrows DEF Grows
    <3>3. mon[k.task].rev \in Nat
      BY <1>0 DEF TypeOK, StoreOK, MonRows
    <3>4. out \in Outcomes \cup {"none", "unchanged"} BY <1>0 DEF Jobs
    <3>5. JobOK(j, DOMAIN run', DOMAIN dlv')
      <4>1. pc \in OnRun \ {"send", "settle"} BY DEF OnRun, OnTask, Pcs
      <4> HIDE DEF k, th
      <4> QED BY <1>0, <3>2, <3>3, <3>4, <4>1 DEF JobOK, Jobs, OnRun, OnTask
    <3> HIDE DEF j
    <3> QED BY <1>0, <1>1, <3>1, <3>5, JobChange DEF j
  <2>4. CASE job' = [job EXCEPT ![th] =
                       [@ EXCEPT !.pc = "reply", !.rev = mon[k.task].rev]]
    <3>1. job' = [job EXCEPT ![th] =
                    [job[th] EXCEPT !.pc = "reply", !.rev = mon[k.task].rev,
                                    !.outcome = job[th].outcome]]
      BY <1>0, <2>4 DEF Jobs
    <3> QED BY <2>3, <3>1
  <2>5. CASE job' = [job EXCEPT ![th] =
                       [@ EXCEPT !.pc = "save", !.rev = mon[k.task].rev,
                                 !.outcome = "unchanged"]]
    BY <2>3, <2>5
  <2> QED BY <2>1, <2>2, <2>4, <2>5 DEF WorkCheck
<1> QED BY <1>1, <1>2, Typed DEF WorkCheck, TypeOK

LEMMA WorkReplyType ==
  ASSUME TypeOK, NEW o \in Owners, WorkReply(o)
  PROVE  TypeOK'
<1> DEFINE th == Worker(o)
<1>0. th \in Threads /\ job[th].pc \in OnRun /\ job[th].key \in DOMAIN run
  BY AtRun DEF WorkReply, OnRun, OnTask, Pcs
<1>1. StoreOK' /\ Grows
  BY <1>0, BindOK, StoreSame DEF WorkReply, TypeOK
<1>2. JobsOK'
  <2>1. "turn" \in OnRun \ {"send", "settle"} BY DEF OnRun, OnTask, Pcs
  <2>2. \A exc \in Errors : exc \in Categories OBVIOUS
  <2> HIDE DEF th
  <2> QED BY <1>0, <1>1, <2>1, <2>2, ThrowOK, GotoOK DEF WorkReply, th
<1> QED BY <1>1, <1>2, Typed DEF WorkReply, TypeOK

LEMMA WorkTurnType ==
  ASSUME TypeOK, NEW o \in Owners, WorkTurn(o)
  PROVE  TypeOK'
<1> DEFINE th == Worker(o)
<1>0. th \in Threads /\ job[th].pc \in OnRun /\ job[th].key \in DOMAIN run
  BY AtRun DEF WorkTurn, OnRun, OnTask, Pcs
<1>1. StoreOK' /\ Grows
  BY StoreSame DEF WorkTurn, TypeOK
<1>2. JobsOK'
  <2>1. "wait" \in OnRun \ {"send", "settle"} BY DEF OnRun, OnTask, Pcs
  <2>2. \A exc \in Errors : exc \in Categories OBVIOUS
  <2> HIDE DEF th
  <2> QED BY <1>0, <1>1, <2>1, <2>2, ThrowOK, GotoOK DEF WorkTurn, th
<1>3. turns' \in Seq(DOMAIN run') /\ wechat' \in Seq(DOMAIN dlv')
  <2>1. run' = run /\ dlv' = dlv /\ wechat' = wechat
    BY DEF WorkTurn, storeVars
  <2>2. turns \in Seq(DOMAIN run) /\ wechat \in Seq(DOMAIN dlv) BY DEF TypeOK
  <2>3. turns' = turns \/ turns' = Append(turns, job[th].key) BY DEF WorkTurn
  <2>4. Append(turns, job[th].key) \in Seq(DOMAIN run)
    <3> HIDE DEF th
    <3> QED BY <1>0, <2>2, AppendProperties
  <2> QED BY <2>1, <2>2, <2>3, <2>4
<1> QED BY <1>1, <1>2, <1>3 DEF WorkTurn, TypeOK

LEMMA WorkAnswerType ==
  ASSUME TypeOK, NEW o \in Owners, WorkAnswer(o)
  PROVE  TypeOK'
<1> DEFINE th == Worker(o)
<1>0. /\ th \in Threads /\ job[th].pc \in OnRun /\ job[th].key \in DOMAIN run
  BY AtRun DEF WorkAnswer, OnRun, OnTask, Pcs
<1>1. StoreOK' /\ Grows
  BY StoreSame DEF WorkAnswer, TypeOK
<1>2. JobsOK'
  <2>1. ASSUME NEW out \in Outcomes, NEW seen \in SUBSET Events,
               job' = [job EXCEPT ![th] =
                         [@ EXCEPT !.pc = "recheck", !.outcome = out,
                                   !.observed = seen, !.inferred = TRUE]]
        PROVE  JobsOK'
    <3> DEFINE j == [job[th] EXCEPT !.pc = "recheck", !.outcome = out,
                                    !.observed = seen, !.inferred = TRUE]
    <3>1. JobOK(job[th], DOMAIN run', DOMAIN dlv')
      BY <1>0, <1>1, Current, JobGrows DEF Grows
    <3>2. JobOK(j, DOMAIN run', DOMAIN dlv')
      <4>1. "recheck" \in OnRun \ {"send", "settle"} BY DEF OnRun, OnTask, Pcs
      <4> HIDE DEF th
      <4> QED BY <1>0, <3>1, <4>1 DEF JobOK, Jobs, OnRun, OnTask
    <3> HIDE DEF j
    <3> QED BY <1>0, <1>1, <2>1, <3>2, JobChange DEF j
  <2>2. ASSUME NEW exc \in Errors \cup {"execution"}, Throw(th, exc)
        PROVE  JobsOK'
    BY <1>0, <1>1, <2>2, ThrowOK DEF Categories
  <2> HIDE DEF th
  <2> QED BY <2>1, <2>2 DEF WorkAnswer, th
<1> QED BY <1>1, <1>2, Typed DEF WorkAnswer, TypeOK

LEMMA WorkRecheckType ==
  ASSUME TypeOK, NEW o \in Owners, WorkRecheck(o)
  PROVE  TypeOK'
<1> DEFINE th == Worker(o)
<1>0. /\ th \in Threads /\ job[th].pc \in OnRun /\ job[th].key \in DOMAIN run
  BY AtRun DEF WorkRecheck, OnRun, OnTask, Pcs
<1>1. StoreOK' /\ Grows
  BY StoreSame DEF WorkRecheck, TypeOK
<1>2. JobsOK'
  <2>1. \A pc \in {"cancel", "blocked", "save"} : pc \in OnRun \ {"send", "settle"}
    BY DEF OnRun, OnTask, Pcs
  <2>2. {"permission", "execution"} \subseteq Categories BY DEF Categories
  <2>3. \/ \E pc \in {"cancel", "blocked", "save"} : Goto(th, pc)
        \/ \E exc \in {"permission", "execution"} : Throw(th, exc)
    BY DEF WorkRecheck
  <2> HIDE DEF th
  <2> QED BY <1>0, <1>1, <2>1, <2>2, <2>3, ThrowOK, GotoOK
<1> QED BY <1>1, <1>2, Typed DEF WorkRecheck, TypeOK

LEMMA WorkSaveType ==
  ASSUME TypeOK, NEW o \in Owners, WorkSave(o)
  PROVE  TypeOK'
<1> DEFINE th == Worker(o)
           k == job[th].key
<1>0. /\ th \in Threads /\ job[th] \in Jobs /\ job[th].pc \in OnRun
      /\ k \in DOMAIN run
  BY AtRun DEF WorkSave, OnRun, OnTask, Pcs
<1>1. StoreOK' /\ Grows
  <2>1. CASE UNCHANGED storeVars BY <2>1, StoreSame DEF WorkSave, TypeOK
  <2>2. ASSUME NEW n \in 1 .. 2, SaveReport(o, k, n)
        PROVE  StoreOK' /\ Grows
    BY <1>0, <2>2, SaveReportOK DEF WorkSave, TypeOK
  <2>3. CASE SaveRoleBlock(o, k)
    BY <1>0, <2>3, SaveRoleBlockOK DEF WorkSave, TypeOK
  <2>4. CASE SaveObservation(o, k, job[th].rev, job[th].observed)
    <3>1. job[th].rev \in Nat /\ job[th].observed \in SUBSET Events
      BY <1>0 DEF Jobs
    <3>2. StoreOK /\ now' = now BY DEF TypeOK, WorkSave
    <3> HIDE DEF th
    <3> QED BY <1>0, <2>4, <3>1, <3>2, SaveObservationOK
  <2> HIDE DEF k, th
  <2> QED BY <2>1, <2>2, <2>3, <2>4 DEF WorkSave, k, th
<1>2. JobsOK'
  <2>1. \A pc \in {"cancel", "deliver"} : pc \in OnRun \ {"send", "settle"}
    BY DEF OnRun, OnTask, Pcs
  <2>2. ASSUME job[th].outcome \in {"completed", "blocked"},
               job' = [job EXCEPT ![th] =
                         [@ EXCEPT !.pc = "deliver", !.checked = TRUE,
                                   !.status = job[th].outcome]]
        PROVE  JobsOK'
    <3> DEFINE j == [job[th] EXCEPT !.pc = "deliver", !.checked = TRUE,
                                    !.status = job[th].outcome]
    <3>1. JobOK(job[th], DOMAIN run', DOMAIN dlv')
      BY <1>0, <1>1, Current, JobGrows DEF Grows
    <3>2. JobOK(j, DOMAIN run', DOMAIN dlv')
      <4> HIDE DEF th
      <4> QED BY <1>0, <2>1, <2>2, <3>1 DEF JobOK, Jobs, OnRun, OnTask
    <3>3. job' = [job EXCEPT ![th] = j] BY <2>2
    <3> HIDE DEF j
    <3> QED BY <1>0, <1>1, <3>2, <3>3, JobChange
  <2>3. \/ \E pc \in {"cancel", "deliver"} : Goto(th, pc)
        \/ Throw(th, "permission") \/ Leave(th)
        \/ /\ job[th].outcome \in {"completed", "blocked"}
           /\ job' = [job EXCEPT ![th] =
                        [@ EXCEPT !.pc = "deliver", !.checked = TRUE,
                                  !.status = job[th].outcome]]
    BY DEF WorkSave
  <2>4. "permission" \in Categories BY DEF Categories
  <2> HIDE DEF th
  <2> QED BY <1>0, <1>1, <2>1, <2>2, <2>3, <2>4, ThrowOK, GotoOK, LeaveOK
<1> QED BY <1>1, <1>2, Typed DEF WorkSave, TypeOK

LEMMA WorkCaughtType ==
  ASSUME TypeOK, NEW o \in Owners, WorkCaught(o)
  PROVE  TypeOK'
<1> DEFINE th == Worker(o)
<1>0. /\ th \in Threads /\ job[th].pc \in OnRun
  BY AtRun DEF WorkCaught, OnRun, OnTask, Pcs
<1>1. StoreOK' /\ Grows BY StoreSame DEF WorkCaught, TypeOK
<1>2. JobsOK'
  <2>1. \A pc \in {"cancel", "fail"} : pc \in OnRun \ {"send", "settle"}
    BY DEF OnRun, OnTask, Pcs
  <2>2. Goto(th, "cancel") \/ Goto(th, "fail")
    BY DEF WorkCaught, Goto
  <2> HIDE DEF th
  <2> QED BY <1>0, <1>1, <2>1, <2>2, GotoOK
<1> QED BY <1>1, <1>2, Typed DEF WorkCaught, TypeOK

LEMMA WorkFailType ==
  ASSUME TypeOK, NEW o \in Owners, WorkFail(o)
  PROVE  TypeOK'
<1> DEFINE th == Worker(o)
           transient == job[th].exc = "connection" /\ ~job[th].inferred
           status == IF job[th].exc = "permission" THEN "blocked" ELSE "failed"
<1>0. /\ th \in Threads /\ job[th] \in Jobs /\ job[th].pc \in OnRun
      /\ job[th].key \in DOMAIN run
  BY AtRun DEF WorkFail, OnRun, OnTask, Pcs
<1>1. StoreOK' /\ Grows
  <2>1. job[th].exc \in Categories BY <1>0 DEF Jobs
  <2>2. status \in {"blocked", "failed"} /\ transient \in BOOLEAN OBVIOUS
  <2>3. FailOrRetry(o, job[th].key, job[th].exc, transient, status)
    BY DEF WorkFail
  <2>4. StoreOK /\ now' = now BY DEF TypeOK, WorkFail
  <2> HIDE DEF th, transient, status
  <2> QED BY <1>0, <2>1, <2>2, <2>3, <2>4, FailOrRetryOK
<1>2. JobsOK'
  <2>1. "deliver" \in OnRun \ {"send", "settle"} BY DEF OnRun, OnTask, Pcs
  <2>2. Goto(th, "deliver") \/ Leave(th) BY DEF WorkFail
  <2> HIDE DEF th
  <2> QED BY <1>0, <1>1, <2>1, <2>2, GotoOK, LeaveOK
<1> QED BY <1>1, <1>2, Typed DEF WorkFail, TypeOK

LEMMA WorkBlockedType ==
  ASSUME TypeOK, NEW o \in Owners, WorkBlocked(o)
  PROVE  TypeOK'
<1> DEFINE th == Worker(o)
<1>0. /\ th \in Threads /\ job[th].pc \in OnRun
      /\ job[th].key \in DOMAIN run
  BY AtRun DEF WorkBlocked, OnRun, OnTask, Pcs
<1>1. StoreOK' /\ Grows
  <2>1. FailOrRetry(o, job[th].key, "monitor_blocked", FALSE, "blocked")
    BY DEF WorkBlocked
  <2>2. StoreOK /\ now' = now BY DEF TypeOK, WorkBlocked
  <2>3. "monitor_blocked" \in Categories BY DEF Categories
  <2> HIDE DEF th
  <2> QED BY <1>0, <2>1, <2>2, <2>3, FailOrRetryOK
<1>2. JobsOK'
  <2>1. "deliver" \in OnRun \ {"send", "settle"} BY DEF OnRun, OnTask, Pcs
  <2> HIDE DEF th
  <2> QED BY <1>0, <1>1, <2>1, GotoOK DEF WorkBlocked, th
<1> QED BY <1>1, <1>2, Typed DEF WorkBlocked, TypeOK

LEMMA WorkFinishType ==
  ASSUME TypeOK, NEW o \in Owners, WorkFinish(o)
  PROVE  TypeOK'
<1> DEFINE th == Worker(o)
<1>0. /\ th \in Threads /\ job[th] \in Jobs /\ job[th].pc \in OnRun
      /\ job[th].key \in DOMAIN run
  BY AtRun DEF WorkFinish, OnRun, OnTask, Pcs
<1>1. StoreOK' /\ Grows
  <2>1. job[th].status \in Ended /\ "cancelled" \in Ended BY <1>0 DEF Jobs, Ended
  <2> QED BY <1>0, <2>1, FinishOK DEF WorkFinish, TypeOK
<1>2. JobsOK'
  BY <1>0, <1>1, LeaveOK DEF WorkFinish
<1> QED BY <1>1, <1>2, Typed DEF WorkFinish, TypeOK
-----------------------------------------------------------------------------
(* Type correctness: automatic resumes.                                    *)

LEMMA AtTask ==
  ASSUME TypeOK, NEW o \in Owners, NEW pc \in OnTask, At(Worker(o), pc)
  PROVE  /\ Worker(o) \in Threads /\ job[Worker(o)] \in Jobs
         /\ job[Worker(o)].pc \in OnTask /\ job[Worker(o)].task \in Tasks
  BY WorkerThread, Current DEF At

LEMMA WorkReviewType ==
  ASSUME TypeOK, NEW o \in Owners, WorkReview(o)
  PROVE  TypeOK'
<1> DEFINE th == Worker(o)
<1>0. /\ th \in Threads /\ job[th] \in Jobs /\ job[th].pc \in OnTask
      /\ job[th].task \in Tasks
  BY AtTask DEF WorkReview, OnTask
<1>1. StoreOK' /\ Grows BY StoreSame DEF WorkReview, TypeOK
<1>2. JobsOK'
  <2>1. ASSUME NEW pc \in {"block", "commit"}, NEW at \in Times,
               job' = [job EXCEPT ![th] = [job[th] EXCEPT !.pc = pc, !.at = at]]
        PROVE  JobsOK'
    <3> DEFINE j == [job[th] EXCEPT !.pc = pc, !.at = at]
    <3>1. JobOK(job[th], DOMAIN run', DOMAIN dlv')
      BY <1>0, <1>1, Current, JobGrows DEF Grows
    <3>2. JobOK(j, DOMAIN run', DOMAIN dlv')
      <4>1. pc \in Pcs \cap OnTask BY DEF Pcs, OnTask
      <4> HIDE DEF th
      <4> QED BY <1>0, <3>1, <4>1 DEF JobOK, Jobs, OnRun, OnTask
    <3> HIDE DEF j
    <3> QED BY <1>0, <1>1, <2>1, <3>2, JobChange DEF j
  <2>2. CASE Leave(th) BY <1>0, <1>1, <2>2, LeaveOK
  <2>3. CASE Goto(th, "block")
    <3>1. job' = [job EXCEPT ![th] =
                    [job[th] EXCEPT !.pc = "block", !.at = job[th].at]]
      BY <1>0, <2>3 DEF Goto, Jobs
    <3>2. job[th].at \in Times BY <1>0 DEF Jobs
    <3> QED BY <2>1, <3>1, <3>2
  <2>4. CASE job' = [job EXCEPT ![th] = [@ EXCEPT !.pc = "commit", !.at = now]]
    BY <2>1, <2>4 DEF TypeOK, StoreOK
  <2> QED BY <2>2, <2>3, <2>4 DEF WorkReview
<1> QED BY <1>1, <1>2, Typed DEF WorkReview, TypeOK

\* The clock reopens a task at an instant of the past.
LEMMA ReopeningPast ==
  ASSUME NEW until, NEW at \in Times
  PROVE  Reopening(until, at) \in Times /\ Reopening(until, at) <= at
<1>1. at \in Nat /\ LateWindow \in Nat /\ MaxTime \in Nat /\ at <= MaxTime
  BY StoreAssumption DEF Times
<1>2. CASE until \in 0 .. at BY <1>1, <1>2 DEF Reopening, Times
<1>3. CASE until \notin 0 .. at BY <1>1, <1>3 DEF Reopening, Times
<1> QED BY <1>2, <1>3

LEMMA WorkCommitType ==
  ASSUME TypeOK, NEW o \in Owners, WorkCommit(o)
  PROVE  TypeOK'
<1> DEFINE th == Worker(o)
           t == job[th].task
<1>0. /\ th \in Threads /\ job[th] \in Jobs /\ job[th].pc \in OnTask
      /\ t \in Tasks /\ job[th].at \in Times
  BY AtTask DEF WorkCommit, OnTask, Jobs
<1>1. StoreOK' /\ Grows
  <2>1. CASE UNCHANGED storeVars BY <2>1, StoreSame DEF WorkCommit, TypeOK
  <2>2. CASE AutoResume(t, job[th].at)
    BY <1>0, <2>2, AutoResumeOK DEF WorkCommit, TypeOK
  <2> QED BY <2>1, <2>2 DEF WorkCommit
<1>2. JobsOK'
  <2>1. CASE Leave(th) BY <1>0, <1>1, <2>1, LeaveOK
  <2>2. CASE Goto(th, "block")
    <3> DEFINE j == [job[th] EXCEPT !.pc = "block"]
    <3>1. JobOK(job[th], DOMAIN run', DOMAIN dlv')
      BY <1>0, <1>1, Current, JobGrows DEF Grows
    <3>2. JobOK(j, DOMAIN run', DOMAIN dlv')
      <4>1. "block" \in Pcs \cap OnTask BY DEF Pcs, OnTask
      <4> HIDE DEF th
      <4> QED BY <1>0, <3>1, <4>1 DEF JobOK, Jobs, OnRun, OnTask
    <3>3. job' = [job EXCEPT ![th] = j] BY <2>2 DEF Goto
    <3> HIDE DEF j
    <3> QED BY <1>0, <1>1, <3>2, <3>3, JobChange
  <2> QED BY <2>1, <2>2 DEF WorkCommit
<1>3. since' \in [Tasks -> OrNone(Times)]
  <2>1. Reopening(task[t].until, job[th].at) \in Times BY <1>0, ReopeningPast
  <2> QED BY <1>0, <2>1 DEF WorkCommit, TypeOK, OrNone
<1>4. wechat' \in Seq(DOMAIN dlv') /\ turns' \in Seq(DOMAIN run')
  BY <1>1, SeqMonotonic DEF WorkCommit, TypeOK, Grows
<1> QED BY <1>1, <1>2, <1>3, <1>4 DEF WorkCommit, TypeOK

LEMMA WorkBlockType ==
  ASSUME TypeOK, NEW o \in Owners, WorkBlock(o)
  PROVE  TypeOK'
<1> DEFINE th == Worker(o)
           t == job[th].task
<1>0. th \in Threads /\ t \in Tasks
  BY AtTask DEF WorkBlock, OnTask
<1>1. StoreOK' /\ Grows
  <2>1. CASE UNCHANGED storeVars BY <2>1, StoreSame DEF WorkBlock, TypeOK
  <2>2. CASE BlockResume(t)
    BY <1>0, <2>2, BlockResumeOK DEF WorkBlock, TypeOK
  <2> QED BY <2>1, <2>2 DEF WorkBlock
<1>2. JobsOK' BY <1>0, <1>1, LeaveOK DEF WorkBlock
<1> QED BY <1>1, <1>2, Typed DEF WorkBlock, TypeOK
-----------------------------------------------------------------------------
(* Type correctness: deliveries.                                           *)

LEMMA AtDelivery ==
  ASSUME TypeOK, NEW th \in Threads, NEW pc \in OnRun, At(th, pc)
  PROVE  /\ job[th] \in Jobs /\ job[th].pc = pc
         /\ job[th].key \in DOMAIN run /\ job[th].key \in Keys
         /\ job[th].key.task \in Tasks
         /\ job[th].todo \in SUBSET (1 .. 2)
         /\ \A n \in job[th].todo : Part(job[th].key, n) \in DOMAIN dlv
         /\ job[th].todo # {} => NextPart(th) \in DOMAIN dlv
<1>1. /\ job[th] \in Jobs /\ job[th].pc = pc /\ job[th].key \in DOMAIN run
      /\ job[th].key \in Keys /\ job[th].key.task \in Tasks
      /\ JobOK(job[th], DOMAIN run, DOMAIN dlv)
  BY Current DEF At
<1>2. job[th].todo \in SUBSET (1 .. 2) BY <1>1 DEF Jobs
<1>3. \A n \in job[th].todo : Part(job[th].key, n) \in DOMAIN dlv
  BY <1>1 DEF JobOK
<1>4. ASSUME job[th].todo # {}
      PROVE  (IF 1 \in job[th].todo THEN 1 ELSE 2) \in job[th].todo
  BY <1>2, <1>4
<1> QED BY <1>1, <1>2, <1>3, <1>4 DEF NextPart

LEMMA DeliveredOK ==
  ASSUME TypeOK, Grows, NEW th \in Threads, job[th].pc \in OnRun, Delivered(th)
  PROVE  JobsOK'
<1>1. "finish" \in OnRun \ {"send", "settle"} BY DEF OnRun, OnTask, Pcs
<1> QED BY <1>1, GotoOK, LeaveOK DEF Delivered

\* A delivering thread keeps its key and never adds to what it has to send.
LEMMA DeliveryStep ==
  ASSUME TypeOK, Grows, NEW th \in Threads, job[th].pc \in OnRun,
         NEW pc \in {"reserve", "send", "settle"}, NEW todo \in SUBSET (1 .. 2),
         \A n \in todo : Part(job[th].key, n) \in DOMAIN dlv,
         pc # "reserve" => todo # {},
         NEW res \in {"sent", "failed", "unknown"}, NEW raised \in BOOLEAN,
         job' = [job EXCEPT ![th] =
                   [job[th] EXCEPT !.pc = pc, !.todo = todo,
                                   !.res = res, !.raised = raised]]
  PROVE  JobsOK'
<1> DEFINE j == [job[th] EXCEPT !.pc = pc, !.todo = todo,
                                !.res = res, !.raised = raised]
<1>1. JobOK(job[th], DOMAIN run', DOMAIN dlv')
  BY Current, JobGrows DEF Grows
<1>2. JobOK(j, DOMAIN run', DOMAIN dlv')
  <2>1. pc \in Pcs /\ pc \in OnRun BY DEF OnRun, OnTask, Pcs
  <2>2. \A n \in todo : Part(job[th].key, n) \in DOMAIN dlv' BY DEF Grows
  <2>3. j \in Jobs BY <1>1, <2>1 DEF JobOK, Jobs
  <2>4. job[th].key \in DOMAIN run' BY <1>1 DEF JobOK
  <2>5. j.key = job[th].key /\ j.pc = pc /\ j.todo = todo
    BY <1>1 DEF JobOK, Jobs
  <2> HIDE DEF j
  <2> QED BY <2>1, <2>2, <2>3, <2>4, <2>5 DEF JobOK, OnRun
<1> HIDE DEF j
<1> QED BY <1>2, JobChange DEF j

LEMMA DeliverRunType ==
  ASSUME TypeOK, NEW th \in Threads, DeliverRun(th)
  PROVE  TypeOK'
<1> DEFINE k == job[th].key
           todo == {n \in 1 .. 2 : /\ Part(k, n) \in DOMAIN dlv
                                   /\ dlv[Part(k, n)].status \in Sendable(Retry(th))}
<1>0. job[th] \in Jobs /\ job[th].pc \in OnRun
  BY AtDelivery DEF DeliverRun, OnRun, OnTask, Pcs
<1>1. StoreOK' /\ Grows BY StoreSame DEF DeliverRun, TypeOK
<1>2. JobsOK'
  <2>1. job' = [job EXCEPT ![th] = [job[th] EXCEPT !.pc = "reserve", !.todo = todo]]
    BY DEF DeliverRun
  <2>2. todo \in SUBSET (1 .. 2)
        /\ \A n \in todo : Part(job[th].key, n) \in DOMAIN dlv
    OBVIOUS
  <2> HIDE DEF todo
  <2>3. job' = [job EXCEPT ![th] =
                  [job[th] EXCEPT !.pc = "reserve", !.todo = todo,
                                  !.res = job[th].res, !.raised = job[th].raised]]
    BY <1>0, <2>1 DEF Jobs
  <2>4. job[th].res \in {"sent", "failed", "unknown"} /\ job[th].raised \in BOOLEAN
    BY <1>0 DEF Jobs
  <2> QED BY <1>0, <1>1, <2>2, <2>3, <2>4, DeliveryStep
<1> QED BY <1>1, <1>2, Typed DEF DeliverRun, TypeOK

LEMMA DeliverReserveType ==
  ASSUME TypeOK, NEW th \in Threads, DeliverReserve(th)
  PROVE  TypeOK'
<1> DEFINE d == NextPart(th)
<1>0. /\ job[th] \in Jobs /\ job[th].pc \in OnRun
      /\ job[th].todo \in SUBSET (1 .. 2)
      /\ \A n \in job[th].todo : Part(job[th].key, n) \in DOMAIN dlv
      /\ job[th].todo # {} => d \in DOMAIN dlv
      /\ job[th].res \in {"sent", "failed", "unknown"} /\ job[th].raised \in BOOLEAN
  BY AtDelivery DEF DeliverReserve, OnRun, OnTask, Pcs, Jobs
<1>1. StoreOK' /\ Grows
  <2>1. CASE UNCHANGED storeVars BY <2>1, StoreSame DEF DeliverReserve, TypeOK
  <2>2. CASE job[th].todo # {} /\ Reserve(d)
    BY <1>0, <2>2, ReserveOK DEF DeliverReserve, TypeOK
  <2> QED BY <2>1, <2>2 DEF DeliverReserve
<1>2. JobsOK'
  <2>1. CASE Delivered(th) BY <1>0, <1>1, <2>1, DeliveredOK
  <2>2. CASE job[th].todo # {} /\ Goto(th, "send")
    <3>1. job' = [job EXCEPT ![th] =
                    [job[th] EXCEPT !.pc = "send", !.todo = job[th].todo,
                                    !.res = job[th].res, !.raised = job[th].raised]]
      BY <1>0, <2>2 DEF Goto, Jobs
    <3> QED BY <1>0, <1>1, <2>2, <3>1, DeliveryStep
  <2>3. CASE job' = [job EXCEPT ![th].todo = @ \ {d.part}]
    <3> DEFINE rest == job[th].todo \ {d.part}
    <3>1. job' = [job EXCEPT ![th] =
                    [job[th] EXCEPT !.pc = "reserve", !.todo = rest,
                                    !.res = job[th].res, !.raised = job[th].raised]]
      <4>1. job[th].pc = "reserve" BY DEF DeliverReserve, At
      <4>2. job' = [job EXCEPT ![th] = [job[th] EXCEPT !.todo = rest]]
        BY <2>3
      <4> HIDE DEF rest
      <4> QED BY <1>0, <4>1, <4>2 DEF Jobs
    <3>2. rest \in SUBSET (1 .. 2)
          /\ \A n \in rest : Part(job[th].key, n) \in DOMAIN dlv
      BY <1>0
    <3> HIDE DEF rest
    <3> QED BY <1>0, <1>1, <3>1, <3>2, DeliveryStep
  <2> QED BY <2>1, <2>2, <2>3 DEF DeliverReserve
<1> QED BY <1>1, <1>2, Typed DEF DeliverReserve, TypeOK

LEMMA DeliverSendType ==
  ASSUME TypeOK, NEW th \in Threads, DeliverSend(th)
  PROVE  TypeOK'
<1>0. /\ job[th] \in Jobs /\ job[th].pc \in OnRun
      /\ job[th].todo \in SUBSET (1 .. 2) /\ job[th].todo # {}
      /\ \A n \in job[th].todo : Part(job[th].key, n) \in DOMAIN dlv
      /\ NextPart(th) \in DOMAIN dlv
  <2>1. JobOK(job[th], DOMAIN run, DOMAIN dlv) /\ job[th].pc = "send"
    BY Current DEF DeliverSend, At
  <2>2. job[th].todo # {} BY <2>1 DEF JobOK
  <2> QED BY <2>2, AtDelivery DEF DeliverSend, OnRun, OnTask, Pcs
<1>1. StoreOK' /\ Grows BY StoreSame DEF DeliverSend, TypeOK
<1>2. JobsOK'
  <2>1. PICK res \in {"sent", "failed", "unknown"}, raised \in BOOLEAN :
          Sent(th, res, raised)
    BY DEF DeliverSend
  <2>2. job' = [job EXCEPT ![th] =
                  [job[th] EXCEPT !.pc = "settle", !.todo = job[th].todo,
                                  !.res = res, !.raised = raised]]
    BY <1>0, <2>1 DEF Sent, Jobs
  <2> QED BY <1>0, <1>1, <2>2, DeliveryStep
<1>3. wechat' \in Seq(DOMAIN dlv') /\ turns' \in Seq(DOMAIN run')
  <2>1. run' = run /\ dlv' = dlv /\ turns' = turns BY DEF DeliverSend, storeVars
  <2>2. wechat \in Seq(DOMAIN dlv) /\ turns \in Seq(DOMAIN run) BY DEF TypeOK
  <2>3. wechat' = wechat \/ wechat' = Append(wechat, NextPart(th))
    BY DEF DeliverSend
  <2>4. Append(wechat, NextPart(th)) \in Seq(DOMAIN dlv)
    BY <1>0, <2>2, AppendProperties
  <2> QED BY <2>1, <2>2, <2>3, <2>4
<1> QED BY <1>1, <1>2, <1>3 DEF DeliverSend, TypeOK

LEMMA DeliverSettleType ==
  ASSUME TypeOK, NEW th \in Threads, DeliverSettle(th)
  PROVE  TypeOK'
<1> DEFINE d == NextPart(th)
<1>0. /\ job[th] \in Jobs /\ job[th].pc \in OnRun
      /\ job[th].todo \in SUBSET (1 .. 2)
      /\ \A n \in job[th].todo : Part(job[th].key, n) \in DOMAIN dlv
      /\ d \in DOMAIN dlv
      /\ job[th].res \in {"sent", "failed", "unknown"} /\ job[th].raised \in BOOLEAN
  <2>1. JobOK(job[th], DOMAIN run, DOMAIN dlv) /\ job[th].pc = "settle"
    BY Current DEF DeliverSettle, At
  <2>2. job[th].todo # {} BY <2>1 DEF JobOK
  <2> QED BY <2>2, AtDelivery DEF DeliverSettle, OnRun, OnTask, Pcs, Jobs
<1>1. StoreOK' /\ Grows
  BY <1>0, SettleOK DEF DeliverSettle, TypeOK
<1>2. JobsOK'
  <2>1. CASE Goto(th, "cancel")
    <3>1. "cancel" \in OnRun \ {"send", "settle"} BY DEF OnRun, OnTask, Pcs
    <3> QED BY <1>0, <1>1, <2>1, <3>1, GotoOK
  <2>2. CASE Delivered(th) BY <1>0, <1>1, <2>2, DeliveredOK
  <2>3. CASE job' = [job EXCEPT ![th] =
                       [@ EXCEPT !.pc = "reserve", !.todo = job[th].todo \ {d.part}]]
    <3> DEFINE rest == job[th].todo \ {d.part}
    <3>1. job' = [job EXCEPT ![th] =
                    [job[th] EXCEPT !.pc = "reserve", !.todo = rest,
                                    !.res = job[th].res, !.raised = job[th].raised]]
      <4>1. job' = [job EXCEPT ![th] =
                      [job[th] EXCEPT !.pc = "reserve", !.todo = rest]]
        BY <2>3
      <4> HIDE DEF rest
      <4> QED BY <1>0, <4>1 DEF Jobs
    <3>2. rest \in SUBSET (1 .. 2)
          /\ \A n \in rest : Part(job[th].key, n) \in DOMAIN dlv
      BY <1>0
    <3> HIDE DEF rest
    <3> QED BY <1>0, <1>1, <3>1, <3>2, DeliveryStep
  <2> QED BY <2>1, <2>2, <2>3 DEF DeliverSettle
<1> QED BY <1>1, <1>2, Typed DEF DeliverSettle, TypeOK

LEMMA DeliverType ==
  ASSUME TypeOK, NEW th \in Threads, Deliver(th)
  PROVE  TypeOK'
  BY DeliverRunType, DeliverReserveType, DeliverSendType, DeliverSettleType
  DEF Deliver
-----------------------------------------------------------------------------
(* Type correctness: users, and the theorem.                               *)

LEMMA UserTaskType ==
  ASSUME TypeOK, NEW t \in Tasks, UserTask(t)
  PROVE  TypeOK'
<1>1. StoreOK' /\ Grows
  <2>0. StoreOK /\ now' = now BY DEF TypeOK, UserTask
  <2>1. ASSUME NEW rule \in Rules, Create(t, rule) PROVE StoreOK' /\ Grows
    BY <2>0, <2>1, CreateOK
  <2>2. ASSUME NEW rule \in Rules \cup {None}, NEW m \in BOOLEAN, Update(t, rule, m)
        PROVE  StoreOK' /\ Grows
    BY <2>0, <2>2, UpdateOK DEF OrNone
  <2>3. ASSUME NEW until \in Times \cup {None}, Pause(t, until)
        PROVE  StoreOK' /\ Grows
    BY <2>0, <2>3, PauseOK DEF OrNone
  <2>4. CASE Resume(t) BY <2>0, <2>4, ResumeOK
  <2>5. CASE Delete(t) BY <2>0, <2>5, DeleteOK
  <2>6. ASSUME NEW key \in ManualKeys, RunNow(t, key) PROVE StoreOK' /\ Grows
    BY <2>0, <2>6, RunNowOK
  <2>7. CASE StopRun(t) BY <2>0, <2>7, StopRunOK
  <2>8. ASSUME NEW at \in Times \cup {None}, ChangeNext(t, at)
        PROVE  StoreOK' /\ Grows
    BY <2>0, <2>8, ChangeNextOK DEF OrNone
  <2>9. CASE ClearNextChange(t) BY <2>0, <2>9, ClearNextChangeOK
  <2> QED BY <2>1, <2>2, <2>3, <2>4, <2>5, <2>6, <2>7, <2>8, <2>9 DEF UserTask
<1>2. JobsOK' BY <1>1, JobsSame DEF UserTask, procVars
<1>3. wechat' \in Seq(DOMAIN dlv') /\ turns' \in Seq(DOMAIN run')
  BY <1>1, SeqMonotonic DEF UserTask, TypeOK, Grows
<1>4. since' \in [Tasks -> OrNone(Times)]
  <2>1. now \in OrNone(Times) BY DEF TypeOK, StoreOK, OrNone
  <2> QED BY <2>1 DEF UserTask, TypeOK
<1> QED BY <1>1, <1>2, <1>3, <1>4 DEF UserTask, TypeOK, procVars

LEMMA UserSwitchType ==
  ASSUME TypeOK, UserSwitch
  PROVE  TypeOK'
<1>1. StoreOK' /\ Grows
  BY SetEnabledOK, SetChatEnabledOK DEF UserSwitch, TypeOK
<1>2. JobsOK' BY <1>1, JobsSame DEF UserSwitch, procVars
<1>3. wechat' \in Seq(DOMAIN dlv') /\ turns' \in Seq(DOMAIN run')
  BY <1>1, SeqMonotonic DEF UserSwitch, TypeOK, Grows
<1>4. since' \in [Tasks -> OrNone(Times)]
  <2>1. now \in OrNone(Times) BY DEF TypeOK, StoreOK, OrNone
  <2> QED BY <2>1 DEF UserSwitch, TypeOK
<1> QED BY <1>1, <1>2, <1>3, <1>4 DEF UserSwitch, TypeOK, procVars

LEMMA UserRedeliverType ==
  ASSUME TypeOK, NEW o \in Owners, UserRedeliver(o)
  PROVE  TypeOK'
<1>1. StoreOK' /\ Grows BY StoreSame DEF UserRedeliver, TypeOK
<1>2. JobsOK'
  <2>1. PICK k \in DOMAIN run :
          job' = [job EXCEPT ![Web(o)] = [IdleJob EXCEPT !.pc = "deliver", !.key = k]]
    BY DEF UserRedeliver
  <2>2. k \in Keys /\ k \in DOMAIN run'
    BY <1>1 DEF TypeOK, StoreOK, IsRunTable, Grows
  <2> QED BY <1>1, <2>1, <2>2, RunJob, WorkerThread, JobChange
<1> QED BY <1>1, <1>2, Typed DEF UserRedeliver, TypeOK

LEMMA NextType ==
  ASSUME TypeOK, [Next]_vars
  PROVE  TypeOK'
<1>1. CASE UNCHANGED vars BY <1>1, StutterType
<1>2. CASE Advance BY <1>2, AdvanceType
<1>3. CASE UserSwitch BY <1>3, UserSwitchType
<1>4. CASE \E t \in Tasks : UserTask(t) BY <1>4, UserTaskType
<1>5. ASSUME NEW o \in Owners,
             \/ Start(o) \/ Stop(o) \/ DropFuture(o) \/ Crash(o)
             \/ Tick(o) \/ Work(o) \/ UserRedeliver(o) \/ Deliver(Web(o))
      PROVE  TypeOK'
  <2>1. CASE Start(o) \/ Stop(o) \/ DropFuture(o) \/ Crash(o)
    BY <2>1, ProcessType
  <2>2. CASE Tick(o)
    BY <2>2, TickLeaseType, TickAdmitType, TickResumesType, TickFailuresType,
       TickClaimType DEF Tick
  <2>3. CASE Work(o)
    BY <2>3, WorkStartType, WorkCheckType, WorkReplyType, WorkTurnType,
       WorkAnswerType, WorkRecheckType, WorkSaveType, WorkCaughtType,
       WorkFailType, WorkBlockedType, WorkFinishType, WorkReviewType,
       WorkCommitType, WorkBlockType, DeliverType, WorkerThread DEF Work
  <2>4. CASE UserRedeliver(o) BY <2>4, UserRedeliverType
  <2>5. CASE Deliver(Web(o)) BY <2>5, DeliverType, WorkerThread
  <2> QED BY <1>5, <2>1, <2>2, <2>3, <2>4, <2>5
<1> QED BY <1>1, <1>2, <1>3, <1>4, <1>5 DEF Next

\* TypeOK holds in every reachable state, whatever crashes, loses its lease or
\* is edited meanwhile: no transaction leaves a row that is not of its table,
\* no thread works on a row that is gone, and what was sent or started is
\* recorded.
THEOREM TypeCorrect == Spec => []TypeOK
<1>1. Init => TypeOK BY InitType
<1>2. TypeOK /\ [Next]_vars => TypeOK' BY NextType
<1> QED BY <1>1, <1>2, PTL DEF Spec
=============================================================================
