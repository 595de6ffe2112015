------------------------ MODULE ScheduledSafetyProofs ------------------------
(***************************************************************************)
(* The safety theorems of ScheduledTasks: what happens to a run, to a turn *)
(* and to a message, for every number of tasks, chats and processes.       *)
(***************************************************************************)
EXTENDS ScheduledTasksProofs

\* How a transaction may change a row of scheduled_runs, the exceptions being
\* claim(), bind() and fail_or_retry(): it may close a live one, and ask it to
\* stop, and give it a result other than a failure.
Kept(old, new) ==
  /\ \/ new.status = old.status
     \/ old.status \in {"queued", "running"} /\ new.status \in Ended
  /\ new.cancel = old.cancel \/ old.status \in {"queued", "running"}
  /\ \/ new.result = old.result
     \/ /\ old.result = "none" /\ new.result \notin Categories
        /\ old.status = "running"
  /\ new.owner = old.owner /\ new.thread = old.thread

\* A row as _insert_run leaves it.
IsNew(row) ==
  /\ row.status \in {"queued", "missed", "skipped"}
  /\ row.owner = None /\ row.result = "none" /\ ~row.thread /\ ~row.cancel

Tame ==
  /\ \A k \in DOMAIN run : k \in DOMAIN run' /\ Kept(run[k], run'[k])
  /\ \A k \in DOMAIN run' : k \notin DOMAIN run => IsNew(run'[k])

LEMMA SameRuns ==
  ASSUME run' = run
  PROVE  Tame
  BY DEF Tame, Kept

LEMMA ChangeTame ==
  ASSUME DOMAIN run' = DOMAIN run,
         \A k \in DOMAIN run : Kept(run[k], run'[k])
  PROVE  Tame
  BY DEF Tame

LEMMA InsertTame ==
  ASSUME NEW f, DOMAIN f = DOMAIN run, \A k \in DOMAIN run : Kept(run[k], f[k]),
         NEW g, \A k \in DOMAIN g : IsNew(g[k]), run' = OrIgnore(f, g)
  PROVE  Tame
  BY DEF Tame, OrIgnore

LEMMA NewRowIsNew ==
  ASSUME NEW version, NEW at, NEW status \in {"queued", "missed", "skipped"}
  PROVE  IsNew(NewRow(version, at, status))
  BY DEF IsNew, NewRow

LEMMA KeptSame == ASSUME NEW row PROVE Kept(row, row)
  BY DEF Kept

LEMMA RunRowType ==
  ASSUME StoreOK, NEW k \in DOMAIN run
  PROVE  run[k] \in RunRows
  BY DEF StoreOK, IsRunTable

LEMMA DropQueuedKept ==
  ASSUME StoreOK, NEW t
  PROVE  /\ DOMAIN DropQueued(t) = DOMAIN run
         /\ \A k \in DOMAIN run : Kept(run[k], DropQueued(t)[k])
<1>1. ASSUME NEW k \in DOMAIN run PROVE Kept(run[k], DropQueued(t)[k])
  <2>1. run[k] \in RunRows BY RunRowType
  <2>2. CASE k \in HasStatus(t, {"queued"})
    BY <2>1, <2>2 DEF Kept, DropQueued, HasStatus, RunRows, Ended
  <2>3. CASE k \notin HasStatus(t, {"queued"})
    BY <2>3, KeptSame DEF DropQueued
  <2> QED BY <2>2, <2>3
<1> QED BY <1>1 DEF DropQueued

LEMMA CancelRunsTame ==
  ASSUME StoreOK, NEW S, run' = CancelRuns(S)
  PROVE  Tame
<1>1. ASSUME NEW k \in DOMAIN run PROVE Kept(run[k], run'[k])
  <2>1. run[k] \in RunRows BY RunRowType
  <2>2. CASE k \in S /\ run[k].status = "queued"
    BY <2>1, <2>2 DEF CancelRuns, RunRows, Ended, Kept
  <2>3. CASE k \in S /\ run[k].status = "running"
    BY <2>1, <2>3 DEF CancelRuns, RunRows, Ended, Kept
  <2>4. CASE ~(k \in S /\ run[k].status \in {"queued", "running"})
    BY <2>4, KeptSame DEF CancelRuns
  <2> QED BY <2>2, <2>3, <2>4
<1> QED BY <1>1, ChangeTame DEF CancelRuns

LEMMA ReplanTame ==
  ASSUME NEW S, Replan(S)
  PROVE  Tame
<1> DEFINE due  == [t \in S |-> NextFire(task[t].rule, now, task[t].exc)]
           lost == {t \in S : due[t] = None /\ task[t].next # None}
           new  == [k \in {Key(t, "scheduled", task[t].next) : t \in lost} |->
                      NewRow(task[k.task].version, k.n, "missed")]
<1>1. run' = OrIgnore(run, new) BY DEF Replan
<1>2. \A k \in DOMAIN new : IsNew(new[k]) BY NewRowIsNew
<1> HIDE DEF new
<1> QED BY <1>1, <1>2, KeptSame, InsertTame

LEMMA BaselineRowNew ==
  ASSUME NEW t, NEW status, NEW version,
         NEW k \in DOMAIN BaselineRow(t, status, version)
  PROVE  IsNew(BaselineRow(t, status, version)[k])
  BY NewRowIsNew DEF BaselineRow, Row, EmptyTable

LEMMA UserTame ==
  ASSUME TypeOK, NEW t \in Tasks, UserTask(t)
  PROVE  Tame
<1>0. StoreOK BY DEF TypeOK
<1>1. ASSUME NEW rule \in Rules, Create(t, rule) PROVE Tame
  <2>1. run' = OrIgnore(run, BaselineRow(t, "active", 1)) BY <1>1 DEF Create
  <2> QED BY <2>1, BaselineRowNew, KeptSame, InsertTame
<1>2. ASSUME NEW rule, NEW m, Update(t, rule, m) PROVE Tame
  <2>1. PICK f \in {DropQueued(t), run} : \E status, version :
          run' = OrIgnore(f, BaselineRow(t, status, version))
    BY <1>2 DEF Update
  <2>2. DOMAIN f = DOMAIN run /\ \A k \in DOMAIN run : Kept(run[k], f[k])
    BY <1>0, DropQueuedKept, KeptSame
  <2> QED BY <2>1, <2>2, BaselineRowNew, InsertTame
<1>3. ASSUME NEW until, Pause(t, until) PROVE Tame
  BY <1>0, <1>3, DropQueuedKept, ChangeTame DEF Pause
<1>4. CASE run' = run BY <1>4, SameRuns
<1>5. CASE Delete(t)
  <2>1. ASSUME NEW k \in DOMAIN run PROVE Kept(run[k], run'[k])
    <3>1. run[k] \in RunRows BY <1>0, RunRowType
    <3>2. CASE k \in HasStatus(t, {"running"})
      BY <1>5, <3>1, <3>2 DEF Delete, HasStatus, Kept, RunRows
    <3>3. CASE k \notin HasStatus(t, {"running"})
      BY <1>0, <1>5, <3>3, DropQueuedKept DEF Delete
    <3> QED BY <3>2, <3>3
  <2> QED BY <1>5, <2>1, ChangeTame DEF Delete
<1>6. ASSUME NEW key, RunNow(t, key) PROVE Tame
  <2> DEFINE new == Row(Key(t, "manual", key), NewRow(task[t].version, now, "queued"))
  <2>1. \A k \in DOMAIN new : IsNew(new[k]) BY NewRowIsNew DEF Row
  <2>2. run' = OrIgnore(run, new) BY <1>6 DEF RunNow
  <2> HIDE DEF new
  <2> QED BY <2>1, <2>2, KeptSame, InsertTame
<1>7. CASE StopRun(t)
  <2>1. ASSUME NEW k \in DOMAIN run PROVE Kept(run[k], run'[k])
    <3>1. run[k] \in RunRows BY <1>0, RunRowType
    <3> QED BY <1>7, <3>1 DEF StopRun, HasStatus, Kept, RunRows
  <2> QED BY <1>7, <2>1, ChangeTame DEF StopRun
<1>8. ASSUME NEW at, ChangeNext(t, at) PROVE Tame
  <2> DEFINE new == Row(Key(t, "exception", task[t].version + 1),
                        NewRow(task[t].version, task[t].next, "skipped"))
  <2>1. \A k \in DOMAIN new : IsNew(new[k]) BY NewRowIsNew DEF Row
  <2>2. run' = OrIgnore(run, new) BY <1>8 DEF ChangeNext
  <2> HIDE DEF new
  <2> QED BY <2>1, <2>2, KeptSame, InsertTame
<1> QED BY <1>1, <1>2, <1>3, <1>4, <1>5, <1>6, <1>7, <1>8
        DEF UserTask, Resume, ResumeAs, ClearNextChange

LEMMA SwitchTame ==
  ASSUME TypeOK, UserSwitch
  PROVE  Tame
<1>0. StoreOK BY DEF TypeOK
<1>1. ASSUME NEW S, run' = CancelRuns(S) PROVE Tame
  BY <1>0, <1>1, CancelRunsTame
<1>2. ASSUME NEW S, Replan(S) PROVE Tame
  BY <1>2, ReplanTame
<1> QED BY <1>1, <1>2 DEF UserSwitch, SetEnabled, SetChatEnabled

LEMMA LeaseTame ==
  ASSUME TypeOK, NEW o \in Owners, Lease(o)
  PROVE  Tame
<1>1. CASE run' = run BY <1>1, SameRuns
<1>2. CASE lease.owner # o
  <2> DEFINE end(k) == IF run[k].result = "none" THEN "interrupted" ELSE "completed"
  <2>1. run' = [k \in DOMAIN run |->
                  IF run[k].status # "running" THEN run[k]
                  ELSE [run[k] EXCEPT !.status = end(k)]]
    BY <1>2 DEF Lease
  <2>2. ASSUME NEW k \in DOMAIN run PROVE Kept(run[k], run'[k])
    <3>1. run[k] \in RunRows /\ end(k) \in Ended
      BY RunRowType DEF TypeOK, Ended
    <3> HIDE DEF end
    <3> QED BY <2>1, <3>1 DEF Kept, RunRows
  <2> QED BY <2>1, <2>2, ChangeTame
<1> QED BY <1>1, <1>2 DEF Lease

LEMMA AdmitDueTame ==
  ASSUME NEW o, AdmitDue(o)
  PROVE  Tame
<1> DEFINE due    == {t \in Tasks : /\ task[t].status = "active"
                                    /\ task[t].next # None /\ task[t].next <= now
                                    /\ Permitted(t)}
           latest == [t \in due |-> LatestFire(task[t].rule, now, task[t].exc)]
           at     == [t \in due |-> IF latest[t] # None /\ latest[t] > task[t].next
                                    THEN latest[t] ELSE task[t].next]
           status == [t \in due |-> IF now - at[t] > Grace THEN "missed"
                                    ELSE IF Live(t) THEN "skipped" ELSE "queued"]
           new    == [k \in {Key(t, "scheduled", at[t]) : t \in due} |->
                        NewRow(task[k.task].version, k.n, status[k.task])]
<1>1. ASSUME NEW k \in DOMAIN new PROVE IsNew(new[k])
  <2>1. PICK t \in due : k = Key(t, "scheduled", at[t]) OBVIOUS
  <2>2. k.task = t BY <2>1 DEF Key
  <2>3. status[t] \in {"queued", "missed", "skipped"}
    <3> HIDE DEF at
    <3> QED OBVIOUS
  <2>4. new[k] = NewRow(task[k.task].version, k.n, status[t]) BY <2>2
  <2> HIDE DEF new, status
  <2> QED BY <2>3, <2>4, NewRowIsNew
<1>2. run' = OrIgnore(run, new) BY DEF AdmitDue
<1> HIDE DEF new
<1> QED BY <1>1, <1>2, KeptSame, InsertTame

LEMMA FinishTame ==
  ASSUME TypeOK, NEW k \in DOMAIN run, NEW status \in Ended, Finish(k, status)
  PROVE  Tame
<1>1. CASE run' = run BY <1>1, SameRuns
<1>2. CASE run[k].status = "running"
  <2>1. run' = [run EXCEPT ![k].status = status] BY <1>2 DEF Finish
  <2>2. ASSUME NEW j \in DOMAIN run PROVE Kept(run[j], run'[j])
    <3>1. run[j] \in RunRows BY RunRowType DEF TypeOK
    <3> QED BY <1>2, <2>1, <3>1 DEF Kept, RunRows
  <2> QED BY <2>1, <2>2, ChangeTame
<1> QED BY <1>1, <1>2 DEF Finish

LEMMA SaveTame ==
  ASSUME TypeOK, NEW o \in Owners, NEW k \in DOMAIN run,
         \/ \E n \in 1 .. 2 : SaveReport(o, k, n)
         \/ SaveRoleBlock(o, k)
         \/ \E rev, observed : SaveObservation(o, k, rev, observed)
  PROVE  Tame
<1>0. StoreOK BY DEF TypeOK
<1>1. run[k].status = "running" /\ run[k].result = "none"
  BY DEF SaveReport, SaveRoleBlock, SaveObservation, Observable, Savable
<1>2. ASSUME NEW f \in {run, DropQueued(k.task)}, NEW row,
             run' = [f EXCEPT ![k] = row], Kept(run[k], row)
      PROVE  Tame
  <2>1. DOMAIN f = DOMAIN run /\ \A j \in DOMAIN run : Kept(run[j], f[j])
    BY <1>0, DropQueuedKept, KeptSame
  <2> QED BY <1>2, <2>1, ChangeTame
<1>3. run[k] \in RunRows BY <1>0, RunRowType
<1>4. DropQueued(k.task)[k] = run[k]
  BY <1>1 DEF DropQueued, HasStatus
<1>5. ASSUME NEW n, SaveReport(o, k, n) PROVE Tame
  <2> DEFINE row == [run[k] EXCEPT !.result = "report"]
  <2>1. run' = [run EXCEPT ![k] = row] BY <1>5 DEF SaveReport
  <2>2. Kept(run[k], row) BY <1>1, <1>3 DEF Kept, RunRows, Categories
  <2> HIDE DEF row
  <2> QED BY <1>2, <2>1, <2>2
<1>6. CASE SaveRoleBlock(o, k)
  <2> DEFINE row == [run[k] EXCEPT !.result = "role", !.status = "role_blocked"]
  <2>1. \E f \in {run, DropQueued(k.task)} : run' = [f EXCEPT ![k] = row]
    BY <1>4, <1>6 DEF SaveRoleBlock
  <2>2. Kept(run[k], row) BY <1>1, <1>3 DEF Kept, RunRows, Categories, Ended
  <2> HIDE DEF row
  <2> QED BY <1>2, <2>1, <2>2
<1>7. ASSUME NEW rev, NEW observed, SaveObservation(o, k, rev, observed)
      PROVE  Tame
  <2>1. PICK news : \E f \in {run, DropQueued(k.task)} :
          run' = [f EXCEPT ![k] =
                    [@ EXCEPT !.result = "observation", !.news = news,
                              !.status = IF news = {} THEN "no_change"
                                         ELSE "completed"]]
    BY <1>7 DEF SaveObservation
  <2> DEFINE status == IF news = {} THEN "no_change" ELSE "completed"
             row == [run[k] EXCEPT !.result = "observation", !.news = news,
                                   !.status = status]
  <2>2. PICK f \in {run, DropQueued(k.task)} : run' = [f EXCEPT ![k] = row]
    BY <1>4, <2>1
  <2>3. Kept(run[k], row)
    <3>1. status \in Ended BY DEF Ended
    <3> HIDE DEF status
    <3> QED BY <1>1, <1>3, <3>1 DEF Kept, RunRows, Categories
  <2> HIDE DEF row
  <2> QED BY <1>2, <2>2, <2>3
<1> QED BY <1>5, <1>6, <1>7

\* Every step but claim(), bind() and fail_or_retry() is tame.
Wild(o) == TickClaim(o) \/ WorkReply(o) \/ WorkFail(o) \/ WorkBlocked(o)

LEMMA TameStep ==
  ASSUME TypeOK, [Next]_vars
  PROVE  Tame \/ \E o \in Owners : Wild(o)
<1>1. ASSUME run' = run PROVE Tame BY <1>1, SameRuns
<1>2. CASE UserSwitch BY <1>2, SwitchTame
<1>3. CASE \E t \in Tasks : UserTask(t) BY <1>3, UserTame
<1>4. ASSUME NEW o \in Owners, TickLease(o) PROVE Tame
  BY <1>4, LeaseTame DEF TickLease
<1>5. ASSUME NEW o \in Owners, TickAdmit(o) PROVE Tame \/ run' = run
  BY <1>5, AdmitDueTame DEF TickAdmit, storeVars
<1>6. ASSUME NEW o \in Owners, WorkStart(o) PROVE Tame \/ run' = run
  <2>1. job[Worker(o)].key \in DOMAIN run
    BY <1>6, AtRun DEF WorkStart, OnRun, OnTask, Pcs
  <2> QED BY <1>6, <2>1, FinishTame DEF WorkStart, storeVars, Ended
<1>7. ASSUME NEW o \in Owners, WorkFinish(o) PROVE Tame
  <2>1. job[Worker(o)].key \in DOMAIN run /\ job[Worker(o)] \in Jobs
    BY <1>7, AtRun DEF WorkFinish, OnRun, OnTask, Pcs
  <2>2. job[Worker(o)].status \in Ended /\ "cancelled" \in Ended
    BY <2>1 DEF Jobs, Ended
  <2> QED BY <1>7, <2>1, <2>2, FinishTame DEF WorkFinish
<1>8. ASSUME NEW o \in Owners, WorkSave(o) PROVE Tame \/ run' = run
  <2>1. job[Worker(o)].key \in DOMAIN run
    BY <1>8, AtRun DEF WorkSave, OnRun, OnTask, Pcs
  <2> QED BY <1>8, <2>1, SaveTame DEF WorkSave, storeVars
<1>9. ASSUME NEW o \in Owners,
             WorkCommit(o) \/ WorkBlock(o) \/ Deliver(Worker(o)) \/ Deliver(Web(o))
      PROVE  run' = run
  BY <1>9 DEF WorkCommit, WorkBlock, AutoResume, BlockResume, ResumeAs, Deliver,
              DeliverRun, DeliverReserve, DeliverSend, DeliverSettle, Reserve,
              Settle, storeVars
<1>10. ASSUME NEW o \in Owners,
              \/ Start(o) \/ Stop(o) \/ DropFuture(o) \/ Crash(o) \/ UserRedeliver(o)
              \/ TickResumes(o) \/ TickFailures(o) \/ WorkCheck(o) \/ WorkTurn(o)
              \/ WorkAnswer(o) \/ WorkRecheck(o) \/ WorkCaught(o) \/ WorkReview(o)
       PROVE  run' = run
  BY <1>10 DEF Start, Stop, DropFuture, Crash, UserRedeliver, TickResumes,
               TickFailures, WorkCheck, WorkTurn, WorkAnswer, WorkRecheck,
               WorkCaught, WorkReview, storeVars
<1>11. CASE Advance \/ UNCHANGED vars
  BY <1>1, <1>11 DEF Advance, storeVars, vars
<1>12. ASSUME NEW o \in Owners,
              \/ Start(o) \/ Stop(o) \/ DropFuture(o) \/ Crash(o)
              \/ Tick(o) \/ Work(o) \/ UserRedeliver(o) \/ Deliver(Web(o))
       PROVE  Tame \/ Wild(o)
  <2>1. CASE Tick(o) BY <1>1, <1>4, <1>5, <1>10, <2>1 DEF Tick, Wild
  <2>2. CASE Work(o) BY <1>1, <1>6, <1>7, <1>8, <1>9, <1>10, <2>2 DEF Work, Wild
  <2> QED BY <1>1, <1>9, <1>10, <1>12, <2>1, <2>2
<1> QED BY <1>2, <1>3, <1>11, <1>12 DEF Next
-----------------------------------------------------------------------------
(* The steps that are not tame.                                            *)

\* claim() hands one queued row to the worker of the process that leads.
Claimed(o, k) ==
  /\ run[k].status = "queued" /\ lease.owner = o
  /\ run'[k] = [run[k] EXCEPT !.status = "running", !.owner = o]
  /\ job' = [job EXCEPT ![Worker(o)] = [IdleJob EXCEPT !.pc = "start", !.key = k]]

LEMMA SweptKept ==
  ASSUME StoreOK
  PROVE  DOMAIN Swept = DOMAIN run /\ \A k \in DOMAIN run : Kept(run[k], Swept[k])
<1>1. ASSUME NEW k \in DOMAIN run PROVE Kept(run[k], Swept[k])
  <2>1. run[k] \in RunRows BY RunRowType
  <2> QED BY <2>1 DEF Swept, Kept, RunRows, Ended
<1> QED BY <1>1 DEF Swept

LEMMA ClaimStep ==
  ASSUME TypeOK, NEW o \in Owners, TickClaim(o)
  PROVE  \/ Tame /\ job' = job
         \/ \E c \in DOMAIN run :
              /\ Claimed(o, c) /\ DOMAIN run' = DOMAIN run
              /\ \A k \in DOMAIN run : k # c => Kept(run[k], run'[k])
<1>0. StoreOK BY DEF TypeOK
<1>1. CASE ClaimNothing(o) /\ job' = job
  BY <1>0, <1>1, SweptKept, SameRuns, ChangeTame DEF ClaimNothing
<1>2. ASSUME NEW k \in Ready, Claim(o, k),
             job' = IF run'[k].status # "running" THEN job
                    ELSE [job EXCEPT ![Worker(o)] =
                            [IdleJob EXCEPT !.pc = "start", !.key = k]]
      PROVE  \/ Tame /\ job' = job
             \/ \E c \in DOMAIN run :
                  /\ Claimed(o, c) /\ DOMAIN run' = DOMAIN run
                  /\ \A x \in DOMAIN run : x # c => Kept(run[x], run'[x])
  <2>1. /\ k \in DOMAIN run /\ run[k].status = "queued" /\ Swept[k] = run[k]
        /\ run[k] \in RunRows
    BY <1>0, RunRowType DEF Ready, Swept
  <2>2. /\ run' = [Swept EXCEPT ![k] =
                     IF Permitted(k.task)
                     THEN [run[k] EXCEPT !.status = "running", !.owner = o]
                     ELSE [run[k] EXCEPT !.status = "cancelled", !.cancel = TRUE]]
        /\ lease.owner = o
    BY <1>2, <2>1 DEF Claim, Leads
  <2>3. /\ DOMAIN run' = DOMAIN run
        /\ \A x \in DOMAIN run : x # k => Kept(run[x], run'[x])
    BY <1>0, <2>2, SweptKept
  <2>4. CASE Permitted(k.task)
    <3>1. run'[k] = [run[k] EXCEPT !.status = "running", !.owner = o]
      BY <1>0, <2>1, <2>2, <2>4, SweptKept
    <3>2. run'[k].status = "running" BY <2>1, <3>1 DEF RunRows
    <3> QED BY <1>2, <2>1, <2>2, <2>3, <3>1, <3>2 DEF Claimed
  <2>5. CASE ~Permitted(k.task)
    <3>1. run'[k] = [run[k] EXCEPT !.status = "cancelled", !.cancel = TRUE]
      BY <1>0, <2>1, <2>2, <2>5, SweptKept
    <3>2. run'[k].status # "running" /\ Kept(run[k], run'[k])
      BY <2>1, <3>1 DEF RunRows, Kept, Ended
    <3> QED BY <1>2, <2>3, <3>2, ChangeTame
  <2> QED BY <2>4, <2>5
<1> QED BY <1>1, <1>2 DEF TickClaim

\* bind() only records the thread.
LEMMA ReplyStep ==
  ASSUME TypeOK, NEW o \in Owners, WorkReply(o)
  PROVE  \/ run' = run /\ \E exc \in Errors : Throw(Worker(o), exc)
         \/ /\ Goto(Worker(o), "turn")
            /\ run' = [run EXCEPT ![job[Worker(o)].key].thread = TRUE]
  BY DEF WorkReply, Bind, storeVars

\* fail_or_retry() puts the row of the worker back in the queue, or ends it.
Requeued(o, k) ==
  /\ ~Fenced(o, k) /\ ~run[k].thread
  /\ \E attempts, retryAt :
       run' = [run EXCEPT ![k] =
                 [run[k] EXCEPT !.status = "queued", !.owner = None,
                                !.attempts = attempts, !.retryAt = retryAt]]

Failed(o, k) ==
  /\ ~Fenced(o, k)
  /\ \E status \in {"blocked", "failed"}, category \in Categories :
       \E attempts :
         run' = [run EXCEPT ![k] =
                   [run[k] EXCEPT !.status = status, !.result = category,
                                  !.attempts = attempts]]

LEMMA FailStep ==
  ASSUME TypeOK, NEW o \in Owners, WorkFail(o) \/ WorkBlocked(o)
  PROVE  LET k == job[Worker(o)].key
         IN  /\ k \in DOMAIN run
             /\ run' = run \/ Requeued(o, k) \/ Failed(o, k)
<1> DEFINE k == job[Worker(o)].key
<1>1. k \in DOMAIN run /\ job[Worker(o)] \in Jobs
  BY AtRun DEF WorkFail, WorkBlocked, OnRun, OnTask, Pcs
<1>2. PICK category \in Categories, transient \in BOOLEAN,
             status \in {"blocked", "failed"} :
        FailOrRetry(o, k, category, transient, status)
  <2>1. CASE WorkFail(o)
    <3> DEFINE transient == job[Worker(o)].exc = "connection" /\ ~job[Worker(o)].inferred
               status == IF job[Worker(o)].exc = "permission" THEN "blocked" ELSE "failed"
    <3>1. job[Worker(o)].exc \in Categories BY <1>1 DEF Jobs
    <3>2. transient \in BOOLEAN /\ status \in {"blocked", "failed"} OBVIOUS
    <3>3. FailOrRetry(o, k, job[Worker(o)].exc, transient, status)
      BY <2>1 DEF WorkFail
    <3> HIDE DEF k, transient, status
    <3> QED BY <3>1, <3>2, <3>3
  <2>2. CASE WorkBlocked(o)
    <3>1. "monitor_blocked" \in Categories BY DEF Categories
    <3>2. FailOrRetry(o, k, "monitor_blocked", FALSE, "blocked")
      BY <2>2 DEF WorkBlocked
    <3> HIDE DEF k
    <3> QED BY <3>1, <3>2
  <2> QED BY <2>1, <2>2
<1> HIDE DEF k
<1>3. run' = run \/ Requeued(o, k) \/ Failed(o, k)
  <2>1. CASE Fenced(o, k) BY <1>2, <2>1 DEF FailOrRetry
  <2>2. CASE ~Fenced(o, k) /\ MayRetry(k, transient)
    BY <1>2, <2>2 DEF FailOrRetry, Requeued, MayRetry
  <2>3. CASE ~Fenced(o, k) /\ ~MayRetry(k, transient)
    BY <1>2, <2>3 DEF FailOrRetry, Failed
  <2> QED BY <2>1, <2>2, <2>3
<1> QED BY <1>1, <1>3 DEF k

\* Only the timer thread moves the lease.
LEMMA LeaseStep ==
  ASSUME [Next]_vars
  PROVE  lease' = lease \/ \E o \in Owners : TickLease(o)
<1>1. CASE UNCHANGED vars \/ Advance \/ UserSwitch
  BY <1>1 DEF vars, Advance, UserSwitch, SetEnabled, SetChatEnabled, storeVars
<1>2. ASSUME NEW t \in Tasks, UserTask(t) PROVE lease' = lease
  BY <1>2 DEF UserTask, Create, Update, Pause, Resume, ResumeAs, Delete, RunNow,
              StopRun, ChangeNext, ClearNextChange
<1>3. ASSUME NEW o \in Owners,
             Start(o) \/ Stop(o) \/ DropFuture(o) \/ Crash(o) \/ UserRedeliver(o)
      PROVE  lease' = lease
  BY <1>3 DEF Start, Stop, DropFuture, Crash, UserRedeliver, storeVars
<1>4. ASSUME NEW o \in Owners, Tick(o) PROVE lease' = lease \/ TickLease(o)
  BY <1>4 DEF Tick, TickAdmit, AdmitDue, TickResumes, TickFailures, TickClaim,
              Claim, ClaimNothing, storeVars
<1>5. ASSUME NEW th, Deliver(th) PROVE lease' = lease
  BY <1>5 DEF Deliver, DeliverRun, DeliverReserve, Reserve, DeliverSend,
              DeliverSettle, Settle, storeVars
<1>6. ASSUME NEW o \in Owners,
             \/ WorkStart(o) \/ WorkCheck(o) \/ WorkReply(o) \/ WorkTurn(o)
             \/ WorkAnswer(o) \/ WorkRecheck(o) \/ WorkSave(o) \/ WorkCaught(o)
      PROVE  lease' = lease
  BY <1>6 DEF WorkStart, Finish, WorkCheck, WorkReply, Bind, WorkTurn,
              WorkAnswer, WorkRecheck, WorkSave, SaveReport, SaveRoleBlock,
              SaveObservation, WorkCaught, storeVars
<1>7. ASSUME NEW o \in Owners,
             \/ WorkFail(o) \/ WorkBlocked(o) \/ WorkFinish(o)
             \/ WorkReview(o) \/ WorkCommit(o) \/ WorkBlock(o)
      PROVE  lease' = lease
  BY <1>7 DEF WorkFail, WorkBlocked, FailOrRetry, WorkFinish, Finish, WorkReview,
              WorkCommit, AutoResume, ResumeAs, WorkBlock, BlockResume, storeVars
<1>8. ASSUME NEW o \in Owners, Work(o) PROVE lease' = lease
  BY <1>5, <1>6, <1>7, <1>8 DEF Work
<1> QED BY <1>1, <1>2, <1>3, <1>4, <1>5, <1>8 DEF Next
-----------------------------------------------------------------------------
(* Runs.                                                                   *)

LEMMA RunningOwnedStep ==
  ASSUME TypeOK, RunningOwned, [Next]_vars
  PROVE  RunningOwned'
<1>0. StoreOK BY DEF TypeOK
<1>1. CASE \E o \in Owners : TickLease(o)
  <2>1. PICK o \in Owners : Lease(o) BY <1>1 DEF TickLease
  <2>2. lease'.owner = o BY <2>1 DEF Lease
  <2>3. CASE lease.owner = o
    BY <2>1, <2>2, <2>3 DEF Lease, RunningOwned
  <2>4. CASE lease.owner # o
    <3>1. ASSUME NEW k \in DOMAIN run' PROVE run'[k].status # "running"
      <4>1. k \in DOMAIN run BY <2>1, <2>4 DEF Lease
      <4>2. run[k] \in RunRows BY <1>0, <4>1, RunRowType
      <4> QED BY <2>1, <2>4, <4>1, <4>2 DEF Lease, RunRows
    <3> QED BY <3>1 DEF RunningOwned
  <2> QED BY <2>3, <2>4
<1>2. CASE lease' = lease
  <2>1. CASE Tame
    <3> SUFFICES ASSUME NEW k \in DOMAIN run', run'[k].status = "running"
                 PROVE  run'[k].owner = lease.owner
      BY <1>2 DEF RunningOwned
    <3>1. k \in DOMAIN run BY <2>1 DEF Tame, IsNew
    <3>2. run[k].status = "running" /\ run'[k].owner = run[k].owner
      BY <2>1, <3>1 DEF Tame, Kept, Ended
    <3> QED BY <3>1, <3>2 DEF RunningOwned
  <2>2. ASSUME NEW o \in Owners, NEW c \in DOMAIN run, Claimed(o, c),
               DOMAIN run' = DOMAIN run,
               \A k \in DOMAIN run : k # c => Kept(run[k], run'[k])
        PROVE  RunningOwned'
    <3>1. run'[c].owner = lease.owner
      BY <1>0, <2>2, RunRowType DEF Claimed, RunRows
    <3>2. ASSUME NEW k \in DOMAIN run, k # c, run'[k].status = "running"
          PROVE  run'[k].owner = lease.owner
      BY <2>2, <3>2 DEF Kept, Ended, RunningOwned
    <3> QED BY <1>2, <2>2, <3>1, <3>2 DEF RunningOwned
  <2>3. ASSUME NEW o \in Owners, WorkReply(o) PROVE RunningOwned'
    <3>1. ASSUME NEW k \in DOMAIN run
          PROVE  run'[k].status = run[k].status /\ run'[k].owner = run[k].owner
      <4>1. run[k] \in RunRows BY <1>0, RunRowType
      <4>2. run'[k] \in {run[k], [run[k] EXCEPT !.thread = TRUE]}
        BY <2>3, ReplyStep
      <4> QED BY <4>1, <4>2 DEF RunRows
    <3>2. DOMAIN run' = DOMAIN run BY <2>3, ReplyStep
    <3> QED BY <1>2, <3>1, <3>2 DEF RunningOwned
  <2>4. ASSUME NEW o \in Owners, WorkFail(o) \/ WorkBlocked(o) PROVE RunningOwned'
    <3> DEFINE c == job[Worker(o)].key
    <3>0. c \in DOMAIN run /\ (run' = run \/ Requeued(o, c) \/ Failed(o, c))
      BY <2>4, FailStep
    <3> HIDE DEF c
    <3>1. CASE run' = run BY <1>2, <3>1 DEF RunningOwned
    <3>2. CASE Requeued(o, c) \/ Failed(o, c)
      <4>1. run[c] \in RunRows BY <1>0, <3>0, RunRowType
      <4>2. run'[c].status # "running" BY <3>0, <3>2, <4>1 DEF Requeued, Failed, RunRows
      <4>3. /\ DOMAIN run' = DOMAIN run
            /\ \A k \in DOMAIN run : k # c => run'[k] = run[k]
        BY <3>2 DEF Requeued, Failed
      <4> QED BY <1>2, <4>2, <4>3 DEF RunningOwned
    <3> QED BY <3>0, <3>1, <3>2
  <2> QED BY <2>1, <2>2, <2>3, <2>4, TameStep, ClaimStep DEF Wild
<1> QED BY <1>1, <1>2, LeaseStep

\* lease() closes the rows of the owner it displaces before claim() hands out
\* new ones, so no run is ever marked running for a process that does not hold
\* the lease.
THEOREM RunningOwnedAlways == Spec => []RunningOwned
<1>1. Init => RunningOwned
  BY DEF Init, StoreInit, EmptyTable, RunningOwned
<1>2. TypeOK /\ RunningOwned /\ [Next]_vars => RunningOwned' BY RunningOwnedStep
<1> QED BY <1>1, <1>2, TypeCorrect, PTL DEF Spec

\* How any step changes a row: the common shape of tame and other steps.
RowStep(k) ==
  \/ Kept(run[k], run'[k])
  \/ /\ run[k].status = "queued" /\ run'[k].status = "running"
     /\ run'[k].result = run[k].result /\ run'[k].cancel = run[k].cancel
  \/ /\ run'[k].status = run[k].status
     /\ run'[k].result = run[k].result /\ run'[k].cancel = run[k].cancel
  \/ /\ run[k].status = "running" /\ run'[k].status = "queued"
     /\ run'[k].result = run[k].result /\ run'[k].cancel = run[k].cancel
  \/ /\ run[k].status = "running" /\ run'[k].status \in {"blocked", "failed"}
     /\ run[k].result = "none" /\ ~run[k].cancel /\ ~run'[k].cancel

LEMMA RowSteps ==
  ASSUME TypeOK, [Next]_vars
  PROVE  /\ \A k \in DOMAIN run : k \in DOMAIN run' /\ RowStep(k)
         /\ \A k \in DOMAIN run' : k \notin DOMAIN run => IsNew(run'[k])
<1>0. StoreOK BY DEF TypeOK
<1>1. CASE Tame BY <1>1 DEF Tame, RowStep
<1>2. ASSUME NEW o \in Owners, NEW c \in DOMAIN run, Claimed(o, c),
             DOMAIN run' = DOMAIN run,
             \A k \in DOMAIN run : k # c => Kept(run[k], run'[k])
      PROVE  DOMAIN run' = DOMAIN run /\ \A k \in DOMAIN run : RowStep(k)
  <2>1. RowStep(c)
    BY <1>0, <1>2, RunRowType DEF Claimed, RunRows, RowStep
  <2> QED BY <1>2, <2>1 DEF RowStep
<1>3. ASSUME NEW o \in Owners, WorkReply(o)
      PROVE  DOMAIN run' = DOMAIN run /\ \A k \in DOMAIN run : RowStep(k)
  <2>1. ASSUME NEW k \in DOMAIN run PROVE RowStep(k)
    <3>1. run[k] \in RunRows BY <1>0, RunRowType
    <3>2. run'[k] \in {run[k], [run[k] EXCEPT !.thread = TRUE]}
      BY <1>3, ReplyStep
    <3> QED BY <3>1, <3>2 DEF RunRows, RowStep
  <2> QED BY <1>3, <2>1, ReplyStep
<1>4. ASSUME NEW o \in Owners, WorkFail(o) \/ WorkBlocked(o)
      PROVE  DOMAIN run' = DOMAIN run /\ \A k \in DOMAIN run : RowStep(k)
  <2> DEFINE c == job[Worker(o)].key
  <2>0. c \in DOMAIN run /\ (run' = run \/ Requeued(o, c) \/ Failed(o, c))
    BY <1>4, FailStep
  <2> HIDE DEF c
  <2>1. CASE run' = run BY <2>1 DEF RowStep
  <2>2. CASE Requeued(o, c) \/ Failed(o, c)
    <3>1. run[c] \in RunRows BY <1>0, <2>0, RunRowType
    <3>2. run[c].status = "running" /\ run[c].result = "none" /\ ~run[c].cancel
      BY <2>2 DEF Requeued, Failed, Fenced
    <3>3. RowStep(c)
      BY <2>0, <2>2, <3>1, <3>2 DEF Requeued, Failed, RunRows, RowStep
    <3>4. /\ DOMAIN run' = DOMAIN run
          /\ \A k \in DOMAIN run : k # c => run'[k] = run[k]
      BY <2>2 DEF Requeued, Failed
    <3> QED BY <3>3, <3>4 DEF RowStep
  <2> QED BY <2>0, <2>1, <2>2
<1> QED BY <1>1, <1>2, <1>3, <1>4, TameStep, ClaimStep DEF Wild

\* A run that has ended keeps its status and a saved result is never replaced,
\* by whichever late worker, new leader or user.
THEOREM EndedStaysAlways == Spec => EndedStays
<1>1. ASSUME TypeOK, [Next]_vars
      PROVE  \A k \in DOMAIN run :
               /\ k \in DOMAIN run'
               /\ run[k].status \in Ended => run'[k].status = run[k].status
               /\ run[k].result # "none" => run'[k].result = run[k].result
  BY <1>1, RowSteps DEF RowStep, Kept, Ended
<1>2. TypeOK /\ [Next]_vars
        => [\A k \in DOMAIN run :
               /\ k \in DOMAIN run'
               /\ run[k].status \in Ended => run'[k].status = run[k].status
               /\ run[k].result # "none" => run'[k].result = run[k].result]_vars
  BY <1>1
<1> QED BY <1>2, TypeCorrect, PTL DEF Spec, EndedStays

\* The strengthening of CancelIsSilent: a failed run is closed, so that no later
\* stop reaches it.
FailedIsClosed ==
  \A k \in DOMAIN run :
    run[k].result \in Categories => run[k].status \in Ended /\ ~run[k].cancel

\* A run that was asked to stop gives no failure notice, however late the stop
\* and however early the failure.
THEOREM CancelIsSilentAlways == Spec => []CancelIsSilent
<1>1. Init => FailedIsClosed
  BY DEF Init, StoreInit, EmptyTable, FailedIsClosed
<1>2. ASSUME TypeOK, FailedIsClosed, [Next]_vars
      PROVE  FailedIsClosed'
  <2> SUFFICES ASSUME NEW k \in DOMAIN run', run'[k].result \in Categories
               PROVE  run'[k].status \in Ended /\ ~run'[k].cancel
    BY DEF FailedIsClosed
  <2>1. k \in DOMAIN run BY <1>2, RowSteps DEF IsNew, Categories
  <2>2. RowStep(k) BY <1>2, <2>1, RowSteps
  <2>3. CASE run[k].result \in Categories
    BY <1>2, <2>1, <2>2, <2>3 DEF FailedIsClosed, RowStep, Kept, Ended, Categories
  <2>4. CASE run[k].result \notin Categories
    BY <2>2, <2>4 DEF RowStep, Kept, Ended
  <2> QED BY <2>3, <2>4
<1>3. FailedIsClosed => CancelIsSilent BY DEF FailedIsClosed, CancelIsSilent
<1>4. TypeOK /\ FailedIsClosed /\ [Next]_vars => FailedIsClosed' BY <1>2
<1> QED BY <1>1, <1>3, <1>4, TypeCorrect, PTL DEF Spec
-----------------------------------------------------------------------------
(* The two effects that cannot be taken back happen at most once: a model  *)
(* turn per run, a WeChat message per delivery.  How threads move.         *)

\* The pcs of execute() before its result, and those before bind().
Working == {"start", "check", "reply", "turn", "wait", "recheck", "save",
            "blocked", "caught", "fail"}
Early == {"start", "check", "reply"}

\* The pcs of deliver() between its two transactions.
Holding == {"send", "settle"}

Passive == Pcs \ (Working \cup Holding)

\* A thread at pc old.pc goes on, inside execute() or out of it.
GoesOn(old, new) ==
  \/ new.pc \in Passive
  \/ /\ old.pc \in Working /\ new.pc \in Working \ {"start", "turn"}
     /\ new.pc \in Early => old.pc \in Early
     /\ new.key = old.key

Moves(th) == job'[th] = job[th] \/ GoesOn(job[th], job'[th])

LEMMA OneMoves ==
  ASSUME TypeOK, NEW x \in Threads, NEW j, GoesOn(job[x], j),
         job' = [job EXCEPT ![x] = j], NEW th \in Threads
  PROVE  Moves(th)
  BY DEF TypeOK, JobsOK, Moves

LEMMA LeaveMoves ==
  ASSUME TypeOK, NEW x \in Threads, Leave(x), NEW th \in Threads
  PROVE  Moves(th)
<1>1. GoesOn(job[x], IdleJob)
  BY DEF GoesOn, IdleJob, Passive, Pcs, Working, Holding
<1> QED BY <1>1, OneMoves DEF Leave

LEMMA GotoMoves ==
  ASSUME TypeOK, NEW x \in Threads, NEW pc, Goto(x, pc), NEW th \in Threads,
         \/ pc \in Passive
         \/ /\ job[x].pc \in Working /\ pc \in Working \ {"start", "turn"}
            /\ pc \in Early => job[x].pc \in Early
  PROVE  Moves(th)
<1> DEFINE j == [job[x] EXCEPT !.pc = pc]
<1>1. job[x] \in Jobs BY Current
<1>2. GoesOn(job[x], j)
  BY <1>1 DEF GoesOn, Jobs
<1>3. job' = [job EXCEPT ![x] = j] BY DEF Goto
<1> HIDE DEF j
<1> QED BY <1>2, <1>3, OneMoves

LEMMA ThrowMoves ==
  ASSUME TypeOK, NEW x \in Threads, NEW exc, Throw(x, exc), NEW th \in Threads,
         job[x].pc \in Working
  PROVE  Moves(th)
<1> DEFINE j == [job[x] EXCEPT !.pc = "caught", !.exc = exc]
<1>1. job[x] \in Jobs BY Current
<1>2. GoesOn(job[x], j)
  BY <1>1 DEF GoesOn, Jobs, Working, Early
<1>3. job' = [job EXCEPT ![x] = j] BY DEF Throw
<1> HIDE DEF j
<1> QED BY <1>2, <1>3, OneMoves

LEMMA DeliverMoves ==
  ASSUME TypeOK, NEW x \in Threads, DeliverRun(x) \/ DeliverSettle(x),
         NEW th \in Threads
  PROVE  Moves(th)
<1>1. job[x] \in Jobs BY Current
<1>2. {"cancel", "finish", "reserve"} \subseteq Passive
  BY DEF Passive, Pcs, Working, Holding
<1>3. ASSUME NEW todo,
             job' = [job EXCEPT ![x] = [@ EXCEPT !.pc = "reserve", !.todo = todo]]
      PROVE  Moves(th)
  <2> DEFINE j == [job[x] EXCEPT !.pc = "reserve", !.todo = todo]
  <2>1. GoesOn(job[x], j) BY <1>1, <1>2 DEF GoesOn, Jobs
  <2>2. job' = [job EXCEPT ![x] = j] BY <1>3
  <2> HIDE DEF j
  <2> QED BY <2>1, <2>2, OneMoves
<1>4. CASE DeliverRun(x)
  <2>1. PICK todo : job' = [job EXCEPT ![x] = [@ EXCEPT !.pc = "reserve", !.todo = todo]]
    BY <1>4 DEF DeliverRun
  <2> QED BY <1>3, <2>1
<1>5. CASE DeliverSettle(x)
  <2>1. ASSUME Leave(x) PROVE Moves(th) BY <2>1, LeaveMoves
  <2>2. ASSUME NEW pc \in Passive, Goto(x, pc) PROVE Moves(th)
    BY <2>2, GotoMoves
  <2> QED BY <1>2, <1>3, <1>5, <2>1, <2>2 DEF DeliverSettle, Delivered
<1> QED BY <1>4, <1>5

LEMMA WorkerMoves ==
  ASSUME TypeOK, NEW o \in Owners, Work(o), ~WorkReply(o),
         ~DeliverReserve(Worker(o)), ~DeliverSend(Worker(o)), NEW th \in Threads
  PROVE  Moves(th)
<1> DEFINE x == Worker(o)
<1>0. x \in Threads /\ job[x] \in Jobs BY WorkerThread, Current
<1>1. {"cancel", "deliver", "finish", "commit", "block", "reserve"} \subseteq Passive
  BY DEF Passive, Pcs, Working, Holding
<1>2. ASSUME Leave(x) PROVE Moves(th) BY <1>0, <1>2, LeaveMoves
<1>3. ASSUME NEW pc \in Passive, Goto(x, pc) PROVE Moves(th)
  BY <1>0, <1>3, GotoMoves
<1>4. ASSUME NEW exc, Throw(x, exc), job[x].pc \in Working PROVE Moves(th)
  BY <1>0, <1>4, ThrowMoves
<1>5. ASSUME NEW pc \in {"wait", "blocked", "save", "fail"}, Goto(x, pc),
             job[x].pc \in Working
      PROVE  Moves(th)
  BY <1>0, <1>5, GotoMoves DEF Working, Early
<1>6. CASE WorkStart(o)
  <2>1. Leave(x) \/ Goto(x, "check") BY <1>6 DEF WorkStart
  <2>2. job[x].pc \in Early /\ job[x].pc \in Working
    BY <1>6 DEF WorkStart, At, Early, Working
  <2>3. ASSUME Goto(x, "check") PROVE Moves(th)
    BY <1>0, <2>2, <2>3, GotoMoves DEF Working
  <2> QED BY <1>2, <2>1, <2>3
<1>7. CASE WorkCheck(o)
  <2>1. job[x].pc \in Early /\ job[x].pc \in Working
    BY <1>7 DEF WorkCheck, At, Early, Working
  <2>2. ASSUME NEW rev, job' = [job EXCEPT ![x] = [@ EXCEPT !.pc = "reply", !.rev = rev]]
        PROVE  Moves(th)
    <3> DEFINE j == [job[x] EXCEPT !.pc = "reply", !.rev = rev]
    <3>1. GoesOn(job[x], j) BY <1>0, <2>1 DEF GoesOn, Jobs, Working
    <3>2. job' = [job EXCEPT ![x] = j] BY <2>2
    <3> HIDE DEF j, x
    <3> QED BY <1>0, <3>1, <3>2, OneMoves
  <2>3. ASSUME NEW rev,
               job' = [job EXCEPT ![x] = [@ EXCEPT !.pc = "save", !.rev = rev,
                                                   !.outcome = "unchanged"]]
        PROVE  Moves(th)
    <3> DEFINE j == [job[x] EXCEPT !.pc = "save", !.rev = rev, !.outcome = "unchanged"]
    <3>1. GoesOn(job[x], j) BY <1>0, <2>1 DEF GoesOn, Jobs, Working
    <3>2. job' = [job EXCEPT ![x] = j] BY <2>3
    <3> HIDE DEF j, x
    <3> QED BY <1>0, <3>1, <3>2, OneMoves
  <2> QED BY <1>1, <1>3, <1>4, <1>7, <2>1, <2>2, <2>3 DEF WorkCheck
<1>8. CASE WorkTurn(o)
  <2>1. job[x].pc \in Working BY <1>8 DEF WorkTurn, At, Working
  <2> QED BY <1>4, <1>5, <1>8, <2>1 DEF WorkTurn
<1>9. CASE WorkAnswer(o)
  <2>1. job[x].pc \in Working BY <1>9 DEF WorkAnswer, At, Working
  <2>2. ASSUME NEW out, NEW seen,
               job' = [job EXCEPT ![x] =
                         [@ EXCEPT !.pc = "recheck", !.outcome = out,
                                   !.observed = seen, !.inferred = TRUE]]
        PROVE  Moves(th)
    <3> DEFINE j == [job[x] EXCEPT !.pc = "recheck", !.outcome = out,
                                   !.observed = seen, !.inferred = TRUE]
    <3>1. GoesOn(job[x], j) BY <1>0, <2>1 DEF GoesOn, Jobs, Working, Early
    <3>2. job' = [job EXCEPT ![x] = j] BY <2>2
    <3> HIDE DEF j, x
    <3> QED BY <1>0, <3>1, <3>2, OneMoves
  <2> QED BY <1>4, <1>9, <2>1, <2>2 DEF WorkAnswer
<1>10. CASE WorkRecheck(o)
  <2>1. job[x].pc \in Working BY <1>10 DEF WorkRecheck, At, Working
  <2> QED BY <1>1, <1>3, <1>4, <1>5, <1>10, <2>1 DEF WorkRecheck
<1>11. CASE WorkSave(o)
  <2>1. job[x].pc \in Working BY <1>11 DEF WorkSave, At, Working
  <2>2. ASSUME job' = [job EXCEPT ![x] =
                         [@ EXCEPT !.pc = "deliver", !.checked = TRUE,
                                   !.status = job[x].outcome]]
        PROVE  Moves(th)
    <3> DEFINE j == [job[x] EXCEPT !.pc = "deliver", !.checked = TRUE,
                                   !.status = job[x].outcome]
    <3>1. GoesOn(job[x], j) BY <1>0, <1>1 DEF GoesOn, Jobs
    <3>2. job' = [job EXCEPT ![x] = j] BY <2>2
    <3> HIDE DEF j, x
    <3> QED BY <1>0, <3>1, <3>2, OneMoves
  <2> QED BY <1>1, <1>2, <1>3, <1>4, <1>11, <2>1, <2>2 DEF WorkSave
<1>12. CASE WorkCaught(o)
  <2>1. job[x].pc \in Working BY <1>12 DEF WorkCaught, At, Working
  <2>2. Goto(x, "cancel") \/ Goto(x, "fail") BY <1>12 DEF WorkCaught, Goto
  <2> QED BY <1>1, <1>3, <1>5, <2>1, <2>2
<1>13. CASE WorkFail(o) \/ WorkBlocked(o) \/ WorkFinish(o)
  BY <1>1, <1>2, <1>3, <1>13 DEF WorkFail, WorkBlocked, WorkFinish
<1>14. CASE WorkReview(o)
  <2>1. ASSUME NEW at, job' = [job EXCEPT ![x] = [@ EXCEPT !.pc = "commit", !.at = at]]
        PROVE  Moves(th)
    <3> DEFINE j == [job[x] EXCEPT !.pc = "commit", !.at = at]
    <3>1. GoesOn(job[x], j) BY <1>0, <1>1 DEF GoesOn, Jobs
    <3>2. job' = [job EXCEPT ![x] = j] BY <2>1
    <3> HIDE DEF j, x
    <3> QED BY <1>0, <3>1, <3>2, OneMoves
  <2> QED BY <1>1, <1>2, <1>3, <1>14, <2>1 DEF WorkReview
<1>15. CASE WorkCommit(o) \/ WorkBlock(o)
  BY <1>1, <1>2, <1>3, <1>15 DEF WorkCommit, WorkBlock
<1>16. CASE DeliverRun(x) \/ DeliverSettle(x)
  BY <1>0, <1>16, DeliverMoves
<1> HIDE DEF x
<1> QED BY <1>6, <1>7, <1>8, <1>9, <1>10, <1>11, <1>12, <1>13, <1>14, <1>15, <1>16
        DEF Work, Deliver, x

\* Every step moves each thread this way, but those that claim, bind, reserve
\* and send.
LEMMA JobMoves ==
  ASSUME TypeOK, [Next]_vars, NEW th \in Threads
  PROVE  \/ Moves(th)
         \/ \E o \in Owners : TickClaim(o) \/ WorkReply(o)
         \/ \E x \in Threads : DeliverReserve(x) \/ DeliverSend(x)
<1>1. ASSUME job' = job PROVE Moves(th) BY <1>1 DEF Moves
<1>2. CASE UNCHANGED vars \/ Advance \/ UserSwitch \/ \E t \in Tasks : UserTask(t)
  BY <1>1, <1>2 DEF vars, Advance, UserSwitch, UserTask, procVars
<1>3. {"review", "handed", "deliver"} \subseteq Passive
  BY DEF Passive, Pcs, Working, Holding
<1>4. ASSUME NEW o \in Owners,
             \/ Start(o) \/ Stop(o) \/ DropFuture(o) \/ Crash(o) \/ UserRedeliver(o)
             \/ Tick(o) \/ Work(o) \/ Deliver(Web(o))
      PROVE  \/ Moves(th) \/ TickClaim(o) \/ WorkReply(o)
             \/ \E x \in Threads : DeliverReserve(x) \/ DeliverSend(x)
  <2>0. Worker(o) \in Threads /\ Web(o) \in Threads BY WorkerThread
  <2>9. IdleJob \in Jobs BY IdleOK DEF JobOK
  <2>1. CASE Start(o) \/ Stop(o) \/ TickLease(o) \/ TickAdmit(o)
    BY <1>1, <2>1 DEF Start, Stop, TickLease, TickAdmit
  <2>2. CASE DropFuture(o)
    BY <2>0, <2>2, LeaveMoves DEF DropFuture
  <2>3. CASE Crash(o)
    BY <2>3 DEF Crash, Moves, GoesOn, IdleJob, Passive, Pcs, Working, Holding
  <2>4. CASE TickResumes(o)
    <3>1. ASSUME NEW t, NEW v,
                 job' = [job EXCEPT ![Worker(o)] =
                           [IdleJob EXCEPT !.pc = "review", !.task = t, !.version = v]]
          PROVE  Moves(th)
      <4> DEFINE j == [IdleJob EXCEPT !.pc = "review", !.task = t, !.version = v]
      <4>1. GoesOn(job[Worker(o)], j) BY <1>3, <2>9 DEF GoesOn, Jobs
      <4>2. job' = [job EXCEPT ![Worker(o)] = j] BY <3>1
      <4> HIDE DEF j
      <4> QED BY <2>0, <4>1, <4>2, OneMoves
    <3> QED BY <1>1, <2>4, <3>1 DEF TickResumes
  <2>5. ASSUME NEW x \in Threads, NEW pc \in {"handed", "deliver"}, NEW k,
               job' = [job EXCEPT ![x] = [IdleJob EXCEPT !.pc = pc, !.key = k]]
        PROVE  Moves(th)
    <3> DEFINE j == [IdleJob EXCEPT !.pc = pc, !.key = k]
    <3>1. GoesOn(job[x], j) BY <1>3, <2>9 DEF GoesOn, Jobs
    <3>2. job' = [job EXCEPT ![x] = j] BY <2>5
    <3> HIDE DEF j
    <3> QED BY <3>1, <3>2, OneMoves
  <2>6. CASE TickFailures(o) \/ UserRedeliver(o)
    BY <1>1, <2>0, <2>5, <2>6 DEF TickFailures, UserRedeliver
  <2>7. CASE Work(o) BY <2>0, <2>7, WorkerMoves
  <2>8. CASE Deliver(Web(o)) BY <2>0, <2>8, DeliverMoves DEF Deliver
  <2> QED BY <1>4, <2>1, <2>2, <2>3, <2>4, <2>6, <2>7, <2>8 DEF Tick
<1> QED BY <1>2, <1>4 DEF Next
-----------------------------------------------------------------------------
(* A model turn per run.                                                   *)

\* execute() takes a thread through its stages, on one run.
Runs(th) ==
  \/ job'[th] = job[th]
  \/ job'[th].pc \notin Working
  \/ /\ job[th].pc \in Working /\ job'[th].pc \in Working \ {"start", "turn"}
     /\ job'[th].pc \in Early => job[th].pc \in Early
     /\ job'[th].key = job[th].key

LEMMA RunMoves ==
  ASSUME TypeOK, [Next]_vars, NEW th \in Threads
  PROVE  Runs(th) \/ \E o \in Owners : TickClaim(o) \/ WorkReply(o)
<1>1. ASSUME Moves(th) PROVE Runs(th)
  BY <1>1 DEF Moves, Runs, GoesOn, Passive
<1>2. ASSUME NEW x \in Threads, DeliverReserve(x) \/ DeliverSend(x)
      PROVE  Runs(th)
  <2>1. /\ job[x] \in Jobs /\ job[x].pc \notin Working
        /\ job = [y \in Threads |-> job[y]]
    BY <1>2, Current DEF DeliverReserve, DeliverSend, At, Working, TypeOK, JobsOK
  <2>2. CASE Delivered(x)
    <3>1. "finish" \in Passive BY DEF Passive, Pcs, Working, Holding
    <3> QED BY <1>1, <2>2, <3>1, LeaveMoves, GotoMoves DEF Delivered
  <2>4. CASE Goto(x, "send")
    BY <2>1, <2>4 DEF Goto, Runs, Jobs, Working
  <2>5. ASSUME NEW todo, job' = [job EXCEPT ![x] = [@ EXCEPT !.todo = todo]]
        PROVE  Runs(th)
    BY <2>1, <2>5 DEF Runs, Jobs
  <2>6. ASSUME NEW res, NEW raised, Sent(x, res, raised) PROVE Runs(th)
    BY <2>1, <2>6 DEF Sent, Runs, Jobs, Working
  <2> QED BY <1>2, <2>2, <2>4, <2>5, <2>6 DEF DeliverReserve, DeliverSend
<1> QED BY <1>1, <1>2, JobMoves

LEMMA TurnsStep ==
  ASSUME [Next]_vars
  PROVE  turns' = turns \/ \E o \in Owners : WorkTurn(o)
<1>1. CASE UNCHANGED vars \/ Advance \/ UserSwitch \/ \E t \in Tasks : UserTask(t)
  BY <1>1 DEF vars, Advance, UserSwitch, UserTask
<1>2. ASSUME NEW o \in Owners,
             Start(o) \/ Stop(o) \/ DropFuture(o) \/ Crash(o) \/ UserRedeliver(o)
      PROVE  turns' = turns
  BY <1>2 DEF Start, Stop, DropFuture, Crash, UserRedeliver
<1>3. ASSUME NEW o \in Owners, Tick(o) PROVE turns' = turns
  BY <1>3 DEF Tick, TickLease, TickAdmit, TickResumes, TickFailures, TickClaim
<1>4. ASSUME NEW th, Deliver(th) PROVE turns' = turns
  BY <1>4 DEF Deliver, DeliverRun, DeliverReserve, DeliverSend, DeliverSettle
<1>5. ASSUME NEW o \in Owners, Work(o) PROVE turns' = turns \/ WorkTurn(o)
  BY <1>4, <1>5 DEF Work, WorkStart, WorkCheck, WorkReply, WorkAnswer,
     WorkRecheck, WorkSave, WorkCaught, WorkFail, WorkBlocked, WorkFinish,
     WorkReview, WorkCommit, WorkBlock
<1> QED BY <1>1, <1>2, <1>3, <1>4, <1>5 DEF Next

\* A thread in execute() is the worker of the process its run was handed to.
WorkerOwns(th) ==
  job[th].pc \in Working =>
    /\ th[2] = "worker"
    /\ run[job[th].key].status # "queued" /\ run[job[th].key].owner = th[1]

\* Before bind() the run has no thread; between bind() and the turn it has one,
\* and no turn yet.
BoundInTime(th) ==
  /\ job[th].pc \in Early => ~run[job[th].key].thread
  /\ job[th].pc = "turn" =>
       /\ run[job[th].key].thread
       /\ \A i \in DOMAIN turns : turns[i] # job[th].key

\* A turn was bound before it started, and no such run returns to the queue.
TurnInv ==
  /\ \A i \in DOMAIN turns : run[turns[i]].thread
  /\ \A k \in DOMAIN run : run[k].status = "queued" => ~run[k].thread
  /\ \A th \in Threads : WorkerOwns(th) /\ BoundInTime(th)
  /\ TurnOnce

LEMMA TurnKeys ==
  ASSUME TypeOK
  PROVE  /\ turns \in Seq(DOMAIN run)
         /\ \A i \in DOMAIN turns : turns[i] \in DOMAIN run
         /\ \A th \in Threads : job[th].pc \in Working => job[th].key \in DOMAIN run
<1>1. turns \in Seq(DOMAIN run) BY DEF TypeOK
<1>2. \A i \in DOMAIN turns : turns[i] \in DOMAIN run BY <1>1
<1>3. ASSUME NEW th \in Threads, job[th].pc \in Working
      PROVE  job[th].key \in DOMAIN run
  BY <1>3, Current DEF Working, OnRun, OnTask, Pcs
<1> QED BY <1>1, <1>2, <1>3

\* Two threads in execute() are on different runs.
LEMMA RunsApart ==
  ASSUME TurnInv, NEW x \in Threads, NEW y \in Threads,
         job[x].pc \in Working, job[y].pc \in Working, job[x].key = job[y].key
  PROVE  x = y
<1>1. x[1] = y[1] /\ x[2] = y[2] BY DEF TurnInv, WorkerOwns
<1> QED BY <1>1 DEF Threads

LEMMA TurnStarts ==
  ASSUME TypeOK, TurnInv, NEW o \in Owners, WorkTurn(o)
  PROVE  TurnInv'
<1> DEFINE x == Worker(o)
           k == job[x].key
<1>0. /\ x \in Threads /\ job[x] \in Jobs /\ k \in DOMAIN run
      /\ job = [y \in Threads |-> job[y]] /\ job[x].pc = "turn"
  BY AtRun DEF WorkTurn, At, OnRun, OnTask, Pcs, TypeOK, JobsOK
<1>1. run' = run BY DEF WorkTurn, storeVars
<1>2. /\ job'[x].pc \in Working \ (Early \cup {"turn"}) /\ job'[x].key = k
      /\ \A y \in Threads \ {x} : job'[y] = job[y]
  BY <1>0 DEF WorkTurn, Goto, Throw, Jobs, Working, Early
<1>3. \A y \in Threads : WorkerOwns(y)'
  <2>1. WorkerOwns(x)' BY <1>0, <1>1, <1>2 DEF TurnInv, WorkerOwns, Working
  <2>2. \A y \in Threads \ {x} : WorkerOwns(y)'
    BY <1>1, <1>2 DEF TurnInv, WorkerOwns
  <2> QED BY <2>1, <2>2
<1>4. CASE turns' = turns
  <2>1. \A y \in Threads : BoundInTime(y)'
    <3>1. BoundInTime(x)' BY <1>2 DEF BoundInTime
    <3>2. \A y \in Threads \ {x} : BoundInTime(y)'
      BY <1>1, <1>2, <1>4 DEF TurnInv, BoundInTime
    <3> QED BY <3>1, <3>2
  <2> QED BY <1>1, <1>3, <1>4, <2>1 DEF TurnInv, TurnOnce
<1>5. CASE turns' = Append(turns, k)
  <2>1. /\ DOMAIN turns = 1 .. Len(turns) /\ Len(turns) \in Nat
        /\ DOMAIN turns' = 1 .. Len(turns) + 1
        /\ \A i \in DOMAIN turns : turns'[i] = turns[i]
        /\ turns'[Len(turns) + 1] = k
    BY <1>0, <1>5, TurnKeys, AppendProperties
  <2>2. run[k].thread /\ \A i \in DOMAIN turns : turns[i] # k
    BY <1>0 DEF TurnInv, BoundInTime
  <2>3. \A i \in DOMAIN turns' : run'[turns'[i]].thread
    BY <1>1, <2>1, <2>2 DEF TurnInv
  <2>4. TurnOnce'
    BY <2>1, <2>2 DEF TurnInv, TurnOnce
  <2>5. ASSUME NEW y \in Threads \ {x} PROVE BoundInTime(y)'
    <3>1. job[y].pc = "turn" => job[y].key # k
      BY <1>0, RunsApart DEF Working
    <3> QED BY <1>1, <1>2, <2>1, <3>1 DEF TurnInv, BoundInTime
  <2>6. BoundInTime(x)' BY <1>2 DEF BoundInTime
  <2>7. \A j \in DOMAIN run' : run'[j].status = "queued" => ~run'[j].thread
    BY <1>1 DEF TurnInv
  <2> QED BY <1>3, <2>3, <2>4, <2>5, <2>6, <2>7 DEF TurnInv
<1> QED BY <1>4, <1>5 DEF WorkTurn

\* The steps that start no turn: what they do to the row of each run that a
\* thread is on, and to the thread, keeps the invariant.
LEMMA TurnRest ==
  ASSUME TypeOK, TurnInv, turns' = turns,
         \A i \in DOMAIN turns : run'[turns[i]].thread,
         \A k \in DOMAIN run' : run'[k].status = "queued" => ~run'[k].thread,
         \A th \in Threads : WorkerOwns(th)' /\ BoundInTime(th)'
  PROVE  TurnInv'
  BY DEF TurnInv, TurnOnce

LEMMA TurnTame ==
  ASSUME TypeOK, TurnInv, turns' = turns, Tame, \A th \in Threads : Runs(th)
  PROVE  TurnInv'
<1>1. \A i \in DOMAIN turns : run'[turns[i]].thread
  BY TurnKeys DEF TurnInv, Tame, Kept
<1>2. \A k \in DOMAIN run' : run'[k].status = "queued" => ~run'[k].thread
  BY DEF TurnInv, Tame, Kept, IsNew, Ended
<1>3. ASSUME NEW th \in Threads, job'[th].pc \in Working
      PROVE  /\ job[th].pc \in Working /\ job'[th].key = job[th].key
             /\ Kept(run[job[th].key], run'[job[th].key])
             /\ job'[th].pc \in Early => job[th].pc \in Early
             /\ job'[th].pc = "turn" => job[th].pc = "turn"
  <2>1. /\ job[th].pc \in Working /\ job'[th].key = job[th].key
        /\ job'[th].pc \in Early => job[th].pc \in Early
        /\ job'[th].pc = "turn" => job[th].pc = "turn"
    BY <1>3 DEF Runs
  <2> QED BY <2>1, TurnKeys DEF Tame
<1>4. ASSUME NEW th \in Threads PROVE WorkerOwns(th)'
  BY <1>3 DEF TurnInv, WorkerOwns, Kept, Ended
<1>5. ASSUME NEW th \in Threads PROVE BoundInTime(th)'
  <2>1. Early \subseteq Working /\ "turn" \in Working BY DEF Early, Working
  <2> QED BY <1>3, <2>1 DEF TurnInv, BoundInTime, Kept
<1> QED BY <1>1, <1>2, <1>4, <1>5, TurnRest

LEMMA TurnClaimed ==
  ASSUME TypeOK, TurnInv, turns' = turns, NEW o \in Owners, NEW c \in DOMAIN run,
         Claimed(o, c), DOMAIN run' = DOMAIN run,
         \A k \in DOMAIN run : k # c => Kept(run[k], run'[k])
  PROVE  TurnInv'
<1> DEFINE x == Worker(o)
           j == [IdleJob EXCEPT !.pc = "start", !.key = c]
<1>0. /\ x \in Threads /\ job = [y \in Threads |-> job[y]] /\ run[c] \in RunRows
      /\ x[1] = o /\ x[2] = "worker" /\ IdleJob \in Jobs
  BY WorkerThread, RunRowType, IdleOK DEF TypeOK, JobsOK, JobOK, Worker
<1>1. j.pc = "start" /\ j.key = c BY <1>0 DEF Jobs
<1>2. job'[x] = j /\ \A y \in Threads \ {x} : job'[y] = job[y]
  BY <1>0 DEF Claimed
<1>3. /\ run'[c].status = "running" /\ run'[c].owner = o
      /\ run'[c].thread = run[c].thread /\ ~run[c].thread
  BY <1>0 DEF Claimed, RunRows, TurnInv
<1> HIDE DEF j, x
<1>4. \A i \in DOMAIN turns : run'[turns[i]].thread
  BY <1>3, TurnKeys DEF TurnInv, Kept
<1>5. \A k \in DOMAIN run' : run'[k].status = "queued" => ~run'[k].thread
  BY <1>3 DEF TurnInv, Kept, Ended
<1>6. WorkerOwns(x)' /\ BoundInTime(x)'
  BY <1>0, <1>1, <1>2, <1>3 DEF WorkerOwns, BoundInTime
<1>7. ASSUME NEW y \in Threads \ {x} PROVE WorkerOwns(y)' /\ BoundInTime(y)'
  <2>1. Early \subseteq Working /\ "turn" \in Working BY DEF Early, Working
  <2>2. ASSUME job[y].pc \in Working PROVE Kept(run[job[y].key], run'[job[y].key])
    BY <2>2, TurnKeys DEF Claimed, TurnInv, WorkerOwns
  <2>3. WorkerOwns(y)'
    BY <1>2, <2>2 DEF TurnInv, WorkerOwns, Kept, Ended
  <2>4. BoundInTime(y)'
    BY <1>2, <2>1, <2>2 DEF TurnInv, BoundInTime, Kept
  <2> QED BY <2>3, <2>4
<1> QED BY <1>4, <1>5, <1>6, <1>7, TurnRest

\* A step of the worker x that leaves the other rows alone leaves the other
\* threads' part of the invariant alone.
LEMMA TurnOthers ==
  ASSUME TypeOK, TurnInv, turns' = turns, NEW x \in Threads, job[x].pc \in Working,
         \A k \in DOMAIN run : k # job[x].key => run'[k] = run[k],
         \A y \in Threads \ {x} : job'[y] = job[y],
         NEW y \in Threads \ {x}
  PROVE  WorkerOwns(y)' /\ BoundInTime(y)'
<1>1. Early \subseteq Working /\ "turn" \in Working BY DEF Early, Working
<1>2. job[y].pc \in Working => run'[job[y].key] = run[job[y].key]
  BY TurnKeys, RunsApart
<1> QED BY <1>1, <1>2 DEF TurnInv, WorkerOwns, BoundInTime

LEMMA TurnBinds ==
  ASSUME TypeOK, TurnInv, turns' = turns, NEW o \in Owners, WorkReply(o)
  PROVE  TurnInv'
<1> DEFINE x == Worker(o)
           k == job[x].key
<1>0. /\ x \in Threads /\ job[x] \in Jobs /\ k \in DOMAIN run /\ run[k] \in RunRows
      /\ job = [y \in Threads |-> job[y]] /\ job[x].pc = "reply"
  BY AtRun, RunRowType DEF WorkReply, At, OnRun, OnTask, Pcs, TypeOK, JobsOK
<1>1. CASE run' = run /\ \E exc \in Errors : Throw(x, exc)
  <2>1. \A th \in Threads : Runs(th)
    BY <1>0, <1>1 DEF Throw, Runs, Jobs, Working, Early
  <2> QED BY <1>1, <2>1, SameRuns, TurnTame
<1>2. CASE Goto(x, "turn") /\ run' = [run EXCEPT ![k].thread = TRUE]
  <2>1. /\ job'[x].pc = "turn" /\ job'[x].key = k
        /\ \A y \in Threads \ {x} : job'[y] = job[y]
    BY <1>0, <1>2 DEF Goto, Jobs
  <2>2. /\ DOMAIN run' = DOMAIN run /\ run'[k].thread
        /\ run'[k].status = run[k].status /\ run'[k].owner = run[k].owner
        /\ \A i \in DOMAIN run : i # k => run'[i] = run[i]
    BY <1>0, <1>2 DEF RunRows
  <2>3. /\ run[k].status # "queued" /\ run[k].owner = x[1] /\ x[2] = "worker"
        /\ ~run[k].thread
    BY <1>0 DEF TurnInv, WorkerOwns, BoundInTime, Working, Early
  <2>4. \A i \in DOMAIN turns : run'[turns[i]].thread /\ turns[i] # k
    BY <2>2, <2>3, TurnKeys DEF TurnInv
  <2>5. \A i \in DOMAIN run' : run'[i].status = "queued" => ~run'[i].thread
    BY <2>2, <2>3 DEF TurnInv
  <2>6. WorkerOwns(x)' /\ BoundInTime(x)'
    BY <2>1, <2>2, <2>3, <2>4 DEF WorkerOwns, BoundInTime, Early
  <2>7. ASSUME NEW y \in Threads \ {x} PROVE WorkerOwns(y)' /\ BoundInTime(y)'
    <3>1. job[x].pc \in Working BY <1>0 DEF Working
    <3> HIDE DEF x
    <3> QED BY <1>0, <2>1, <2>2, <3>1, TurnOthers
  <2> HIDE DEF x, k
  <2> QED BY <2>4, <2>5, <2>6, <2>7, TurnRest
<1> QED BY <1>1, <1>2, ReplyStep

LEMMA TurnFails ==
  ASSUME TypeOK, TurnInv, turns' = turns, NEW o \in Owners,
         WorkFail(o) \/ WorkBlocked(o)
  PROVE  TurnInv'
<1> DEFINE x == Worker(o)
           k == job[x].key
<1>0. /\ x \in Threads /\ job[x] \in Jobs /\ k \in DOMAIN run /\ run[k] \in RunRows
      /\ job = [y \in Threads |-> job[y]] /\ job[x].pc \in Working
  BY AtRun, RunRowType DEF WorkFail, WorkBlocked, At, OnRun, OnTask, Pcs, TypeOK,
     JobsOK, Working
<1>1. job'[x].pc \notin Working /\ \A y \in Threads \ {x} : job'[y] = job[y]
  <2>1. CASE Leave(x) BY <1>0, <2>1 DEF Leave, IdleJob, Working
  <2>2. CASE Goto(x, "deliver") BY <1>0, <2>2 DEF Goto, Jobs, Working
  <2> QED BY <2>1, <2>2 DEF WorkFail, WorkBlocked
<1>2. WorkerOwns(x)' /\ BoundInTime(x)'
  BY <1>1 DEF WorkerOwns, BoundInTime, Working, Early
<1>3. run' = run \/ Requeued(o, k) \/ Failed(o, k) BY FailStep
<1> HIDE DEF x, k
<1>4. /\ DOMAIN run' = DOMAIN run
      /\ \A i \in DOMAIN run : i # k => run'[i] = run[i]
      /\ run'[k].thread = run[k].thread
      /\ run'[k].status = "queued" => ~run'[k].thread
  <2>1. CASE run' = run BY <1>0, <2>1 DEF TurnInv
  <2>2. CASE Requeued(o, k) BY <1>0, <2>2 DEF Requeued, RunRows
  <2>3. CASE Failed(o, k)
    <3>1. PICK status \in {"blocked", "failed"} : \E category, attempts :
            run' = [run EXCEPT ![k] =
                      [run[k] EXCEPT !.status = status, !.result = category,
                                     !.attempts = attempts]]
      BY <2>3 DEF Failed
    <3>2. PICK category, attempts :
            run' = [run EXCEPT ![k] =
                      [run[k] EXCEPT !.status = status, !.result = category,
                                     !.attempts = attempts]]
      BY <3>1
    <3> DEFINE row == [run[k] EXCEPT !.status = status, !.result = category,
                                     !.attempts = attempts]
    <3>3. row.status # "queued" /\ row.thread = run[k].thread
      BY <1>0 DEF RunRows
    <3>4. run' = [run EXCEPT ![k] = row] BY <3>2
    <3> HIDE DEF row
    <3> QED BY <1>0, <3>3, <3>4
  <2> QED BY <1>3, <2>1, <2>2, <2>3
<1>5. \A i \in DOMAIN turns : run'[turns[i]].thread
  BY <1>4, TurnKeys DEF TurnInv
<1>6. \A i \in DOMAIN run' : run'[i].status = "queued" => ~run'[i].thread
  BY <1>4 DEF TurnInv
<1>7. ASSUME NEW y \in Threads \ {x} PROVE WorkerOwns(y)' /\ BoundInTime(y)'
  BY <1>0, <1>1, <1>4, TurnOthers DEF k
<1> QED BY <1>2, <1>5, <1>6, <1>7, TurnRest

LEMMA TurnStep ==
  ASSUME TypeOK, TurnInv, [Next]_vars
  PROVE  TurnInv'
<1>1. CASE \E o \in Owners : WorkTurn(o) BY <1>1, TurnStarts
<1>2. CASE turns' = turns
  <2>1. CASE \E o \in Owners : TickClaim(o)
    <3>1. CASE Tame /\ job' = job BY <1>2, <3>1, TurnTame DEF Runs
    <3> QED BY <1>2, <2>1, <3>1, ClaimStep, TurnClaimed
  <2>2. CASE \E o \in Owners : WorkReply(o) BY <1>2, <2>2, TurnBinds
  <2>3. CASE \E o \in Owners : WorkFail(o) \/ WorkBlocked(o)
    BY <1>2, <2>3, TurnFails
  <2>4. CASE \A o \in Owners : ~Wild(o)
    BY <1>2, <2>4, TameStep, RunMoves, TurnTame DEF Wild
  <2> QED BY <2>1, <2>2, <2>3, <2>4 DEF Wild
<1> QED BY <1>1, <1>2, TurnsStep

\* A run starts a model turn at most once, whatever fails, is retried, crashes
\* or loses the lease: bind() records the run's thread before turn/start, and
\* fail_or_retry never puts a bound run back in the queue.
THEOREM TurnOnceAlways == Spec => []TurnOnce
<1>1. Init => TurnInv
  BY DEF Init, StoreInit, EmptyTable, IdleJob, TurnInv, TurnOnce, WorkerOwns,
         BoundInTime, Working, Early
<1>2. TypeOK /\ TurnInv /\ [Next]_vars => TurnInv' BY TurnStep
<1>3. TurnInv => TurnOnce BY DEF TurnInv
<1> QED BY <1>1, <1>2, <1>3, TypeCorrect, PTL DEF Spec
-----------------------------------------------------------------------------
(* A message per delivery.                                                 *)

\* A thread stays between the two transactions of deliver() with its delivery,
\* or leaves; only reserving and sending do more.
Holds(th) == job'[th] = job[th] \/ job'[th].pc \notin Holding

LEMMA HoldMoves ==
  ASSUME TypeOK, [Next]_vars, NEW th \in Threads
  PROVE  Holds(th) \/ \E x \in Threads : DeliverReserve(x) \/ DeliverSend(x)
<1>1. ASSUME Moves(th) PROVE Holds(th)
  BY <1>1 DEF Moves, Holds, GoesOn, Passive, Working, Holding
<1>2. ASSUME NEW o \in Owners, TickClaim(o) PROVE Holds(th)
  <2> DEFINE x == Worker(o)
  <2>1. x \in Threads /\ IdleJob \in Jobs /\ job = [y \in Threads |-> job[y]]
    BY WorkerThread, IdleOK DEF JobOK, TypeOK, JobsOK
  <2>2. ASSUME NEW c, Claimed(o, c) PROVE Holds(th)
    <3> DEFINE j == [IdleJob EXCEPT !.pc = "start", !.key = c]
    <3>1. j.pc \notin Holding BY <2>1 DEF Jobs, Holding
    <3>2. job' = [job EXCEPT ![x] = j] BY <2>2 DEF Claimed
    <3> HIDE DEF j, x
    <3> QED BY <2>1, <3>1, <3>2 DEF Holds
  <2>3. CASE job' = job BY <2>3 DEF Holds
  <2> QED BY <1>2, <2>2, <2>3, ClaimStep
<1>3. ASSUME NEW o \in Owners, WorkReply(o) PROVE Holds(th)
  <2>1. /\ Worker(o) \in Threads /\ job[Worker(o)] \in Jobs
        /\ job = [y \in Threads |-> job[y]]
    BY WorkerThread, Current DEF TypeOK, JobsOK
  <2> QED BY <1>3, <2>1, ReplyStep DEF Throw, Goto, Jobs, Holds, Holding
<1> QED BY <1>1, <1>2, <1>3, JobMoves

\* Rows of scheduled_deliveries stay, but that a new leader takes those in
\* flight for unknown.
DlvKept ==
  \A d \in DOMAIN dlv :
    /\ d \in DOMAIN dlv'
    /\ \/ dlv'[d].status = dlv[d].status
       \/ dlv[d].status = "sending" /\ dlv'[d].status = "unknown"

LEMMA DlvStep ==
  ASSUME TypeOK, [Next]_vars
  PROVE  DlvKept \/ \E x \in Threads : DeliverReserve(x) \/ DeliverSettle(x)
<1>1. ASSUME dlv' = dlv PROVE DlvKept BY <1>1 DEF DlvKept
<1>2. ASSUME NEW g, dlv' = OrIgnore(dlv, g) PROVE DlvKept
  BY <1>2 DEF DlvKept, OrIgnore
<1>3. CASE UNCHANGED vars \/ Advance \/ UserSwitch
  BY <1>1, <1>3 DEF vars, Advance, UserSwitch, SetEnabled, SetChatEnabled, storeVars
<1>4. ASSUME NEW t \in Tasks, UserTask(t) PROVE dlv' = dlv
  BY <1>4 DEF UserTask, Create, Update, Pause, Resume, ResumeAs, Delete, RunNow,
              StopRun, ChangeNext, ClearNextChange
<1>5. ASSUME NEW o \in Owners,
             Start(o) \/ Stop(o) \/ DropFuture(o) \/ Crash(o) \/ UserRedeliver(o)
      PROVE  dlv' = dlv
  BY <1>5 DEF Start, Stop, DropFuture, Crash, UserRedeliver, storeVars
<1>6. ASSUME NEW o \in Owners, Lease(o) PROVE DlvKept
  <2>1. CASE dlv' = dlv BY <1>1, <2>1
  <2>2. CASE dlv' = [d \in DOMAIN dlv |->
                       IF dlv[d].status = "sending"
                       THEN [dlv[d] EXCEPT !.status = "unknown"] ELSE dlv[d]]
    <3>1. ASSUME NEW d \in DOMAIN dlv PROVE dlv[d] \in DlvRows
      BY DEF TypeOK, StoreOK, IsDlvTable
    <3> QED BY <2>2, <3>1 DEF DlvKept, DlvRows
  <2> QED BY <1>6, <2>1, <2>2 DEF Lease
<1>7. ASSUME NEW o \in Owners, Tick(o) PROVE DlvKept
  <2>1. CASE TickLease(o) BY <1>6, <2>1 DEF TickLease
  <2> QED BY <1>1, <1>7, <2>1 DEF Tick, TickAdmit, AdmitDue, TickResumes,
              TickFailures, TickClaim, Claim, ClaimNothing, storeVars
<1>8. ASSUME NEW th, Deliver(th) PROVE DlvKept \/ DeliverReserve(th) \/ DeliverSettle(th)
  BY <1>1, <1>8 DEF Deliver, DeliverRun, DeliverSend, storeVars
<1>9. ASSUME NEW o \in Owners,
             \/ WorkStart(o) \/ WorkCheck(o) \/ WorkReply(o) \/ WorkTurn(o)
             \/ WorkAnswer(o) \/ WorkRecheck(o) \/ WorkCaught(o) \/ WorkFinish(o)
             \/ WorkReview(o) \/ WorkCommit(o) \/ WorkBlock(o)
      PROVE  dlv' = dlv
  BY <1>9 DEF WorkStart, Finish, WorkCheck, WorkReply, Bind, WorkTurn,
              WorkAnswer, WorkRecheck, WorkCaught, WorkFinish, WorkReview,
              WorkCommit, AutoResume, ResumeAs, WorkBlock, BlockResume, storeVars
<1>10. ASSUME NEW o \in Owners, WorkSave(o) PROVE DlvKept
  BY <1>1, <1>2, <1>10 DEF WorkSave, SaveReport, SaveRoleBlock, SaveObservation,
                           storeVars
<1>11. ASSUME NEW o \in Owners, WorkFail(o) \/ WorkBlocked(o) PROVE DlvKept
  <2>1. ASSUME NEW k, NEW category, NEW transient, NEW status,
               FailOrRetry(o, k, category, transient, status)
        PROVE  DlvKept
    BY <1>1, <1>2, <2>1 DEF FailOrRetry
  <2> QED BY <1>11, <2>1 DEF WorkFail, WorkBlocked
<1>12. ASSUME NEW o \in Owners, Work(o)
       PROVE  DlvKept \/ DeliverReserve(Worker(o)) \/ DeliverSettle(Worker(o))
  BY <1>1, <1>8, <1>9, <1>10, <1>11, <1>12 DEF Work
<1> QED BY <1>1, <1>3, <1>4, <1>5, <1>7, <1>8, <1>12, WorkerThread DEF Next

LEMMA WechatStep ==
  ASSUME [Next]_vars
  PROVE  wechat' = wechat \/ \E x \in Threads : DeliverSend(x)
<1>1. CASE UNCHANGED vars \/ Advance \/ UserSwitch \/ \E t \in Tasks : UserTask(t)
  BY <1>1 DEF vars, Advance, UserSwitch, UserTask
<1>2. ASSUME NEW o \in Owners,
             Start(o) \/ Stop(o) \/ DropFuture(o) \/ Crash(o) \/ UserRedeliver(o)
      PROVE  wechat' = wechat
  BY <1>2 DEF Start, Stop, DropFuture, Crash, UserRedeliver
<1>3. ASSUME NEW o \in Owners, Tick(o) PROVE wechat' = wechat
  BY <1>3 DEF Tick, TickLease, TickAdmit, TickResumes, TickFailures, TickClaim
<1>4. ASSUME NEW th, Deliver(th) PROVE wechat' = wechat \/ DeliverSend(th)
  BY <1>4 DEF Deliver, DeliverRun, DeliverReserve, DeliverSettle
<1>5. ASSUME NEW o \in Owners, Work(o)
      PROVE  wechat' = wechat \/ DeliverSend(Worker(o))
  BY <1>4, <1>5 DEF Work, WorkStart, WorkCheck, WorkReply, WorkTurn, WorkAnswer,
     WorkRecheck, WorkSave, WorkCaught, WorkFail, WorkBlocked, WorkFinish,
     WorkReview, WorkCommit, WorkBlock
<1> QED BY <1>1, <1>2, <1>3, <1>4, <1>5, WorkerThread DEF Next

\* Between the transactions of deliver(): nobody else has the delivery, its row
\* is reserved, and WeChat has it at most since the send.
Reserved(th) ==
  job[th].pc \in Holding => dlv[NextPart(th)].status \in {"sending", "unknown"}

NotYetSent(th) ==
  job[th].pc = "send" \/ (job[th].pc = "settle" /\ job[th].res = "failed") =>
    \A i \in DOMAIN wechat : wechat[i] # NextPart(th)

HeldByOne ==
  \A x, y \in Threads :
    /\ job[x].pc \in Holding /\ job[y].pc \in Holding
    /\ NextPart(x) = NextPart(y)
    => x = y

\* What WeChat was given is never offered to a thread again.
Withdrawn ==
  \A i \in DOMAIN wechat : dlv[wechat[i]].status \in {"sending", "sent", "unknown"}

SentInv ==
  /\ HeldByOne /\ Withdrawn /\ SentOnce
  /\ \A th \in Threads : Reserved(th) /\ NotYetSent(th)

LEMMA HeldKeys ==
  ASSUME TypeOK
  PROVE  /\ wechat \in Seq(DOMAIN dlv)
         /\ \A i \in DOMAIN wechat : wechat[i] \in DOMAIN dlv
         /\ \A th \in Threads : job[th].pc \in Holding => NextPart(th) \in DOMAIN dlv
<1>1. wechat \in Seq(DOMAIN dlv) BY DEF TypeOK
<1>2. \A i \in DOMAIN wechat : wechat[i] \in DOMAIN dlv BY <1>1
<1>3. ASSUME NEW th \in Threads, job[th].pc \in Holding
      PROVE  NextPart(th) \in DOMAIN dlv
  <2>1. JobOK(job[th], DOMAIN run, DOMAIN dlv) /\ job[th] \in Jobs
    BY Current
  <2>2. job[th].todo # {} /\ job[th].todo \subseteq 1 .. 2
    BY <1>3, <2>1 DEF JobOK, Jobs, Holding
  <2>3. (IF 1 \in job[th].todo THEN 1 ELSE 2) \in job[th].todo BY <2>2
  <2> QED BY <2>1, <2>3 DEF JobOK, NextPart
<1> QED BY <1>1, <1>2, <1>3

LEMMA SentTame ==
  ASSUME TypeOK, SentInv, DlvKept, wechat' = wechat, \A th \in Threads : Holds(th)
  PROVE  SentInv'
<1>1. ASSUME NEW th \in Threads, job'[th].pc \in Holding
      PROVE  /\ job'[th] = job[th] /\ NextPart(th)' = NextPart(th)
             /\ NextPart(th) \in DOMAIN dlv
  <2>1. job'[th] = job[th] BY <1>1 DEF Holds
  <2> QED BY <1>1, <2>1, HeldKeys DEF NextPart
<1>2. HeldByOne'
  BY <1>1 DEF SentInv, HeldByOne
<1>3. Withdrawn' /\ SentOnce'
  BY HeldKeys DEF SentInv, Withdrawn, SentOnce, DlvKept
<1>4. ASSUME NEW th \in Threads PROVE Reserved(th)'
  BY <1>1 DEF SentInv, Reserved, DlvKept
<1>5. ASSUME NEW th \in Threads PROVE NotYetSent(th)'
  <2>1. "send" \in Holding /\ "settle" \in Holding BY DEF Holding
  <2> QED BY <1>1, <2>1 DEF SentInv, NotYetSent
<1> QED BY <1>2, <1>3, <1>4, <1>5 DEF SentInv

\* The reservation: nobody holds the delivery, and WeChat does not have it.
LEMMA SentReserve ==
  ASSUME TypeOK, SentInv, NEW x \in Threads, DeliverReserve(x)
  PROVE  SentInv'
<1> DEFINE d == NextPart(x)
<1>0. /\ job[x] \in Jobs /\ job[x].pc = "reserve"
      /\ job = [y \in Threads |-> job[y]] /\ wechat' = wechat
      /\ job[x].todo # {} => d \in DOMAIN dlv
  BY AtDelivery DEF DeliverReserve, At, OnRun, OnTask, Pcs, TypeOK, JobsOK
<1>1. CASE dlv' = dlv /\ job'[x].pc \notin Holding
           /\ \A y \in Threads \ {x} : job'[y] = job[y]
  BY <1>0, <1>1, SentTame DEF DlvKept, Holds
<1>2. CASE Delivered(x) /\ UNCHANGED storeVars
  <2>1. Leave(x) \/ Goto(x, "finish") BY <1>2 DEF Delivered
  <2>2. job'[x].pc \notin Holding /\ \A y \in Threads \ {x} : job'[y] = job[y]
    <3>1. CASE Leave(x) BY <1>0, <3>1 DEF Leave, IdleJob, Holding
    <3>2. CASE Goto(x, "finish") BY <1>0, <3>2 DEF Goto, Jobs, Holding
    <3> QED BY <2>1, <3>1, <3>2
  <2> QED BY <1>1, <1>2, <2>2 DEF storeVars
<1>3. CASE UNCHANGED storeVars /\ job' = [job EXCEPT ![x].todo = @ \ {d.part}]
  <2>1. job'[x].pc = "reserve" /\ \A y \in Threads \ {x} : job'[y] = job[y]
    <3> DEFINE todo == job[x].todo \ {d.part}
               j == [job[x] EXCEPT !.todo = todo]
    <3>1. j.pc = "reserve" BY <1>0 DEF Jobs
    <3>2. job' = [job EXCEPT ![x] = j] BY <1>3
    <3> HIDE DEF j
    <3> QED BY <1>0, <3>1, <3>2
  <2> QED BY <1>1, <1>3, <2>1 DEF storeVars, Holding
<1>4. CASE /\ job[x].todo # {} /\ MayDeliver(d, Retry(x)) /\ Reserve(d)
           /\ Goto(x, "send")
  <2>1. /\ d \in DOMAIN dlv /\ dlv[d].status \in {"pending", "failed"}
        /\ dlv[d] \in DlvRows
    BY <1>0, <1>4 DEF MayDeliver, Sendable, TypeOK, StoreOK, IsDlvTable
  <2>2. /\ DOMAIN dlv' = DOMAIN dlv /\ dlv'[d].status = "sending"
        /\ \A e \in DOMAIN dlv \ {d} : dlv'[e] = dlv[e]
    BY <1>4, <2>1 DEF Reserve, DlvRows
  <2>3. /\ job'[x].pc = "send" /\ job'[x].key = job[x].key
        /\ job'[x].todo = job[x].todo
        /\ \A y \in Threads \ {x} : job'[y] = job[y]
    BY <1>0, <1>4 DEF Goto, Jobs
  <2>4. NextPart(x)' = d /\ \A y \in Threads \ {x} : NextPart(y)' = NextPart(y)
    BY <2>3 DEF NextPart
  <2> HIDE DEF d
  <2>5. \A y \in Threads : job[y].pc \in Holding => NextPart(y) # d
    BY <2>1 DEF SentInv, Reserved
  <2>6. \A i \in DOMAIN wechat : wechat[i] # d /\ wechat[i] \in DOMAIN dlv
    BY <2>1, HeldKeys DEF SentInv, Withdrawn
  <2>7. HeldByOne'
    BY <2>3, <2>4, <2>5 DEF SentInv, HeldByOne
  <2>8. Withdrawn' /\ SentOnce'
    BY <1>0, <2>2, <2>6 DEF SentInv, Withdrawn, SentOnce
  <2>9. Reserved(x)' /\ NotYetSent(x)'
    BY <1>0, <2>2, <2>4, <2>6 DEF Reserved, NotYetSent
  <2>10. ASSUME NEW y \in Threads \ {x} PROVE Reserved(y)' /\ NotYetSent(y)'
    BY <1>0, <2>2, <2>3, <2>4, <2>5, HeldKeys DEF SentInv, Reserved, NotYetSent
  <2> QED BY <2>7, <2>8, <2>9, <2>10 DEF SentInv
<1> QED BY <1>2, <1>3, <1>4 DEF DeliverReserve

\* The send: what WeChat is given is held by the sender alone.
LEMMA SentSend ==
  ASSUME TypeOK, SentInv, NEW x \in Threads, DeliverSend(x)
  PROVE  SentInv'
<1> DEFINE d == NextPart(x)
<1>0. /\ job[x] \in Jobs /\ job[x].pc = "send" /\ job[x].pc \in Holding
      /\ job = [y \in Threads |-> job[y]] /\ dlv' = dlv /\ d \in DOMAIN dlv
  BY HeldKeys, Current DEF DeliverSend, At, TypeOK, JobsOK, storeVars, Holding
<1>1. PICK res \in {"sent", "failed", "unknown"} : \E raised \in BOOLEAN :
        /\ Sent(x, res, raised)
        /\ wechat' = wechat \/ (wechat' = Append(wechat, d) /\ res # "failed")
  BY DEF DeliverSend
<1>2. /\ job'[x].pc = "settle" /\ job'[x].key = job[x].key
      /\ job'[x].todo = job[x].todo /\ job'[x].res = res
      /\ \A y \in Threads \ {x} : job'[y] = job[y]
  <2>1. PICK raised \in BOOLEAN : Sent(x, res, raised) BY <1>1
  <2> DEFINE j == [job[x] EXCEPT !.pc = "settle", !.res = res, !.raised = raised]
  <2>2. job' = [job EXCEPT ![x] = j] BY <2>1 DEF Sent
  <2>3. /\ j.pc = "settle" /\ j.key = job[x].key /\ j.todo = job[x].todo
        /\ j.res = res
    BY <1>0 DEF Jobs
  <2> HIDE DEF j
  <2> QED BY <1>0, <2>2, <2>3
<1>3. NextPart(x)' = d /\ \A y \in Threads \ {x} : NextPart(y)' = NextPart(y)
  BY <1>2 DEF NextPart
<1> HIDE DEF d
<1>4. HeldByOne'
  BY <1>0, <1>2, <1>3 DEF SentInv, HeldByOne, d
<1>5. /\ \A i \in DOMAIN wechat : wechat[i] # d
      /\ dlv[d].status \in {"sending", "unknown"}
  BY <1>0 DEF SentInv, NotYetSent, Reserved, d
<1>6. \A th \in Threads : Reserved(th)'
  <2>1. Reserved(x)' BY <1>0, <1>3, <1>5 DEF Reserved
  <2>2. ASSUME NEW y \in Threads \ {x} PROVE Reserved(y)'
    BY <1>0, <1>2, <1>3 DEF SentInv, Reserved
  <2> QED BY <2>1, <2>2
<1>7. ASSUME NEW y \in Threads \ {x}, job[y].pc \in Holding PROVE NextPart(y) # d
  BY <1>0, <1>7 DEF SentInv, HeldByOne, d
<1>8. CASE wechat' = wechat
  <2>1. NotYetSent(x)' BY <1>3, <1>5, <1>8 DEF NotYetSent
  <2>2. ASSUME NEW y \in Threads \ {x} PROVE NotYetSent(y)'
    BY <1>2, <1>3, <1>8 DEF SentInv, NotYetSent
  <2>3. Withdrawn' /\ SentOnce'
    BY <1>0, <1>8 DEF SentInv, Withdrawn, SentOnce
  <2> QED BY <1>4, <1>6, <2>1, <2>2, <2>3 DEF SentInv
<1>9. CASE wechat' = Append(wechat, d) /\ res # "failed"
  <2>1. /\ DOMAIN wechat = 1 .. Len(wechat) /\ Len(wechat) \in Nat
        /\ DOMAIN wechat' = 1 .. Len(wechat) + 1
        /\ \A i \in DOMAIN wechat : wechat'[i] = wechat[i]
        /\ wechat'[Len(wechat) + 1] = d
    BY <1>0, <1>9, HeldKeys, AppendProperties
  <2>2. NotYetSent(x)' BY <1>2, <1>9 DEF NotYetSent
  <2>3. ASSUME NEW y \in Threads \ {x} PROVE NotYetSent(y)'
    <3>1. "send" \in Holding /\ "settle" \in Holding BY DEF Holding
    <3> QED BY <1>2, <1>3, <1>7, <2>1, <3>1 DEF SentInv, NotYetSent
  <2>4. Withdrawn' BY <1>0, <1>5, <2>1 DEF SentInv, Withdrawn
  <2>5. SentOnce' BY <1>5, <2>1 DEF SentInv, SentOnce
  <2> QED BY <1>4, <1>6, <2>2, <2>3, <2>4, <2>5 DEF SentInv
<1> QED BY <1>1, <1>8, <1>9

\* Settling writes "failed" only when WeChat was given nothing.
LEMMA SentSettle ==
  ASSUME TypeOK, SentInv, NEW x \in Threads, DeliverSettle(x),
         \A th \in Threads : Holds(th)
  PROVE  SentInv'
<1> DEFINE d == NextPart(x)
           res == job[x].res
<1>0. /\ job[x].pc = "settle" /\ job[x].pc \in Holding /\ wechat' = wechat
      /\ res \in {"sent", "failed", "unknown"} /\ d \in DOMAIN dlv
      /\ dlv[d] \in DlvRows
  BY HeldKeys, Current DEF DeliverSettle, At, Holding, Jobs, TypeOK, StoreOK,
     IsDlvTable
<1>1. /\ DOMAIN dlv' = DOMAIN dlv /\ dlv'[d].status = res
      /\ \A e \in DOMAIN dlv \ {d} : dlv'[e] = dlv[e]
  BY <1>0 DEF DeliverSettle, Settle, DlvRows
<1>2. job'[x].pc \notin Holding
  <2>1. job[x] \in Jobs /\ job = [y \in Threads |-> job[y]]
    BY Current DEF TypeOK, JobsOK
  <2>2. job'[x] # job[x]
    <3>1. CASE Leave(x) BY <1>0, <2>1, <3>1 DEF Leave, IdleJob
    <3>2. ASSUME NEW pc \in {"cancel", "finish"}, Goto(x, pc) PROVE job'[x] # job[x]
      BY <1>0, <2>1, <3>2 DEF Goto, Jobs
    <3>3. ASSUME NEW todo,
                 job' = [job EXCEPT ![x] = [@ EXCEPT !.pc = "reserve", !.todo = todo]]
          PROVE  job'[x] # job[x]
      BY <1>0, <2>1, <3>3 DEF Jobs
    <3> QED BY <3>1, <3>2, <3>3 DEF DeliverSettle, Delivered
  <2> QED BY <2>2 DEF Holds
<1>3. ASSUME NEW y \in Threads, job'[y].pc \in Holding
      PROVE  /\ job'[y] = job[y] /\ NextPart(y)' = NextPart(y)
             /\ NextPart(y) \in DOMAIN dlv \ {d}
  <2>1. job'[y] = job[y] /\ y # x BY <1>2, <1>3 DEF Holds
  <2>2. NextPart(y) # d BY <1>0, <1>3, <2>1 DEF SentInv, HeldByOne
  <2> HIDE DEF d
  <2> QED BY <1>3, <2>1, <2>2, HeldKeys DEF NextPart
<1>4. res = "failed" => \A i \in DOMAIN wechat : wechat[i] # d
  BY <1>0 DEF SentInv, NotYetSent
<1> HIDE DEF d, res
<1>5. HeldByOne' BY <1>3 DEF SentInv, HeldByOne
<1>6. Withdrawn' /\ SentOnce'
  BY <1>0, <1>1, <1>4, HeldKeys DEF SentInv, Withdrawn, SentOnce
<1>7. ASSUME NEW th \in Threads PROVE Reserved(th)'
  BY <1>1, <1>3 DEF SentInv, Reserved
<1>8. ASSUME NEW th \in Threads PROVE NotYetSent(th)'
  <2>1. "send" \in Holding /\ "settle" \in Holding BY DEF Holding
  <2> QED BY <1>0, <1>3, <2>1 DEF SentInv, NotYetSent
<1> QED BY <1>5, <1>6, <1>7, <1>8 DEF SentInv

LEMMA SentStep ==
  ASSUME TypeOK, SentInv, [Next]_vars
  PROVE  SentInv'
<1>1. CASE \E x \in Threads : DeliverReserve(x) BY <1>1, SentReserve
<1>2. CASE \E x \in Threads : DeliverSend(x) BY <1>2, SentSend
<1>3. CASE /\ \A x \in Threads : ~DeliverReserve(x) /\ ~DeliverSend(x)
           /\ \E x \in Threads : DeliverSettle(x)
  BY <1>3, HoldMoves, SentSettle
<1>4. CASE \A x \in Threads : ~DeliverReserve(x) /\ ~DeliverSend(x) /\ ~DeliverSettle(x)
  BY <1>4, HoldMoves, DlvStep, WechatStep, SentTame
<1> QED BY <1>1, <1>2, <1>3, <1>4

\* WeChat is given each part of each message at most once, whatever crashes,
\* lost acknowledgements, lease changes and redeliveries there are: deliver()
\* reserves a part before it sends it, and a part whose fate is not known is
\* never offered again.
THEOREM SentOnceAlways == Spec => []SentOnce
<1>1. Init => SentInv
  BY DEF Init, StoreInit, EmptyTable, IdleJob, SentInv, SentOnce, HeldByOne,
         Withdrawn, Reserved, NotYetSent, Holding
<1>2. TypeOK /\ SentInv /\ [Next]_vars => SentInv' BY SentStep
<1>3. SentInv => SentOnce BY DEF SentInv
<1> QED BY <1>1, <1>2, <1>3, TypeCorrect, PTL DEF Spec
=============================================================================
