------------------------ MODULE ScheduledPlansProofs ------------------------
(***************************************************************************)
(* The theorems of ScheduledTasks about plans, queues and monitors: what   *)
(* every step does to the rows of tasks and of runs (the lemma             *)
(* StepEffects), and the invariants that follow from it, for every number  *)
(* of tasks, chats and processes and every schedule.                       *)
(***************************************************************************)
EXTENDS ScheduledSafetyProofs, FiniteSetTheorems
-----------------------------------------------------------------------------
(* Plans, queues and monitors.  Most steps leave them alone.               *)

\* What fail_or_retry asks of a row it puts back in the queue.
MayReturn(k) ==
  /\ task[k.task].version = run[k].version
  /\ task[k.task].status \in {"active", "completed"}
  /\ enabled /\ Permitted(k.task)

\* A row that no plan and no observation touches.
Steady(k) ==
  /\ run'[k].version = run[k].version /\ run'[k].news = run[k].news
  /\ run'[k].result = "observation" <=> run[k].result = "observation"
  /\ run'[k].status = "running" => run[k].status \in {"queued", "running"}
  /\ run'[k].status = "queued" =>
       \/ run[k].status = "queued"
       \/ run[k].status = "running" /\ MayReturn(k)

Quiet ==
  /\ UNCHANGED <<enabled, chatOn, task, mon, since>>
  /\ DOMAIN run' = DOMAIN run /\ \A k \in DOMAIN run : Steady(k)
  /\ now' = now \/ Advance

\* The steps that are not quiet.
Admits(o) == TickAdmit(o) /\ AdmitDue(o)

Refuses(o) == WorkSave(o) /\ SaveRoleBlock(o, job[Worker(o)].key)

Observes(o) ==
  LET me == job[Worker(o)]
  IN  /\ WorkSave(o) /\ me.outcome \in {"observed", "unchanged"}
      /\ SaveObservation(o, me.key, me.rev, me.observed)

Resumes(o) ==
  LET me == job[Worker(o)]
      t  == me.task
  IN  /\ At(Worker(o), "commit") /\ task[t].version = me.version
      /\ task[t].status = "paused" /\ task[t].reason = "timed" /\ task[t].until <= now
      /\ AutoResume(t, me.at)
      /\ since' = [since EXCEPT ![t] = Reopening(task[t].until, me.at)]
      /\ Leave(Worker(o)) /\ now' = now

Blocks(o) ==
  LET t == job[Worker(o)].task
  IN  /\ At(Worker(o), "block") /\ task[t].status = "paused" /\ BlockResume(t)
      /\ Leave(Worker(o)) /\ since' = since /\ now' = now

Plans(o) == Admits(o) \/ Refuses(o) \/ Observes(o) \/ Resumes(o) \/ Blocks(o)

LEMMA SteadySame == ASSUME NEW k, run'[k] = run[k] PROVE Steady(k)
  BY DEF Steady

LEMMA LeaseQuiet ==
  ASSUME StoreOK, NEW o, Lease(o), now' = now, since' = since
  PROVE  Quiet
<1>1. ASSUME NEW k \in DOMAIN run PROVE Steady(k)
  <2>0. run[k] \in RunRows BY RunRowType
  <2>1. CASE run' = run BY <2>1, SteadySame
  <2>2. CASE lease.owner # o
    <3> DEFINE end == IF run[k].result = "none" THEN "interrupted" ELSE "completed"
    <3>1. \/ run'[k] = run[k]
          \/ run'[k] = [run[k] EXCEPT !.status = end]
      BY <2>2 DEF Lease
    <3>2. end \in Ended BY DEF Ended
    <3> HIDE DEF end
    <3> QED BY <2>0, <3>1, <3>2 DEF Steady, RunRows, Ended
  <2> QED BY <2>1, <2>2 DEF Lease
<1> QED BY <1>1 DEF Lease, Quiet

LEMMA ClaimQuiet ==
  ASSUME StoreOK, NEW o \in Owners, TickClaim(o)
  PROVE  Quiet
<1>1. ASSUME NEW k \in DOMAIN run
      PROVE  /\ Swept[k] \in RunRows
             /\ Swept[k].version = run[k].version /\ Swept[k].news = run[k].news
             /\ Swept[k].result = run[k].result
             /\ Swept[k].status \in {"queued", "running"} => Swept[k].status = run[k].status
  <2>1. run[k] \in RunRows BY RunRowType
  <2> QED BY <2>1 DEF Swept, RunRows, Ended
<1>2. DOMAIN Swept = DOMAIN run BY DEF Swept
<1>3. ASSUME NEW c \in Ready, Claim(o, c)
      PROVE  Quiet
  <2>0. c \in DOMAIN run /\ run[c].status = "queued" /\ ~run[c].cancel
    BY <1>3 DEF Ready
  <2>1. Swept[c] = run[c] BY <2>0 DEF Swept
  <2>2. \/ run' = [Swept EXCEPT ![c] = [run[c] EXCEPT !.status = "running", !.owner = o]]
        \/ run' = [Swept EXCEPT ![c] = [run[c] EXCEPT !.status = "cancelled", !.cancel = TRUE]]
    BY <1>3, <2>1 DEF Claim
  <2>3. ASSUME NEW k \in DOMAIN run PROVE Steady(k)
    <3>1. CASE k # c
      <4>1. run'[k] = Swept[k] BY <1>2, <2>2, <3>1
      <4> QED BY <1>1, <4>1 DEF Steady
    <3>2. CASE k = c
      <4>1. run[c] \in RunRows BY <2>0, RunRowType
      <4>2. c \in DOMAIN Swept BY <1>2, <2>0
      <4>3. \/ run'[c] = [run[c] EXCEPT !.status = "running", !.owner = o]
            \/ run'[c] = [run[c] EXCEPT !.status = "cancelled", !.cancel = TRUE]
        BY <2>2, <4>2
      <4> QED BY <2>0, <3>2, <4>1, <4>3 DEF Steady, RunRows
    <3> QED BY <3>1, <3>2
  <2>4. DOMAIN run' = DOMAIN run BY <1>2, <2>2
  <2>5. UNCHANGED <<enabled, chatOn, task, mon>> BY <1>3 DEF Claim
  <2>6. UNCHANGED <<since, now>> BY DEF TickClaim
  <2> QED BY <2>3, <2>4, <2>5, <2>6 DEF Quiet
<1>4. CASE ClaimNothing(o)
  <2>1. run' = run \/ run' = Swept BY <1>4 DEF ClaimNothing
  <2>2. \A k \in DOMAIN run : Steady(k)
    BY <1>1, <2>1, SteadySame DEF Steady
  <2>4. DOMAIN run' = DOMAIN run BY <1>2, <2>1
  <2>5. UNCHANGED <<enabled, chatOn, task, mon>> BY <1>4 DEF ClaimNothing
  <2>6. UNCHANGED <<since, now>> BY DEF TickClaim
  <2> QED BY <2>2, <2>4, <2>5, <2>6 DEF Quiet
<1> QED BY <1>3, <1>4 DEF TickClaim

\* The transactions of the worker that write nothing but rows of runs.
LEMMA FinishQuiet ==
  ASSUME StoreOK, NEW k \in DOMAIN run, NEW status \in Ended, Finish(k, status),
         now' = now, since' = since
  PROVE  Quiet
<1>1. ASSUME NEW j \in DOMAIN run PROVE Steady(j)
  <2>1. run'[j] = run[j] \/ run'[j] = [run[j] EXCEPT !.status = status]
    BY DEF Finish
  <2>2. run[j] \in RunRows BY RunRowType
  <2> QED BY <2>1, <2>2 DEF Steady, RunRows, Ended
<1> QED BY <1>1 DEF Finish, Quiet

LEMMA ReplyQuiet ==
  ASSUME TypeOK, NEW o \in Owners, WorkReply(o)
  PROVE  Quiet
<1>1. ASSUME NEW j \in DOMAIN run PROVE Steady(j)
  <2>1. run[j] \in RunRows BY RunRowType DEF TypeOK
  <2>2. run'[j] \in {run[j], [run[j] EXCEPT !.thread = TRUE]} BY ReplyStep
  <2> QED BY <2>1, <2>2 DEF Steady, RunRows
<1> QED BY <1>1, ReplyStep DEF WorkReply, Bind, storeVars, Quiet

LEMMA FailQuiet ==
  ASSUME StoreOK, NEW o, NEW k \in DOMAIN run, NEW category \in Categories,
         NEW transient \in BOOLEAN, NEW status \in {"blocked", "failed"},
         FailOrRetry(o, k, category, transient, status), now' = now, since' = since
  PROVE  Quiet
<1>0. run[k] \in RunRows BY RunRowType
<1>1. \A j \in DOMAIN run : j # k => run'[j] = run[j] BY DEF FailOrRetry
<1>2. DOMAIN run' = DOMAIN run BY DEF FailOrRetry
<1>3. Steady(k)
  <2>1. CASE Fenced(o, k) BY <2>1, SteadySame DEF FailOrRetry
  <2>2. CASE ~Fenced(o, k) /\ MayRetry(k, transient)
    <3>1. \E at, n : run'[k] = [run[k] EXCEPT !.status = "queued", !.owner = None,
                                             !.attempts = n, !.retryAt = at]
      BY <2>2 DEF FailOrRetry
    <3>2. run[k].status = "running" /\ MayReturn(k)
      BY <2>2 DEF Fenced, MayRetry, MayReturn
    <3> QED BY <1>0, <3>1, <3>2 DEF Steady, RunRows
  <2>3. CASE ~Fenced(o, k) /\ ~MayRetry(k, transient)
    <3>1. \E n : run'[k] = [run[k] EXCEPT !.status = status, !.result = category,
                                          !.attempts = n]
      BY <2>3 DEF FailOrRetry
    <3>2. run[k].result = "none" BY <2>3 DEF Fenced
    <3> QED BY <1>0, <3>1, <3>2 DEF Steady, RunRows, Categories
  <2> QED BY <2>1, <2>2, <2>3
<1>4. \A j \in DOMAIN run : Steady(j) BY <1>1, <1>3, SteadySame
<1> QED BY <1>2, <1>4 DEF Quiet, FailOrRetry

LEMMA ReportQuiet ==
  ASSUME StoreOK, NEW o, NEW k \in DOMAIN run, NEW n, SaveReport(o, k, n),
         now' = now, since' = since
  PROVE  Quiet
<1>0. run[k] \in RunRows /\ run[k].result = "none"
  BY RunRowType DEF SaveReport, Savable
<1>1. ASSUME NEW j \in DOMAIN run PROVE Steady(j)
  <2>1. j # k => run'[j] = run[j] BY DEF SaveReport
  <2>2. run'[k] = [run[k] EXCEPT !.result = "report"] BY DEF SaveReport
  <2> QED BY <1>0, <2>1, <2>2 DEF Steady, RunRows
<1> QED BY <1>1 DEF SaveReport, Quiet

LEMMA QuietSame ==
  ASSUME UNCHANGED <<enabled, chatOn, task, run, mon, since>>, now' = now \/ Advance
  PROVE  Quiet
  BY SteadySame DEF Quiet

LEMMA PlanStep ==
  ASSUME TypeOK, [Next]_vars
  PROVE  \/ Quiet \/ UserSwitch \/ \E t \in Tasks : UserTask(t)
         \/ \E o \in Owners : Plans(o)
<1>0. StoreOK BY DEF TypeOK
<1>1. CASE UNCHANGED vars \/ Advance
  BY <1>1, QuietSame DEF vars, Advance, storeVars
<1>2. ASSUME NEW o \in Owners,
             \/ Start(o) \/ Stop(o) \/ DropFuture(o) \/ Crash(o) \/ UserRedeliver(o)
             \/ TickResumes(o) \/ TickFailures(o) \/ WorkCheck(o) \/ WorkTurn(o)
             \/ WorkAnswer(o) \/ WorkRecheck(o) \/ WorkCaught(o) \/ WorkReview(o)
             \/ Deliver(Worker(o)) \/ Deliver(Web(o))
      PROVE  Quiet
  BY <1>2, QuietSame
     DEF Start, Stop, DropFuture, Crash, UserRedeliver, TickResumes,
         TickFailures, WorkCheck, WorkTurn, WorkAnswer, WorkRecheck,
         WorkCaught, WorkReview, storeVars, Deliver, DeliverRun,
         DeliverReserve, DeliverSend, DeliverSettle, Reserve, Settle
<1>3. ASSUME NEW o \in Owners, TickLease(o) PROVE Quiet
  BY <1>0, <1>3, LeaseQuiet DEF TickLease
<1>4. ASSUME NEW o \in Owners, TickAdmit(o) PROVE Quiet \/ Plans(o)
  BY <1>4, QuietSame DEF TickAdmit, Plans, Admits, storeVars
<1>5. ASSUME NEW o \in Owners, WorkStart(o) PROVE Quiet
  <2>1. job[Worker(o)].key \in DOMAIN run
    BY <1>5, AtRun DEF WorkStart, OnRun, OnTask, Pcs
  <2>2. "missed" \in Ended BY DEF Ended
  <2> QED BY <1>0, <1>5, <2>1, <2>2, FinishQuiet, QuietSame DEF WorkStart, storeVars
<1>6. ASSUME NEW o \in Owners, WorkFinish(o) PROVE Quiet
  <2>1. job[Worker(o)].key \in DOMAIN run /\ job[Worker(o)] \in Jobs
    BY <1>6, AtRun DEF WorkFinish, OnRun, OnTask, Pcs
  <2>2. job[Worker(o)].status \in Ended /\ "cancelled" \in Ended
    BY <2>1 DEF Jobs, Ended
  <2> QED BY <1>0, <1>6, <2>1, <2>2, FinishQuiet DEF WorkFinish
<1>7. ASSUME NEW o \in Owners, WorkFail(o) \/ WorkBlocked(o) PROVE Quiet
  <2> DEFINE k == job[Worker(o)].key
  <2>1. k \in DOMAIN run /\ job[Worker(o)] \in Jobs
    BY <1>7, AtRun DEF WorkFail, WorkBlocked, OnRun, OnTask, Pcs
  <2>2. \E category \in Categories, transient \in BOOLEAN, status \in {"blocked", "failed"} :
          FailOrRetry(o, k, category, transient, status)
    <3>1. CASE WorkFail(o)
      <4> DEFINE transient == job[Worker(o)].exc = "connection" /\ ~job[Worker(o)].inferred
                 status == IF job[Worker(o)].exc = "permission" THEN "blocked" ELSE "failed"
      <4>1. job[Worker(o)].exc \in Categories BY <2>1 DEF Jobs
      <4>2. status \in {"blocked", "failed"} OBVIOUS
      <4>3. FailOrRetry(o, k, job[Worker(o)].exc, transient, status)
        BY <3>1 DEF WorkFail
      <4>4. transient \in BOOLEAN OBVIOUS
      <4> HIDE DEF status, k, transient
      <4> QED BY <4>1, <4>2, <4>3, <4>4
    <3>2. CASE WorkBlocked(o)
      <4>1. "monitor_blocked" \in Categories BY DEF Categories
      <4>2. FailOrRetry(o, k, "monitor_blocked", FALSE, "blocked")
        BY <3>2 DEF WorkBlocked
      <4> HIDE DEF k
      <4> QED BY <4>1, <4>2
    <3> QED BY <1>7, <3>1, <3>2
  <2>3. now' = now /\ since' = since BY <1>7 DEF WorkFail, WorkBlocked
  <2> HIDE DEF k
  <2> QED BY <1>0, <2>1, <2>2, <2>3, FailQuiet
<1>8. ASSUME NEW o \in Owners, WorkSave(o) PROVE Quiet \/ Plans(o)
  <2>1. job[Worker(o)].key \in DOMAIN run
    BY <1>8, AtRun DEF WorkSave, OnRun, OnTask, Pcs
  <2>2. now' = now /\ since' = since BY <1>8 DEF WorkSave
  <2>3. \/ UNCHANGED storeVars
        \/ \E n \in 1 .. 2 : SaveReport(o, job[Worker(o)].key, n)
        \/ Refuses(o) \/ Observes(o)
    BY <1>8 DEF WorkSave, Refuses, Observes
  <2> QED BY <1>0, <2>1, <2>2, <2>3, ReportQuiet, QuietSame DEF Plans, storeVars
<1>9. ASSUME NEW o \in Owners, WorkCommit(o) PROVE Quiet \/ Plans(o)
  <2>1. now' = now BY <1>9 DEF WorkCommit
  <2>2. (UNCHANGED storeVars /\ since' = since) \/ Resumes(o)
    BY <1>9 DEF WorkCommit, Resumes
  <2> QED BY <2>1, <2>2, QuietSame DEF Plans, storeVars
<1>10. ASSUME NEW o \in Owners, WorkBlock(o) PROVE Quiet \/ Plans(o)
  BY <1>10, QuietSame DEF WorkBlock, Plans, Blocks, storeVars
<1>11. ASSUME NEW o \in Owners, Tick(o) PROVE Quiet \/ Plans(o)
  BY <1>0, <1>2, <1>3, <1>4, <1>11, ClaimQuiet DEF Tick
<1>12. ASSUME NEW o \in Owners, Work(o) PROVE Quiet \/ Plans(o)
  BY <1>2, <1>5, <1>6, <1>7, <1>8, <1>9, <1>10, <1>12, ReplyQuiet DEF Work
<1> QED BY <1>1, <1>2, <1>11, <1>12 DEF Next
-----------------------------------------------------------------------------
(* What the other steps do to the rows of runs and of tasks.               *)

\* A row that is left alone or closed.
Closes(k) ==
  /\ k \in DOMAIN run' /\ run'[k].version = run[k].version
  /\ run'[k].news = run[k].news /\ run'[k].result = run[k].result
  /\ run'[k].status = run[k].status \/ run'[k].status \in Ended

\* When a transaction queues the new row k.
Offered(k) ==
  LET t == k.task
  IN  /\ enabled /\ Permitted(t)
      /\ \/ /\ k.trigger = "baseline" /\ t \in Baselined
            /\ task'[t].status = "active" /\ ~GoalDone(t)
         \/ /\ k.trigger = "manual" /\ ~Live(t)
            /\ task'[t].status # "deleted" /\ ~GoalDone(t)
         \/ /\ k.trigger = "scheduled" /\ ~Live(t)
            /\ task[t].status = "active"
            /\ task'[t].status \in {"active", "completed"}

\* A row of the timer: the planned fire, or a later one that has passed.
Fires(k) ==
  LET t == k.task
      cur == task[t]
  IN  /\ cur.status = "active" /\ cur.next # None /\ task'[t].exc = cur.exc
      /\ \/ /\ k.n = cur.next
            /\ cur.next <= now \/ NextFire(cur.rule, now, cur.exc) = None
         \/ /\ k.n = LatestFire(cur.rule, now, cur.exc)
            /\ k.n # None /\ k.n > cur.next

Inserted(k) ==
  /\ k.task \in Tasks /\ IsNew(run'[k]) /\ run'[k].news = {}
  /\ run'[k].version <= task'[k.task].version
  /\ task[k.task].status # "absent" \/ task'[k.task].status # "absent"
  /\ run'[k].status = "queued" => Offered(k)
  /\ k.trigger = "scheduled" => Fires(k)

NewRuns == DOMAIN run' \ DOMAIN run

\* The next fire is dropped, kept, or computed from now (when a timed pause
\* ends, from a little earlier).
Planning(t) ==
  LET old == task[t]  new == task'[t]
  IN  \/ new.next = None
      \/ new.next = old.next /\ new.rule = old.rule /\ new.exc = old.exc
      \/ new.next = NextFire(new.rule, now, new.exc)
      \/ \E o \in Owners : Resumes(o) /\ job[Worker(o)].task = t

TaskEffect(t) ==
  LET old == task[t]  new == task'[t]
  IN  /\ old.status # "absent" => new.version >= old.version
      /\ (old.status = "active" <=> old.next # None)
           => (new.status = "active" <=> new.next # None)
      /\ new.status \in {"paused", "deleted"} /\ new.status # old.status
           => \A k \in DOMAIN run' : k.task = t => run'[k].status # "queued"
      /\ old.status # "absent" => new.status # "absent"
      /\ new.status = "active" =>
           \/ old.status \in {"active", "absent"} \/ ~GoalDone(t)
           \/ "next" \in UserOps
           \/ \E o \in Owners : Resumes(o) /\ job[Worker(o)].task = t
      /\ Planning(t)
      /\ \/ new.exc \in {old.exc, NoExc}
         \/ new.exc.original = old.next /\ old.next # None /\ old.next > now

LEMMA ClosesSame == ASSUME NEW k \in DOMAIN run, run' = run PROVE Closes(k)
  BY DEF Closes

LEMMA DropQueuedRows ==
  ASSUME StoreOK, NEW t, NEW k \in DOMAIN run
  PROVE  LET row == DropQueued(t)[k]
         IN  /\ DOMAIN DropQueued(t) = DOMAIN run
             /\ row \in RunRows
             /\ row.version = run[k].version /\ row.news = run[k].news
             /\ row.result = run[k].result
             /\ row.status = run[k].status \/ row.status \in Ended
             /\ k.task = t => row.status # "queued"
<1>1. run[k] \in RunRows BY RunRowType
<1>2. CASE k \in HasStatus(t, {"queued"})
  BY <1>1, <1>2 DEF DropQueued, RunRows, Ended
<1>3. CASE k \notin HasStatus(t, {"queued"})
  BY <1>1, <1>3 DEF DropQueued, HasStatus
<1> QED BY <1>2, <1>3

LEMMA CancelRunsRows ==
  ASSUME StoreOK, NEW S, NEW k \in DOMAIN run
  PROVE  LET row == CancelRuns(S)[k]
         IN  /\ row.version = run[k].version /\ row.news = run[k].news
             /\ row.result = run[k].result
             /\ row.status = run[k].status \/ row.status \in Ended
             /\ k \in S => row.status # "queued"
<1>1. run[k] \in RunRows BY RunRowType
<1>2. CASE k \in S /\ run[k].status = "queued"
  BY <1>1, <1>2 DEF CancelRuns, RunRows, Ended
<1>3. CASE k \in S /\ run[k].status = "running"
  BY <1>1, <1>3 DEF CancelRuns, RunRows, Ended
<1>4. CASE ~(k \in S /\ run[k].status \in {"queued", "running"})
  BY <1>4 DEF CancelRuns
<1> QED BY <1>2, <1>3, <1>4

\* OrIgnore of one row.
LEMMA InsertRow ==
  ASSUME StoreOK, NEW t, NEW f \in {run, DropQueued(t)}, NEW key, NEW row,
         run' = OrIgnore(f, Row(key, row))
  PROVE  /\ \A k \in DOMAIN run : /\ Closes(k)
                                  /\ f = DropQueued(t) /\ k.task = t
                                       => run'[k].status # "queued"
         /\ \A k \in NewRuns : k = key /\ run'[k] = row
<1>1. DOMAIN f = DOMAIN run BY DEF DropQueued
<1>2. \A k \in DOMAIN run : k \in DOMAIN run' /\ run'[k] = f[k]
  BY <1>1 DEF OrIgnore
<1>3. \A k \in DOMAIN run : Closes(k)
  BY <1>2, DropQueuedRows DEF Closes
<1>4. \A k \in NewRuns : k = key /\ run'[k] = row
  BY <1>1 DEF OrIgnore, Row, NewRuns
<1> QED BY <1>2, <1>3, <1>4, DropQueuedRows

LEMMA InsertNone ==
  ASSUME StoreOK, NEW t, NEW f \in {run, DropQueued(t)},
         run' = OrIgnore(f, EmptyTable) \/ run' = f
  PROVE  /\ \A k \in DOMAIN run : /\ Closes(k)
                                  /\ f = DropQueued(t) /\ k.task = t
                                       => run'[k].status # "queued"
         /\ NewRuns = {}
<1>1. DOMAIN f = DOMAIN run BY DEF DropQueued
<1>2. DOMAIN run' = DOMAIN run /\ \A k \in DOMAIN run : run'[k] = f[k]
  BY <1>1 DEF OrIgnore, EmptyTable
<1>3. \A k \in DOMAIN run : Closes(k)
  BY <1>2, DropQueuedRows DEF Closes
<1> QED BY <1>2, <1>3, DropQueuedRows DEF NewRuns

LEMMA NewRowFields ==
  ASSUME NEW version, NEW at, NEW status \in {"queued", "missed", "skipped"}
  PROVE  LET row == NewRow(version, at, status)
         IN  /\ IsNew(row) /\ row.news = {} /\ row.version = version
             /\ row.status = status
  BY NewRowIsNew DEF NewRow

\* _queue_monitor_baseline inserts one row at most.
LEMMA InsertBaseline ==
  ASSUME StoreOK, NEW t \in Tasks, NEW f \in {run, DropQueued(t)},
         NEW status, NEW version \in Nat,
         run' = OrIgnore(f, BaselineRow(t, status, version)),
         task'[t].status = status, task'[t].version = version,
         task[t].status # "absent" \/ status # "absent"
  PROVE  /\ \A k \in DOMAIN run : /\ Closes(k)
                                  /\ f = DropQueued(t) /\ k.task = t
                                       => run'[k].status # "queued"
         /\ \A k \in NewRuns : k.task = t /\ k.trigger = "baseline" /\ Inserted(k)
         /\ \A j, k \in NewRuns : j = k
         /\ status # "active" => NewRuns = {}
<1>1. CASE BaselineRow(t, status, version) = EmptyTable
  BY <1>1, InsertNone
<1>2. CASE BaselineRow(t, status, version) # EmptyTable
  <2> DEFINE key == Key(t, "baseline", version)
             row == NewRow(version, now, "queued")
  <2>1. /\ BaselineRow(t, status, version) = Row(key, row)
        /\ t \in Baselined /\ status = "active" /\ enabled /\ Permitted(t)
    BY <1>2 DEF BaselineRow
  <2>2. ~GoalDone(t) BY <2>1, StoreAssumption DEF GoalDone
  <2>3. /\ IsNew(row) /\ row.news = {} /\ row.version = version
        /\ row.status = "queued"
    BY NewRowFields
  <2>4. key.task = t /\ key.trigger = "baseline" BY DEF Key
  <2> HIDE DEF key, row
  <2>5. \A k \in NewRuns : k = key /\ run'[k] = row
    BY <2>1, InsertRow
  <2>6. ASSUME NEW k \in NewRuns PROVE Inserted(k)
    BY <2>1, <2>2, <2>3, <2>4, <2>5, <2>6 DEF Inserted, Offered
  <2> QED BY <2>1, <2>4, <2>5, <2>6, InsertRow
<1> QED BY <1>1, <1>2

\* What a user's edit of the task t does.
Edits(t) ==
  /\ UNCHANGED <<enabled, chatOn, mon, now>>
  /\ \A u \in Tasks \ {t} : task'[u] = task[u]
  /\ \A k \in DOMAIN run : Closes(k)
  /\ \A k \in NewRuns : k.task = t /\ k.trigger # "scheduled" /\ Inserted(k)
  /\ \A j, k \in NewRuns : j = k
  /\ TaskEffect(t)

\* The row of one task changes.
LEMMA OneTask ==
  ASSUME StoreOK, NEW t \in Tasks, NEW row, task' = [task EXCEPT ![t] = row]
  PROVE  task'[t] = row /\ \A u \in Tasks \ {t} : task'[u] = task[u]
  BY DEF StoreOK, IsTaskTable

LEMMA CreateEdits ==
  ASSUME StoreOK, NEW t \in Tasks, NEW rule \in Rules, Create(t, rule), now' = now
  PROVE  Edits(t)
<1> DEFINE due == NextFire(rule, now, NoExc)
           row == [AbsentTask EXCEPT !.status = "active", !.version = 1,
                                     !.next = due, !.rule = rule]
<1>1. /\ row.status = "active" /\ row.version = 1 /\ row.next = due
      /\ row.rule = rule /\ row.exc = NoExc /\ row.reason = "none"
  BY DEF AbsentTask
<1>2. /\ task[t].status = "absent" /\ due # None /\ task' = [task EXCEPT ![t] = row]
      /\ run' = OrIgnore(run, BaselineRow(t, "active", 1))
      /\ UNCHANGED <<enabled, chatOn, mon>>
  BY DEF Create
<1> HIDE DEF row
<1>3. task'[t] = row /\ \A u \in Tasks \ {t} : task'[u] = task[u]
  BY <1>2, OneTask
<1>4. /\ \A k \in DOMAIN run : Closes(k)
      /\ \A k \in NewRuns : k.task = t /\ k.trigger = "baseline" /\ Inserted(k)
      /\ \A j, k \in NewRuns : j = k
  BY <1>1, <1>2, <1>3, InsertBaseline
<1> QED BY <1>1, <1>2, <1>3, <1>4, TaskRowType
        DEF Edits, TaskEffect, Planning

LEMMA UpdateEdits ==
  ASSUME StoreOK, NEW t \in Tasks, NEW rule \in OrNone(Rules), NEW withMonitor \in BOOLEAN,
         Update(t, rule, withMonitor), now' = now
  PROVE  Edits(t)
<1> DEFINE cur     == task[t]
           replan  == rule # None
           newRule == IF replan THEN rule ELSE cur.rule
           exc     == IF replan THEN NoExc ELSE cur.exc
           fire    == NextFire(newRule, now, exc)
           revived == /\ t \in Goals /\ withMonitor
                      /\ ~replan /\ cur.status = "completed"
           planned == (replan /\ cur.status # "paused") \/ revived
           status  == IF GoalDone(t) THEN "completed"
                      ELSE IF ~planned THEN cur.status
                      ELSE IF fire = None THEN "completed" ELSE "active"
           due     == IF GoalDone(t) THEN None
                      ELSE IF planned THEN fire
                      ELSE IF replan THEN None ELSE cur.next
           version == cur.version + 1
           reason  == IF GoalDone(t) THEN "none" ELSE cur.reason
           until   == IF GoalDone(t) THEN None ELSE cur.until
           row     == [cur EXCEPT
                         !.status = status, !.version = version, !.next = due,
                         !.rule = newRule, !.exc = exc, !.reason = reason,
                         !.until = until]
<1>1. /\ cur.status \notin {"absent", "deleted"}
      /\ task' = [task EXCEPT ![t] = row]
      /\ run' = OrIgnore(IF replan \/ GoalDone(t) THEN DropQueued(t) ELSE run,
                         BaselineRow(t, status, version))
      /\ UNCHANGED <<enabled, chatOn, mon>>
  BY DEF Update
<1>2. cur \in TaskRows /\ cur.version \in Nat BY TaskRowType
<1>3. PICK f \in {run, DropQueued(t)} :
        /\ run' = OrIgnore(f, BaselineRow(t, status, version))
        /\ replan \/ GoalDone(t) => f = DropQueued(t)
  BY <1>1
<1>4. /\ ~planned => due = None \/ (due = cur.next /\ newRule = cur.rule /\ exc = cur.exc)
      /\ planned => due = None \/ due = NextFire(newRule, now, exc)
      /\ exc \in {cur.exc, NoExc} /\ reason \in {cur.reason, "none"}
      /\ status \notin {"paused", "deleted"} \/ status = cur.status
      /\ status # "absent" /\ (status = "active" => ~GoalDone(t))
      /\ (cur.status = "active" <=> cur.next # None)
           => (status = "active" <=> due # None)
  BY <1>1
<1>5. /\ row.status = status /\ row.version = version /\ row.next = due
      /\ row.rule = newRule /\ row.exc = exc /\ row.reason = reason
  <2> HIDE DEF cur, newRule, exc, status, due, version, reason, until
  <2> QED BY <1>2 DEF TaskRows
<1>6. version \in Nat /\ version >= cur.version BY <1>2
<1> HIDE DEF row, newRule, exc, fire, revived, status, due, version, reason, until
<1>7. task'[t] = row /\ \A u \in Tasks \ {t} : task'[u] = task[u]
  BY <1>1, OneTask
<1>8. /\ \A k \in DOMAIN run : Closes(k)
      /\ \A k \in NewRuns : k.task = t /\ k.trigger = "baseline" /\ Inserted(k)
      /\ \A j, k \in NewRuns : j = k
  BY <1>1, <1>3, <1>5, <1>6, <1>7, InsertBaseline
<1>9. TaskEffect(t)
  BY <1>1, <1>4, <1>5, <1>6, <1>7 DEF TaskEffect, Planning
<1> QED BY <1>1, <1>7, <1>8, <1>9 DEF Edits

\* The edits that change one row of tasks and drop what is queued, or not.
LEMMA PlainEdits ==
  ASSUME StoreOK, NEW t \in Tasks, UNCHANGED <<enabled, chatOn, mon, now>>,
         NEW row, task' = [task EXCEPT ![t] = row], TaskEffect(t),
         \A k \in DOMAIN run : Closes(k), NewRuns = {}
  PROVE  Edits(t)
  BY OneTask DEF Edits

LEMMA PauseEdits ==
  ASSUME StoreOK, NEW t \in Tasks, NEW until, Pause(t, until), now' = now
  PROVE  Edits(t)
<1> DEFINE cur == task[t]
           version == cur.version + 1
           reason == IF until = None THEN "user" ELSE "timed"
           row == [cur EXCEPT !.status = "paused", !.next = None, !.version = version,
                              !.reason = reason, !.until = until]
<1>1. /\ task' = [task EXCEPT ![t] = row] /\ run' = DropQueued(t)
      /\ UNCHANGED <<enabled, chatOn, mon>>
  BY DEF Pause
<1>2. cur \in TaskRows /\ cur.version \in Nat BY TaskRowType
<1>3. /\ row.status = "paused" /\ row.next = None /\ row.version = version
      /\ row.exc = cur.exc
  <2> HIDE DEF reason, version, cur
  <2> QED BY <1>2 DEF TaskRows
<1> HIDE DEF row, reason
<1>5. task'[t] = row BY <1>1, OneTask
<1>6. /\ \A k \in DOMAIN run : Closes(k) /\ (k.task = t => run'[k].status # "queued")
      /\ NewRuns = {}
  BY <1>1, InsertNone
<1>7. DOMAIN run' = DOMAIN run BY <1>1 DEF DropQueued
<1>8. TaskEffect(t)
  BY <1>2, <1>3, <1>5, <1>6, <1>7 DEF TaskEffect, Planning
<1> QED BY <1>1, <1>6, <1>8, PlainEdits

LEMMA DeleteEdits ==
  ASSUME StoreOK, NEW t \in Tasks, Delete(t), now' = now
  PROVE  Edits(t)
<1> DEFINE cur == task[t]
           version == cur.version + 1
           row == [cur EXCEPT !.status = "deleted", !.next = None, !.version = version,
                              !.reason = "none", !.until = None, !.exc = NoExc]
<1>1. /\ task' = [task EXCEPT ![t] = row]
      /\ UNCHANGED <<enabled, chatOn, mon>> /\ DOMAIN run' = DOMAIN run
  BY DEF Delete
<1>2. cur \in TaskRows /\ cur.version \in Nat BY TaskRowType
<1>3. /\ row.status = "deleted" /\ row.next = None /\ row.version = version
      /\ row.exc = NoExc /\ row.reason = "none"
  <2> HIDE DEF version, cur
  <2> QED BY <1>2 DEF TaskRows
<1> HIDE DEF row
<1>4. task'[t] = row BY <1>1, OneTask
<1>5. ASSUME NEW k \in DOMAIN run
      PROVE  Closes(k) /\ (k.task = t => run'[k].status # "queued")
  <2>1. CASE k \in HasStatus(t, {"running"})
    <3>1. run'[k] = [run[k] EXCEPT !.cancel = TRUE] BY <2>1 DEF Delete
    <3>2. run[k] \in RunRows /\ run[k].status = "running"
      BY <2>1, RunRowType DEF HasStatus
    <3> QED BY <1>1, <3>1, <3>2 DEF Closes, RunRows
  <2>2. CASE k \notin HasStatus(t, {"running"})
    <3>1. run'[k] = DropQueued(t)[k] BY <2>2 DEF Delete
    <3> QED BY <1>1, <3>1, DropQueuedRows DEF Closes
  <2> QED BY <2>1, <2>2
<1>6. NewRuns = {} BY <1>1 DEF NewRuns
<1>7. TaskEffect(t)
  BY <1>1, <1>2, <1>3, <1>4, <1>5 DEF TaskEffect, Planning
<1> QED BY <1>1, <1>5, <1>6, <1>7, PlainEdits

\* resume, by hand or by the clock.
LEMMA ResumeRow ==
  ASSUME StoreOK, NEW t \in Tasks, NEW due, ResumeAs(t, due)
  PROVE  /\ task'[t].status = IF due = None THEN "completed" ELSE "active"
         /\ task'[t].version = task[t].version + 1 /\ task'[t].next = due
         /\ task'[t].rule = task[t].rule /\ task'[t].exc = task[t].exc
         /\ task'[t].reason = "none"
         /\ \A u \in Tasks \ {t} : task'[u] = task[u]
         /\ UNCHANGED <<enabled, chatOn, run, mon>>
<1> DEFINE cur == task[t]
           version == cur.version + 1
           status == IF due = None THEN "completed" ELSE "active"
           row == [cur EXCEPT !.status = status, !.version = version, !.next = due,
                              !.reason = "none", !.until = None]
<1>1. task' = [task EXCEPT ![t] = row] BY DEF ResumeAs
<1>2. cur \in TaskRows BY TaskRowType
<1>3. /\ row.status = status /\ row.next = due /\ row.version = version
      /\ row.exc = cur.exc /\ row.rule = cur.rule /\ row.reason = "none"
  <2> HIDE DEF version, cur, status
  <2> QED BY <1>2 DEF TaskRows
<1> HIDE DEF row
<1>4. task'[t] = row /\ \A u \in Tasks \ {t} : task'[u] = task[u]
  BY <1>1, OneTask
<1> QED BY <1>3, <1>4 DEF ResumeAs

LEMMA ResumeEdits ==
  ASSUME StoreOK, NEW t \in Tasks, Resume(t), now' = now
  PROVE  Edits(t)
<1> DEFINE due == NextFire(task[t].rule, now, task[t].exc)
<1>1. due # None /\ ResumeAs(t, due) /\ ~GoalDone(t) BY DEF Resume
<1>2. task[t].version \in Nat BY TaskRowType
<1>3. task'[t].next = NextFire(task'[t].rule, now, task'[t].exc)
  BY <1>1, ResumeRow
<1> HIDE DEF due
<1>4. TaskEffect(t)
  BY <1>1, <1>2, <1>3, ResumeRow DEF TaskEffect, Planning
<1>5. (\A k \in DOMAIN run : Closes(k)) /\ NewRuns = {}
  BY <1>1, ClosesSame DEF ResumeAs, NewRuns
<1> QED BY <1>1, <1>4, <1>5, ResumeRow DEF Edits

LEMMA RunNowEdits ==
  ASSUME StoreOK, NEW t \in Tasks, NEW n, RunNow(t, n), now' = now
  PROVE  Edits(t)
<1> DEFINE key == Key(t, "manual", n)
           row == NewRow(task[t].version, now, "queued")
<1>1. /\ task[t].status \notin {"absent", "deleted"}
      /\ enabled /\ Permitted(t) /\ ~GoalDone(t) /\ ~Live(t)
      /\ run' = OrIgnore(run, Row(key, row))
      /\ UNCHANGED <<enabled, chatOn, task, mon>>
  BY DEF RunNow
<1>2. /\ IsNew(row) /\ row.news = {} /\ row.version = task[t].version
      /\ row.status = "queued"
  BY NewRowFields
<1>3. key.task = t /\ key.trigger = "manual" BY DEF Key
<1>4. task[t].version \in Nat BY TaskRowType
<1> HIDE DEF key, row
<1>5. /\ \A k \in DOMAIN run : Closes(k)
      /\ \A k \in NewRuns : k = key /\ run'[k] = row
  BY <1>1, InsertRow
<1>6. ASSUME NEW k \in NewRuns PROVE Inserted(k)
  BY <1>1, <1>2, <1>3, <1>4, <1>5 DEF Inserted, Offered
<1>7. TaskEffect(t) BY <1>1, <1>4 DEF TaskEffect, Planning
<1> QED BY <1>1, <1>3, <1>5, <1>6, <1>7 DEF Edits

LEMMA StopRunEdits ==
  ASSUME StoreOK, NEW t \in Tasks, StopRun(t), now' = now
  PROVE  Edits(t)
<1>1. ASSUME NEW k \in DOMAIN run PROVE Closes(k)
  <2>1. run[k] \in RunRows BY RunRowType
  <2>2. run'[k] \in {run[k], [run[k] EXCEPT !.cancel = TRUE]} BY DEF StopRun
  <2>3. k \in DOMAIN run' BY DEF StopRun
  <2> QED BY <2>1, <2>2, <2>3 DEF Closes, RunRows
<1>2. NewRuns = {} /\ UNCHANGED <<enabled, chatOn, task, mon>>
  BY DEF StopRun, NewRuns
<1>3. task[t].version \in Nat BY TaskRowType
<1>4. TaskEffect(t) BY <1>2, <1>3 DEF TaskEffect, Planning
<1> QED BY <1>1, <1>2, <1>4 DEF Edits

LEMMA ExceptionRow ==
  ASSUME StoreOK, NEW t \in Tasks, NEW exc, WithException(t, exc)
  PROVE  /\ task'[t].exc = exc /\ task'[t].rule = task[t].rule
         /\ task'[t].next = NextFire(task[t].rule, now, exc)
         /\ task'[t].version = task[t].version + 1 /\ task'[t].reason = task[t].reason
         /\ task'[t].status = IF task'[t].next = None THEN "completed" ELSE "active"
         /\ \A u \in Tasks \ {t} : task'[u] = task[u]
<1> DEFINE cur == task[t]
           due == NextFire(cur.rule, now, exc)
           version == cur.version + 1
           status == IF due = None THEN "completed" ELSE "active"
           row == [cur EXCEPT !.exc = exc, !.next = due, !.version = version,
                              !.status = status]
<1>1. task' = [task EXCEPT ![t] = row] BY DEF WithException
<1>2. cur \in TaskRows BY TaskRowType
<1>3. /\ row.status = status /\ row.next = due /\ row.version = version
      /\ row.exc = exc /\ row.rule = cur.rule /\ row.reason = cur.reason
  <2> HIDE DEF version, cur, status, due
  <2> QED BY <1>2 DEF TaskRows
<1> HIDE DEF row
<1>4. task'[t] = row /\ \A u \in Tasks \ {t} : task'[u] = task[u]
  BY <1>1, OneTask
<1> QED BY <1>3, <1>4

LEMMA ChangeNextEdits ==
  ASSUME StoreOK, NEW t \in Tasks, NEW at, ChangeNext(t, at), now' = now,
         "next" \in UserOps
  PROVE  Edits(t)
<1> DEFINE exc == [original |-> task[t].next, replacement |-> at]
           key == Key(t, "exception", task[t].version + 1)
           row == NewRow(task[t].version, task[t].next, "skipped")
<1>1. /\ task[t].status = "active" /\ task[t].next # None /\ task[t].next > now
      /\ WithException(t, exc) /\ run' = OrIgnore(run, Row(key, row))
      /\ UNCHANGED <<enabled, chatOn, mon>>
  BY DEF ChangeNext
<1>2. /\ IsNew(row) /\ row.news = {} /\ row.version = task[t].version
      /\ row.status = "skipped"
  BY NewRowFields
<1>3. key.task = t /\ key.trigger = "exception" BY DEF Key
<1>4. task[t].version \in Nat BY TaskRowType
<1>5. exc.original = task[t].next OBVIOUS
<1> HIDE DEF key, row, exc
<1>6. /\ \A k \in DOMAIN run : Closes(k)
      /\ \A k \in NewRuns : k = key /\ run'[k] = row
  BY <1>1, InsertRow
<1>7. ASSUME NEW k \in NewRuns PROVE Inserted(k)
  BY <1>1, <1>2, <1>3, <1>4, <1>6, ExceptionRow DEF Inserted
<1>8. TaskEffect(t)
  BY <1>1, <1>4, <1>5, ExceptionRow DEF TaskEffect, Planning
<1> QED BY <1>1, <1>3, <1>6, <1>7, <1>8, ExceptionRow DEF Edits

LEMMA ClearNextChangeEdits ==
  ASSUME StoreOK, NEW t \in Tasks, ClearNextChange(t), now' = now, "next" \in UserOps
  PROVE  Edits(t)
<1>1. WithException(t, NoExc) /\ UNCHANGED <<enabled, chatOn, run, mon>>
  BY DEF ClearNextChange
<1>2. task[t].version \in Nat BY TaskRowType
<1>3. TaskEffect(t)
  BY <1>1, <1>2, ExceptionRow DEF TaskEffect, Planning
<1>4. (\A k \in DOMAIN run : Closes(k)) /\ NewRuns = {}
  BY <1>1, ClosesSame DEF NewRuns
<1> QED BY <1>1, <1>3, <1>4, ExceptionRow DEF Edits

LEMMA UserEdits ==
  ASSUME StoreOK, NEW t \in Tasks, UserTask(t)
  PROVE  Edits(t)
<1>1. now' = now /\ None \notin Rules BY StoreAssumption DEF UserTask
<1>2. ASSUME NEW rule \in Rules \cup {None}, NEW m \in BOOLEAN, Update(t, rule, m)
      PROVE  Edits(t)
  BY <1>1, <1>2, UpdateEdits DEF OrNone
<1>3. ASSUME NEW until \in Times \cup {None}, Pause(t, until)
      PROVE  Edits(t)
  BY <1>1, <1>3, PauseEdits
<1>4. ASSUME NEW op, Edit(op, t) PROVE op \in UserOps BY <1>4 DEF Edit, Asked
<1> QED BY <1>1, <1>2, <1>3, <1>4, CreateEdits, ResumeEdits, DeleteEdits, RunNowEdits,
           StopRunEdits, ChangeNextEdits, ClearNextChangeEdits DEF UserTask
-----------------------------------------------------------------------------
(* The switches, the timer, the ends of runs and of pauses.                *)

\* An active task is planned again from now on.
LEMMA PlannedAgain ==
  ASSUME StoreOK, NEW t \in Tasks, task[t].status = "active",
         NEW due, due = NextFire(task[t].rule, now, task[t].exc),
         task'[t] = [task[t] EXCEPT !.next = due,
                       !.status = IF due = None THEN "completed" ELSE "active"]
  PROVE  /\ TaskEffect(t) /\ task'[t].version = task[t].version
         /\ task'[t].next = due
         /\ task'[t].exc = task[t].exc /\ task'[t].status \in {"active", "completed"}
<1> DEFINE status == IF due = None THEN "completed" ELSE "active"
<1>1. /\ task[t] \in TaskRows /\ task[t].version \in Nat
      /\ task'[t] = [task[t] EXCEPT !.next = due, !.status = status]
  BY TaskRowType
<1>2. /\ task'[t].status = status /\ task'[t].next = due
      /\ task'[t].version = task[t].version
      /\ task'[t].exc = task[t].exc /\ task'[t].rule = task[t].rule
      /\ task'[t].reason = task[t].reason
  <2> DEFINE cur == task[t]
  <2>1. task'[t] = [cur EXCEPT !.next = due, !.status = status] BY <1>1
  <2> HIDE DEF status, cur
  <2>2. cur \in TaskRows BY <1>1 DEF cur
  <2>3. /\ task'[t].status = status /\ task'[t].next = due
        /\ task'[t].version = cur.version
        /\ task'[t].exc = cur.exc /\ task'[t].rule = cur.rule
        /\ task'[t].reason = cur.reason
    BY <2>1, <2>2 DEF TaskRows
  <2> QED BY <2>3 DEF cur
<1> QED BY <1>1, <1>2 DEF TaskEffect, Planning

LEMMA StillTask ==
  ASSUME StoreOK, NEW t \in Tasks, task'[t] = task[t]
  PROVE  TaskEffect(t)
<1>1. task[t].version \in Nat BY TaskRowType
<1> QED BY <1>1 DEF TaskEffect, Planning

\* What every step does to rows of runs and of tasks.
Goes(k) ==
  /\ k \in DOMAIN run' /\ run'[k].version = run[k].version
  /\ run'[k].status = "running" => run[k].status \in {"queued", "running"}
  /\ run'[k].status = "queued" =>
       \/ run[k].status = "queued"
       \/ /\ run[k].status = "running" /\ MayReturn(k)
          /\ UNCHANGED <<enabled, chatOn, task, mon>>

Effects ==
  /\ \A k \in DOMAIN run : Goes(k)
  /\ \A k \in NewRuns : Inserted(k)
  /\ \A j, k \in NewRuns : j.task = k.task => j = k
  /\ \A t \in Tasks : TaskEffect(t)

LEMMA ClosesGoes ==
  ASSUME NEW k \in DOMAIN run, Closes(k)
  PROVE  Goes(k)
  BY DEF Closes, Goes, Ended

\* The rows that keep their results.
Keeps == \A k \in DOMAIN run : Closes(k)

\* Fires of the tasks S that no longer come are recorded as lost.
LEMMA ReplanEffects ==
  ASSUME StoreOK, NEW S \in SUBSET Tasks, \A t \in S : task[t].status = "active",
         Replan(S)
  PROVE  /\ Keeps /\ Effects
         /\ \A k \in DOMAIN run : run'[k] = run[k]
         /\ \A k \in NewRuns : run'[k].status = "missed"
         /\ \A t \in Tasks : /\ task'[t].exc = task[t].exc
                             /\ task'[t].version = task[t].version
         /\ \A t \in S : task'[t].next = NextFire(task[t].rule, now, task[t].exc)
<1> DEFINE due  == [t \in S |-> NextFire(task[t].rule, now, task[t].exc)]
           lost == {t \in S : due[t] = None /\ task[t].next # None}
           new  == [k \in {Key(t, "scheduled", task[t].next) : t \in lost} |->
                      NewRow(task[k.task].version, k.n, "missed")]
<1>1. run' = OrIgnore(run, new) BY DEF Replan
<1>2. /\ \A k \in DOMAIN run : k \in DOMAIN run' /\ run'[k] = run[k]
      /\ \A k \in NewRuns : k \in DOMAIN new /\ run'[k] = new[k]
  <2> HIDE DEF new
  <2> QED BY <1>1 DEF OrIgnore, NewRuns
<1>3. ASSUME NEW t \in Tasks
      PROVE  /\ TaskEffect(t) /\ task'[t].exc = task[t].exc
             /\ task'[t].version = task[t].version
             /\ task'[t].status = "absent" => task[t].status = "absent"
             /\ t \in S => task'[t].next = NextFire(task[t].rule, now, task[t].exc)
  <2>1. CASE t \in S
    <3> DEFINE fire == NextFire(task[t].rule, now, task[t].exc)
    <3>1. task'[t] = [task[t] EXCEPT !.next = due[t],
                        !.status = IF due[t] = None THEN "completed" ELSE "active"]
      BY <2>1 DEF Replan
    <3>2. due[t] = fire BY <2>1
    <3> HIDE DEF due
    <3>3. task'[t] = [task[t] EXCEPT !.next = fire,
                        !.status = IF fire = None THEN "completed" ELSE "active"]
      BY <3>1, <3>2
    <3>4. task[t].status = "active" BY <2>1
    <3> QED BY <3>3, <3>4, PlannedAgain
  <2>2. CASE t \notin S
    <3>1. task'[t] = task[t] BY <2>2 DEF Replan
    <3> QED BY <2>2, <3>1, StillTask
  <2> QED BY <2>1, <2>2
<1>4. ASSUME NEW k \in NewRuns
      PROVE  /\ Inserted(k) /\ run'[k].status = "missed"
             /\ k = Key(k.task, "scheduled", task[k.task].next)
  <2>1. PICK t \in lost : k = Key(t, "scheduled", task[t].next) BY <1>2
  <2>2. k.task = t /\ k.trigger = "scheduled" /\ k.n = task[t].next
    BY <2>1 DEF Key
  <2>3. run'[k] = NewRow(task[t].version, k.n, "missed") BY <1>2, <2>2
  <2>4. /\ IsNew(run'[k]) /\ run'[k].news = {} /\ run'[k].status = "missed"
        /\ run'[k].version = task[t].version
    BY <2>3, NewRowFields
  <2>5. /\ t \in Tasks /\ task[t].status = "active" /\ task[t].next # None
        /\ NextFire(task[t].rule, now, task[t].exc) = None
    OBVIOUS
  <2>6. task[t].version \in Nat BY <2>5, TaskRowType
  <2> HIDE DEF due, lost, new
  <2>7. Fires(k) BY <1>3, <2>2, <2>5 DEF Fires
  <2> QED BY <1>3, <2>1, <2>2, <2>4, <2>5, <2>6, <2>7 DEF Inserted
<1>5. Keeps BY <1>2 DEF Closes, Keeps
<1>6. \A j, k \in NewRuns : j.task = k.task => j = k BY <1>4
<1> QED BY <1>2, <1>3, <1>4, <1>5, <1>6, ClosesGoes DEF Effects, Keeps

LEMMA CancelEffects ==
  ASSUME StoreOK, NEW S, run' = CancelRuns(S), task' = task
  PROVE  /\ Keeps /\ Effects /\ NewRuns = {}
         /\ \A k \in DOMAIN run : k \in S => run'[k].status # "queued"
<1>1. DOMAIN run' = DOMAIN run BY DEF CancelRuns
<1>2. Keeps BY <1>1, CancelRunsRows DEF Closes, Keeps
<1>3. NewRuns = {} BY <1>1 DEF NewRuns
<1>4. \A k \in DOMAIN run : k \in S => run'[k].status # "queued"
  BY CancelRunsRows
<1> QED BY <1>2, <1>3, <1>4, ClosesGoes, StillTask DEF Effects, Keeps

\* A switch that goes off empties its queues; one that goes on plans again.
LEMMA SwitchEffects ==
  ASSUME StoreOK, UserSwitch
  PROVE  /\ Keeps /\ Effects /\ UNCHANGED <<mon, now>>
         /\ \A k \in NewRuns : run'[k].status # "queued"
         /\ \A k \in DOMAIN run :
              k.task \in Tasks /\ run'[k].status = "queued" /\ enabled /\ Permitted(k.task)
              => enabled' /\ Permitted(k.task)'
         /\ \A t \in Tasks : task'[t].version = task[t].version
<1>1. now' = now BY DEF UserSwitch
<1>2. ASSUME NEW on \in BOOLEAN, SetEnabled(on)
      PROVE  /\ Keeps /\ Effects /\ mon' = mon
             /\ \A k \in NewRuns : run'[k].status # "queued"
             /\ \A k \in DOMAIN run :
                  run'[k].status = "queued" /\ enabled => enabled'
             /\ \A t \in Tasks : task'[t].version = task[t].version
             /\ chatOn' = chatOn
  <2> DEFINE S == {t \in Tasks : task[t].status = "active"}
  <2>1. CASE ~on
    <3>1. run' = CancelRuns(DOMAIN run) /\ task' = task BY <1>2, <2>1 DEF SetEnabled
    <3> QED BY <1>2, <3>1, CancelEffects DEF SetEnabled
  <2>2. CASE on
    <3>1. Replan(S) /\ enabled' BY <1>2, <2>2 DEF SetEnabled
    <3>2. S \in SUBSET Tasks /\ \A t \in S : task[t].status = "active" OBVIOUS
    <3> HIDE DEF S
    <3> QED BY <1>2, <3>1, <3>2, ReplanEffects DEF SetEnabled
  <2> QED BY <2>1, <2>2
<1>3. ASSUME NEW c \in Chats, NEW on \in BOOLEAN, SetChatEnabled(c, on)
      PROVE  /\ Keeps /\ Effects /\ mon' = mon
             /\ \A k \in NewRuns : run'[k].status # "queued"
             /\ \A k \in DOMAIN run :
                  k.task \in Tasks /\ run'[k].status = "queued" /\ Permitted(k.task)
                  => Permitted(k.task)'
             /\ \A t \in Tasks : task'[t].version = task[t].version
             /\ enabled' = enabled
  <2> DEFINE touched == {t \in Tasks : c \in {ChatOf[t], DestOf[t]}}
             S == {t \in touched : /\ task[t].status = "active"
                                   /\ chatOn'[ChatOf[t]] /\ chatOn'[DestOf[t]]}
             C == {k \in DOMAIN run : k.task \in touched}
  <2>1. /\ chatOn' = [chatOn EXCEPT ![c] = on]
        /\ chatOn \in [Chats -> BOOLEAN] /\ UNCHANGED <<enabled, mon>>
    BY <1>3 DEF SetChatEnabled, StoreOK
  <2>2. CASE ~on
    <3>1. run' = CancelRuns(C) /\ task' = task BY <1>3, <2>2 DEF SetChatEnabled
    <3>2. \A t \in Tasks \ touched : Permitted(t) => Permitted(t)'
      BY <2>1, StoreAssumption DEF Permitted
    <3>3. \A k \in DOMAIN run : k \in C => run'[k].status # "queued"
      <4> HIDE DEF C
      <4> QED BY <3>1, CancelEffects
    <3>4. ASSUME NEW k \in DOMAIN run, k.task \in Tasks, run'[k].status = "queued",
                 Permitted(k.task)
          PROVE  Permitted(k.task)'
      BY <3>2, <3>3, <3>4
    <3>5. Keeps /\ Effects /\ NewRuns = {}
      <4> HIDE DEF C
      <4> QED BY <3>1, CancelEffects
    <3> QED BY <2>1, <3>1, <3>4, <3>5
  <2>3. CASE on
    <3>1. Replan(S) BY <1>3, <2>3 DEF SetChatEnabled
    <3>2. S \in SUBSET Tasks /\ \A t \in S : task[t].status = "active" OBVIOUS
    <3>3. \A t \in Tasks : Permitted(t) => Permitted(t)'
      BY <2>1, <2>3, StoreAssumption DEF Permitted
    <3> HIDE DEF S
    <3> QED BY <2>1, <3>1, <3>2, <3>3, ReplanEffects
  <2> QED BY <2>2, <2>3
<1>4. ASSUME NEW k \in DOMAIN run, chatOn' = chatOn, Permitted(k.task)
      PROVE  Permitted(k.task)'
  BY <1>4 DEF Permitted
<1> QED BY <1>1, <1>2, <1>3, <1>4 DEF UserSwitch

\* The active tasks that a switch opens are planned from now on.
LEMMA SwitchPlans ==
  ASSUME StoreOK, UserSwitch, NEW t \in Tasks, Open(t)', ~Open(t),
         task[t].status = "active"
  PROVE  task'[t].next = NextFire(task[t].rule, now, task[t].exc)
<1>1. ASSUME NEW on \in BOOLEAN, SetEnabled(on)
      PROVE  task'[t].next = NextFire(task[t].rule, now, task[t].exc)
  <2> DEFINE S == {u \in Tasks : task[u].status = "active"}
  <2>1. chatOn' = chatOn /\ (~on => ~enabled') BY <1>1 DEF SetEnabled
  <2>2. on BY <2>1 DEF Open
  <2>3. Replan(S) BY <1>1, <2>2 DEF SetEnabled
  <2>4. t \in S /\ S \in SUBSET Tasks /\ \A u \in S : task[u].status = "active"
    OBVIOUS
  <2> HIDE DEF S
  <2> QED BY <2>3, <2>4, ReplanEffects
<1>2. ASSUME NEW c \in Chats, NEW on \in BOOLEAN, SetChatEnabled(c, on)
      PROVE  task'[t].next = NextFire(task[t].rule, now, task[t].exc)
  <2> DEFINE touched == {u \in Tasks : c \in {ChatOf[u], DestOf[u]}}
             S == {u \in touched : /\ task[u].status = "active"
                                   /\ chatOn'[ChatOf[u]] /\ chatOn'[DestOf[u]]}
  <2>1. /\ chatOn' = [chatOn EXCEPT ![c] = on] /\ enabled' = enabled
        /\ chatOn \in [Chats -> BOOLEAN]
    BY <1>2 DEF SetChatEnabled, StoreOK
  <2>2. ChatOf[t] \in Chats /\ DestOf[t] \in Chats BY StoreAssumption
  <2>3. chatOn'[ChatOf[t]] /\ chatOn'[DestOf[t]]
        /\ ~(chatOn[ChatOf[t]] /\ chatOn[DestOf[t]])
    BY <2>1 DEF Open, Permitted
  <2>4. on /\ t \in touched BY <2>1, <2>2, <2>3
  <2>5. Replan(S) BY <1>2, <2>4 DEF SetChatEnabled
  <2>6. t \in S /\ S \in SUBSET Tasks /\ \A u \in S : task[u].status = "active"
    BY <2>3, <2>4
  <2> HIDE DEF S
  <2> QED BY <2>5, <2>6, ReplanEffects
<1> QED BY <1>1, <1>2 DEF UserSwitch

LEMMA AdmitEffects ==
  ASSUME StoreOK, NEW o, AdmitDue(o)
  PROVE  /\ Keeps /\ Effects /\ UNCHANGED <<enabled, chatOn, mon>>
         /\ \A t \in Tasks : task'[t].version = task[t].version
<1> DEFINE due    == {t \in Tasks : /\ task[t].status = "active"
                                    /\ task[t].next # None /\ task[t].next <= now
                                    /\ Permitted(t)}
           latest == [t \in due |-> LatestFire(task[t].rule, now, task[t].exc)]
           at     == [t \in due |-> IF latest[t] # None /\ latest[t] > task[t].next
                                    THEN latest[t] ELSE task[t].next]
           status == [t \in due |-> IF now - at[t] > Grace THEN "missed"
                                    ELSE IF Live(t) THEN "skipped" ELSE "queued"]
           next   == [t \in due |-> NextFire(task[t].rule, now, task[t].exc)]
           new    == [k \in {Key(t, "scheduled", at[t]) : t \in due} |->
                        NewRow(task[k.task].version, k.n, status[k.task])]
<1>1. run' = OrIgnore(run, new) /\ enabled /\ UNCHANGED <<enabled, chatOn, mon>>
  BY DEF AdmitDue
<1>2. /\ \A k \in DOMAIN run : k \in DOMAIN run' /\ run'[k] = run[k]
      /\ \A k \in NewRuns : k \in DOMAIN new /\ run'[k] = new[k]
  <2> HIDE DEF new
  <2> QED BY <1>1 DEF OrIgnore, NewRuns
<1>3. ASSUME NEW t \in Tasks
      PROVE  /\ TaskEffect(t) /\ task'[t].exc = task[t].exc
             /\ task'[t].version = task[t].version
             /\ task'[t].status = "absent" => task[t].status = "absent"
             /\ t \in due => task'[t].status \in {"active", "completed"}
  <2>1. CASE t \in due
    <3>1. task'[t] = [task[t] EXCEPT !.next = next[t],
                        !.status = IF next[t] = None THEN "completed" ELSE "active"]
      BY <2>1 DEF AdmitDue
    <3>2. next[t] = NextFire(task[t].rule, now, task[t].exc) BY <2>1
    <3>3. task[t].status = "active" BY <2>1
    <3> HIDE DEF next, due
    <3> QED BY <3>1, <3>2, <3>3, PlannedAgain
  <2>2. CASE t \notin due
    <3>1. task'[t] = task[t] BY <2>2 DEF AdmitDue
    <3> HIDE DEF due
    <3> QED BY <2>2, <3>1, StillTask
  <2> QED BY <2>1, <2>2
<1>4. ASSUME NEW k \in NewRuns
      PROVE  Inserted(k) /\ k = Key(k.task, "scheduled", at[k.task])
  <2>1. PICK t \in due : k = Key(t, "scheduled", at[t]) BY <1>2
  <2>2. k.task = t /\ k.trigger = "scheduled" /\ k.n = at[t]
    BY <2>1 DEF Key
  <2>3. /\ status[t] \in {"queued", "missed", "skipped"}
        /\ status[t] = "queued" => ~Live(t)
    <3> HIDE DEF at
    <3> QED OBVIOUS
  <2>4. run'[k] = NewRow(task[t].version, k.n, status[t]) BY <1>2, <2>2
  <2>5. /\ IsNew(run'[k]) /\ run'[k].news = {} /\ run'[k].status = status[t]
        /\ run'[k].version = task[t].version
    <3> HIDE DEF status
    <3> QED BY <2>3, <2>4, NewRowFields
  <2>6. /\ t \in Tasks /\ task[t].status = "active" /\ task[t].next # None
        /\ task[t].next <= now /\ Permitted(t)
    OBVIOUS
  <2>7. task[t].version \in Nat BY <2>6, TaskRowType
  <2>8. \/ at[t] = task[t].next
        \/ /\ at[t] = LatestFire(task[t].rule, now, task[t].exc)
           /\ at[t] # None /\ at[t] > task[t].next
    OBVIOUS
  <2>9. task'[t].status \in {"active", "completed"} BY <1>3
  <2> HIDE DEF due, latest, at, status, next, new
  <2>10. Fires(k) BY <1>3, <2>2, <2>6, <2>8 DEF Fires
  <2>11. run'[k].status = "queued" => Offered(k)
    BY <1>1, <2>2, <2>3, <2>5, <2>6, <2>9 DEF Offered
  <2> QED BY <1>3, <2>1, <2>2, <2>5, <2>6, <2>7, <2>9, <2>10, <2>11 DEF Inserted
<1>5. Keeps BY <1>2 DEF Closes, Keeps
<1>6. \A j, k \in NewRuns : j.task = k.task => j = k BY <1>4
<1> HIDE DEF due, latest, at, status, next, new
<1> QED BY <1>1, <1>3, <1>4, <1>5, <1>6, ClosesGoes DEF Effects, Keeps

\* The end of a run with its result, dropping what is queued or not.
LEMMA EndRow ==
  ASSUME StoreOK, NEW t, NEW f \in {run, DropQueued(t)}, NEW k \in DOMAIN run,
         DOMAIN run' = DOMAIN run, \A j \in DOMAIN run : j # k => run'[j] = f[j],
         run'[k].version = run[k].version, run'[k].status \in Ended
  PROVE  /\ \A j \in DOMAIN run : /\ Goes(j)
                                  /\ f = DropQueued(t) /\ j.task = t
                                       => run'[j].status # "queued"
                                  /\ j # k => Closes(j)
         /\ NewRuns = {}
<1>1. DOMAIN f = DOMAIN run BY DEF DropQueued
<1>3. \A j \in DOMAIN run : j # k => Closes(j)
  BY DropQueuedRows DEF Closes
<1>4. Goes(k) BY DEF Goes, Ended
<1>5. \A j \in DOMAIN run : f = DropQueued(t) /\ j.task = t => run'[j].status # "queued"
  BY DropQueuedRows DEF Ended
<1>6. NewRuns = {} BY DEF NewRuns
<1> QED BY <1>3, <1>4, <1>5, <1>6, ClosesGoes

LEMMA RefuseEffects ==
  ASSUME StoreOK, NEW o, NEW k \in DOMAIN run, k.task \in Tasks, SaveRoleBlock(o, k)
  PROVE  /\ Effects /\ UNCHANGED <<enabled, chatOn, mon>> /\ NewRuns = {}
         /\ \A j \in DOMAIN run : run'[j].news = run[j].news
         /\ \A j \in DOMAIN run :
              run'[j].result = "observation" <=> run[j].result = "observation"
<1> DEFINE t == k.task
           current == task[t].version = run[k].version /\ task[t].status # "deleted"
           cur == task[t]
           version == cur.version + 1
           row == [cur EXCEPT !.status = "paused", !.next = None, !.version = version,
                              !.reason = "role", !.until = None]
<1>1. /\ run[k].status = "running" /\ run[k].result = "none"
      /\ UNCHANGED <<enabled, chatOn, mon>>
  BY DEF SaveRoleBlock, Savable
<1>2. run[k] \in RunRows BY RunRowType
<1>3. PICK f \in {run, DropQueued(t)} :
        /\ run' = [f EXCEPT ![k] = [@ EXCEPT !.result = "role", !.status = "role_blocked"]]
        /\ current => f = DropQueued(t)
        /\ ~current => f = run
  <2> DEFINE g == IF current THEN DropQueued(t) ELSE run
  <2>1. run' = [g EXCEPT ![k] = [@ EXCEPT !.result = "role", !.status = "role_blocked"]]
    BY DEF SaveRoleBlock
  <2>2. g \in {run, DropQueued(t)} /\ (current => g = DropQueued(t)) /\ (~current => g = run)
    OBVIOUS
  <2> HIDE DEF g, current
  <2> QED BY <2>1, <2>2
<1>4. f[k] = run[k] BY <1>1 DEF DropQueued, HasStatus
<1> DEFINE end == [run[k] EXCEPT !.result = "role", !.status = "role_blocked"]
<1>5. run' = [f EXCEPT ![k] = end] BY <1>3, <1>4
<1>6. /\ end.result = "role" /\ end.status = "role_blocked" /\ end.news = run[k].news
      /\ end.version = run[k].version
  BY <1>2 DEF RunRows
<1> HIDE DEF end
<1>7. end.status \in Ended BY <1>6 DEF Ended
<1>8. /\ DOMAIN run' = DOMAIN run /\ run'[k] = end
      /\ \A j \in DOMAIN run : j # k => run'[j] = f[j]
  BY <1>5 DEF DropQueued
<1>9. /\ \A j \in DOMAIN run : /\ Goes(j)
                               /\ f = DropQueued(t) /\ j.task = t
                                    => run'[j].status # "queued"
                               /\ j # k => Closes(j)
      /\ run'[k].result = "role" /\ run'[k].news = run[k].news /\ NewRuns = {}
  BY <1>6, <1>7, <1>8, EndRow
<1>10. ASSUME NEW u \in Tasks PROVE TaskEffect(u)
  <2>1. CASE current /\ u = t
    <3>1. task' = [task EXCEPT ![t] = row] BY <2>1 DEF SaveRoleBlock
    <3>2. cur \in TaskRows /\ cur.version \in Nat BY TaskRowType
    <3>3. /\ row.status = "paused" /\ row.next = None /\ row.version = version
          /\ row.exc = cur.exc /\ row.reason = "role"
      <4> HIDE DEF cur, version
      <4> QED BY <3>2 DEF TaskRows
    <3> HIDE DEF row
    <3>4. task'[t] = row BY <3>1, OneTask
    <3>5. \A j \in DOMAIN run' : j.task = t => run'[j].status # "queued"
      BY <1>3, <1>8, <1>9, <2>1
    <3> QED BY <2>1, <3>2, <3>3, <3>4, <3>5 DEF TaskEffect, Planning
  <2>2. CASE ~(current /\ u = t)
    <3>1. \/ task' = task
          \/ u # t /\ task' = [task EXCEPT ![t] = row]
      BY <2>2 DEF SaveRoleBlock
    <3> HIDE DEF row, current
    <3>2. task'[u] = task[u] BY <3>1, OneTask
    <3> QED BY <3>2, StillTask
  <2> QED BY <2>1, <2>2
<1> HIDE DEF current, row
<1>11. \A j \in DOMAIN run : /\ run'[j].news = run[j].news
                             /\ run'[j].result = "observation" <=> run[j].result = "observation"
  BY <1>1, <1>9 DEF Closes
<1> QED BY <1>1, <1>9, <1>10, <1>11 DEF Effects

LEMMA ObserveEffects ==
  ASSUME StoreOK, NEW o, NEW k \in DOMAIN run, k.task \in Tasks, NEW rev,
         NEW observed, SaveObservation(o, k, rev, observed)
  PROVE  LET t == k.task
             taken == Fresh(t, observed)
             news == run'[k].news
         IN  /\ Effects /\ UNCHANGED <<enabled, chatOn>> /\ NewRuns = {}
             /\ \A j \in DOMAIN run \ {k} : Closes(j)
             /\ \A u \in Tasks \ {t} : task'[u] = task[u]
             /\ run[k].result = "none" /\ run'[k].result = "observation"
             /\ news \in {{}, taken} /\ (t \in Goals => news = taken)
             /\ mon' = [mon EXCEPT ![t] = Observed(t, taken, news)]
             /\ ~Reaches(t, news) => task'[t] = task[t]
             /\ Reaches(t, news) =>
                  /\ task'[t].status = "completed"
                  /\ task'[t].version = task[t].version + 1
                  /\ \A j \in DOMAIN run : j.task = t => run'[j].status # "queued"
<1> DEFINE t == k.task
           taken == Fresh(t, observed)
           news == IF rev = 0 /\ t \in Baselined THEN {} ELSE taken
           done == Reaches(t, news)
           cur == task[t]
           version == cur.version + 1
           row == [cur EXCEPT !.status = "completed", !.next = None, !.version = version,
                              !.reason = "none", !.until = None, !.exc = NoExc]
           status == IF news = {} THEN "no_change" ELSE "completed"
           end == [run[k] EXCEPT !.result = "observation", !.news = news, !.status = status]
<1>1. /\ run[k].status = "running" /\ run[k].result = "none"
      /\ UNCHANGED <<enabled, chatOn>>
      /\ mon' = [mon EXCEPT ![t] = Observed(t, taken, news)]
  BY DEF SaveObservation, Observable, Savable
<1>2. run[k] \in RunRows BY RunRowType
<1>3. PICK f \in {run, DropQueued(t)} :
        /\ run' = [f EXCEPT ![k] = [@ EXCEPT !.result = "observation", !.news = news,
                                             !.status = status]]
        /\ done => f = DropQueued(t)
  <2> DEFINE g == IF done THEN DropQueued(t) ELSE run
  <2>1. run' = [g EXCEPT ![k] = [@ EXCEPT !.result = "observation", !.news = news,
                                          !.status = status]]
    BY DEF SaveObservation
  <2>2. g \in {run, DropQueued(t)} /\ (done => g = DropQueued(t))
    OBVIOUS
  <2> HIDE DEF g, done, news, status
  <2> QED BY <2>1, <2>2
<1>4. f[k] = run[k] BY <1>1 DEF DropQueued, HasStatus
<1>5. run' = [f EXCEPT ![k] = end]
  <2> HIDE DEF news, status
  <2> QED BY <1>3, <1>4
<1>6. /\ end.result = "observation" /\ end.status = status /\ end.news = news
      /\ end.version = run[k].version
  <2> HIDE DEF news, status
  <2> QED BY <1>2 DEF RunRows
<1>7. status \in Ended BY DEF Ended
<1>8. /\ DOMAIN run' = DOMAIN run /\ run'[k] = end
      /\ \A j \in DOMAIN run : j # k => run'[j] = f[j]
  <2> HIDE DEF end
  <2> QED BY <1>5 DEF DropQueued
<1> HIDE DEF end, status
<1>9. /\ \A j \in DOMAIN run : /\ Goes(j)
                               /\ f = DropQueued(t) /\ j.task = t
                                    => run'[j].status # "queued"
                               /\ j # k => Closes(j)
      /\ run'[k].result = "observation" /\ run'[k].news = news /\ NewRuns = {}
  BY <1>6, <1>7, <1>8, EndRow
<1>10. news \in {{}, taken} /\ (t \in Goals => news = taken)
  BY StoreAssumption
<1> HIDE DEF news
<1>11. CASE done
  <2>1. task' = [task EXCEPT ![t] = row] BY <1>11 DEF SaveObservation, news
  <2>2. cur \in TaskRows /\ cur.version \in Nat BY TaskRowType
  <2>3. /\ row.status = "completed" /\ row.next = None /\ row.version = version
        /\ row.exc = NoExc /\ row.reason = "none"
    <3> HIDE DEF cur, version
    <3> QED BY <2>2 DEF TaskRows
  <2> HIDE DEF row
  <2>4. task'[t] = row /\ \A u \in Tasks \ {t} : task'[u] = task[u]
    BY <2>1, OneTask
  <2>5. \A u \in Tasks : TaskEffect(u)
    <3>1. TaskEffect(t) BY <2>2, <2>3, <2>4 DEF TaskEffect, Planning
    <3> QED BY <3>1, <2>4, StillTask
  <2> QED BY <1>1, <1>3, <1>9, <1>10, <1>11, <2>3, <2>4, <2>5 DEF Effects
<1>12. CASE ~done
  <2>1. task' = task BY <1>12 DEF SaveObservation, news
  <2> QED BY <1>1, <1>9, <1>10, <1>12, <2>1, StillTask DEF Effects
<1> QED BY <1>11, <1>12

LEMMA ResumeEffects ==
  ASSUME TypeOK, NEW o \in Owners, Resumes(o)
  PROVE  /\ Keeps /\ Effects /\ UNCHANGED <<enabled, chatOn, mon, run>>
         /\ job[Worker(o)].task \in Tasks /\ job[Worker(o)].pc = "commit"
<1> DEFINE th == Worker(o)
           t == job[th].task
           at == job[th].at
           latest == LatestFire(task[t].rule, at, task[t].exc)
           late   == latest # None /\ latest >= task[t].until /\ at - latest <= LateWindow
           due    == IF late THEN latest ELSE NextFire(task[t].rule, at, task[t].exc)
<1>1. job[th].pc = "commit" /\ t \in Tasks
  BY AtTask DEF Resumes, At, OnTask
<1>2. ResumeAs(t, due) BY DEF Resumes, AutoResume
<1>3. StoreOK BY DEF TypeOK
<1> HIDE DEF due
<1>4. task[t].version \in Nat BY <1>1, <1>3, TaskRowType
<1>5. Planning(t) BY DEF Planning
<1>6. TaskEffect(t)
  BY <1>1, <1>2, <1>3, <1>4, <1>5, ResumeRow DEF TaskEffect
<1>7. /\ \A u \in Tasks \ {t} : task'[u] = task[u]
      /\ UNCHANGED <<enabled, chatOn, run, mon>>
  BY <1>1, <1>2, <1>3, ResumeRow
<1> QED BY <1>1, <1>3, <1>6, <1>7, StillTask, ClosesSame, ClosesGoes
        DEF Effects, Keeps, NewRuns

LEMMA BlockEffects ==
  ASSUME TypeOK, NEW o \in Owners, Blocks(o)
  PROVE  /\ Keeps /\ Effects /\ UNCHANGED <<enabled, chatOn, mon, run>>
<1> DEFINE th == Worker(o)
           t == job[th].task
           cur == task[t]
           version == cur.version + 1
           row == [cur EXCEPT !.reason = "resume_blocked", !.until = None,
                              !.version = version]
<1>1. t \in Tasks BY AtTask DEF Blocks, At, OnTask
<1>2. task' = [task EXCEPT ![t] = row] /\ UNCHANGED <<enabled, chatOn, mon, run>>
  BY DEF Blocks, BlockResume
<1>3. StoreOK BY DEF TypeOK
<1>4. cur \in TaskRows /\ cur.version \in Nat BY <1>1, <1>3, TaskRowType
<1>5. /\ row.version = version /\ row.status = cur.status /\ row.next = cur.next
      /\ row.exc = cur.exc /\ row.rule = cur.rule /\ row.reason = "resume_blocked"
  <2> HIDE DEF cur, version
  <2> QED BY <1>4 DEF TaskRows
<1> HIDE DEF row
<1>6. task'[t] = row /\ \A u \in Tasks \ {t} : task'[u] = task[u]
  BY <1>1, <1>2, <1>3, OneTask
<1>7. TaskEffect(t) BY <1>4, <1>5, <1>6 DEF TaskEffect, Planning
<1> QED BY <1>2, <1>3, <1>6, <1>7, StillTask, ClosesSame, ClosesGoes
        DEF Effects, Keeps, NewRuns

LEMMA EditEffects ==
  ASSUME StoreOK, NEW t \in Tasks, UserTask(t)
  PROVE  /\ Keeps /\ Effects /\ UNCHANGED <<enabled, chatOn, mon>>
         /\ \A k \in NewRuns : k.task = t /\ k.trigger # "scheduled"
<1>1. Edits(t) BY UserEdits
<1> QED BY <1>1, StillTask, ClosesGoes DEF Edits, Effects, Keeps

LEMMA QuietEffects ==
  ASSUME StoreOK, Quiet
  PROVE  Effects /\ UNCHANGED <<enabled, chatOn, mon>>
<1>1. \A t \in Tasks : TaskEffect(t) BY StillTask DEF Quiet
<1>2. ASSUME NEW k \in DOMAIN run PROVE Goes(k)
  BY <1>2 DEF Quiet, Steady, Goes
<1> QED BY <1>1, <1>2 DEF Effects, Quiet, NewRuns

\* The thread that saves a result works on a run.
LEMMA SavingRun ==
  ASSUME TypeOK, NEW o \in Owners, WorkSave(o)
  PROVE  /\ job[Worker(o)] \in Jobs /\ job[Worker(o)].key \in DOMAIN run
         /\ job[Worker(o)].key.task \in Tasks /\ Worker(o) \in Threads
         /\ job[Worker(o)].pc = "save"
<1>1. At(Worker(o), "save") /\ "save" \in OnRun
  BY DEF WorkSave, OnRun, OnTask, Pcs
<1> QED BY <1>1, AtRun DEF At

LEMMA StepEffects ==
  ASSUME TypeOK, [Next]_vars
  PROVE  Effects /\ (UNCHANGED <<enabled, chatOn>> \/ UserSwitch)
<1>0. StoreOK BY DEF TypeOK
<1>1. CASE Quiet BY <1>0, <1>1, QuietEffects
<1>2. CASE UserSwitch BY <1>0, <1>2, SwitchEffects
<1>3. ASSUME NEW t \in Tasks, UserTask(t) PROVE Effects /\ UNCHANGED <<enabled, chatOn>>
  BY <1>0, <1>3, EditEffects
<1>4. ASSUME NEW o \in Owners, Plans(o) PROVE Effects /\ UNCHANGED <<enabled, chatOn>>
  <2>1. CASE Admits(o) BY <1>0, <2>1, AdmitEffects DEF Admits
  <2>2. CASE Refuses(o) BY <1>0, <2>2, SavingRun, RefuseEffects DEF Refuses
  <2>3. CASE Observes(o)
    <3> DEFINE k == job[Worker(o)].key
               rev == job[Worker(o)].rev
               observed == job[Worker(o)].observed
    <3>1. SaveObservation(o, k, rev, observed) BY <2>3 DEF Observes
    <3>2. k \in DOMAIN run /\ k.task \in Tasks BY <2>3, SavingRun DEF Observes
    <3> HIDE DEF k, rev, observed
    <3> QED BY <1>0, <3>1, <3>2, ObserveEffects
  <2>4. CASE Resumes(o) BY <2>4, ResumeEffects
  <2>5. CASE Blocks(o) BY <2>5, BlockEffects
  <2> QED BY <1>4, <2>1, <2>2, <2>3, <2>4, <2>5 DEF Plans
<1> QED BY <1>1, <1>2, <1>3, <1>4, PlanStep
-----------------------------------------------------------------------------
(* Queues and plans.                                                       *)

LEMMA RunTasks ==
  ASSUME TypeOK, NEW k \in DOMAIN run
  PROVE  k \in Keys /\ k.task \in Tasks /\ run[k] \in RunRows
  BY DEF TypeOK, StoreOK, IsRunTable, Keys

\* Closing a switch empties its queues in the same transaction, and a retry
\* that comes back looks at the switches again.
THEOREM ClosedQueuesAreEmpty == Spec => []ClosedQueueEmpty
<1>1. Init => ClosedQueueEmpty BY DEF Init, StoreInit, EmptyTable, ClosedQueueEmpty
<1>2. ASSUME TypeOK, ClosedQueueEmpty, [Next]_vars PROVE ClosedQueueEmpty'
  <2>0. StoreOK BY <1>2 DEF TypeOK
  <2> SUFFICES ASSUME NEW k \in DOMAIN run', run'[k].status = "queued"
               PROVE  enabled' /\ Permitted(k.task)'
    BY DEF ClosedQueueEmpty
  <2>1. Effects /\ (UNCHANGED <<enabled, chatOn>> \/ UserSwitch)
    BY <1>2, StepEffects
  <2>2. CASE UNCHANGED <<enabled, chatOn>>
    <3>1. enabled /\ Permitted(k.task)
      <4>1. CASE k \in DOMAIN run
        BY <1>2, <2>1, <4>1 DEF Effects, Goes, MayReturn, ClosedQueueEmpty
      <4>2. CASE k \notin DOMAIN run
        BY <2>1, <4>2 DEF Effects, NewRuns, Inserted, Offered
      <4> QED BY <4>1, <4>2
    <3> QED BY <2>2, <3>1 DEF Permitted
  <2>3. CASE UserSwitch
    <3>1. k \in DOMAIN run BY <2>0, <2>3, SwitchEffects DEF NewRuns
    <3>2. run[k].status = "queued"
      BY <2>0, <2>3, <3>1, SwitchEffects DEF Keeps, Closes, Ended
    <3> QED BY <1>2, <2>0, <2>3, <3>1, <3>2, RunTasks, SwitchEffects DEF ClosedQueueEmpty
  <2> QED BY <2>1, <2>2, <2>3
<1>3. TypeOK /\ ClosedQueueEmpty /\ [Next]_vars => ClosedQueueEmpty' BY <1>2
<1> QED BY <1>1, <1>3, TypeCorrect, PTL DEF Spec

\* The timer and "run now" look for a live run of the task in the transaction
\* that inserts theirs.
THEOREM RunsDoNotOverlap == Spec => []NoOverlap
<1>1. Init => NoOverlap BY DEF Init, StoreInit, EmptyTable, NoOverlap
<1>2. ASSUME TypeOK, NoOverlap, [Next]_vars PROVE NoOverlap'
  <2> DEFINE Busy(r, k) == r[k].status \in {"queued", "running"}
  <2>1. Effects BY <1>2, StepEffects
  <2>2. ASSUME NEW k \in DOMAIN run, Busy(run', k) PROVE Busy(run, k)
    BY <2>1, <2>2 DEF Effects, Goes
  <2>3. ASSUME NEW k \in NewRuns, Busy(run', k), k.task \notin Baselined
        PROVE  \A j \in DOMAIN run : j.task = k.task => ~Busy(run, j)
    BY <2>1, <2>3 DEF Effects, Inserted, IsNew, Offered, Live, HasStatus
  <2>4. ASSUME NEW j \in DOMAIN run', NEW k \in DOMAIN run',
               j.task = k.task, j.task \notin Baselined, Busy(run', j), Busy(run', k)
        PROVE  j = k
    <3>1. CASE j \in DOMAIN run /\ k \in DOMAIN run
      BY <1>2, <2>2, <2>4, <3>1 DEF NoOverlap
    <3>2. CASE j \in NewRuns /\ k \in NewRuns BY <2>1, <2>4, <3>2 DEF Effects
    <3>3. CASE j \in NewRuns /\ k \in DOMAIN run BY <2>2, <2>3, <2>4, <3>3
    <3>4. CASE j \in DOMAIN run /\ k \in NewRuns BY <2>2, <2>3, <2>4, <3>4
    <3> QED BY <3>1, <3>2, <3>3, <3>4 DEF NewRuns
  <2> QED BY <2>4 DEF NoOverlap
<1>3. TypeOK /\ NoOverlap /\ [Next]_vars => NoOverlap' BY <1>2
<1> QED BY <1>1, <1>3, TypeCorrect, PTL DEF Spec

\* Every transaction that changes the status of a task computes or clears its
\* next fire, and those that pause or delete it drop its queue.
THEOREM PlansMatchStatuses == Spec => []PlanMatchesStatus
<1>1. Init => PlanMatchesStatus
  BY DEF Init, StoreInit, EmptyTable, AbsentTask, HasStatus, PlanMatchesStatus
<1>2. ASSUME TypeOK, PlanMatchesStatus, [Next]_vars PROVE PlanMatchesStatus'
  <2>1. Effects BY <1>2, StepEffects
  <2>2. ASSUME NEW t \in Tasks
        PROVE  task'[t].status = "active" <=> task'[t].next # None
    BY <1>2, <2>1 DEF Effects, TaskEffect, PlanMatchesStatus
  <2>3. ASSUME NEW t \in Tasks, NEW k \in DOMAIN run', k.task = t,
               run'[k].status = "queued"
        PROVE  /\ task'[t].status # "deleted"
               /\ task'[t].status = "paused" => k.trigger = "manual"
    <3>1. CASE k \notin DOMAIN run
      BY <2>1, <2>3, <3>1 DEF Effects, NewRuns, Inserted, Offered
    <3>2. CASE k \in DOMAIN run /\ run[k].status = "queued"
      BY <1>2, <2>1, <2>3, <3>2 DEF Effects, TaskEffect, PlanMatchesStatus, HasStatus
    <3>3. CASE k \in DOMAIN run /\ run[k].status # "queued"
      BY <2>1, <2>3, <3>3 DEF Effects, Goes, MayReturn
    <3> QED BY <3>1, <3>2, <3>3
  <2> QED BY <2>2, <2>3 DEF PlanMatchesStatus, HasStatus
<1>3. TypeOK /\ PlanMatchesStatus /\ [Next]_vars => PlanMatchesStatus' BY <1>2
<1> QED BY <1>1, <1>3, TypeCorrect, PTL DEF Spec
-----------------------------------------------------------------------------
(* How threads come to an answer, and to the end of a pause.               *)

\* The pcs of an answer not yet saved, and of a resume.
Watched == {"recheck", "save"} \cup OnTask

Observing(j) == j.outcome \in {"observed", "unchanged"}

Arrives(old, new) ==
  \/ new.pc \notin Watched
  \/ /\ new.pc \in {"recheck", "save"}
     /\ Observing(new) => \/ new.key.task \in Monitored
                          \/ /\ old.pc = "recheck" /\ Observing(old)
                             /\ new.key = old.key
  \/ /\ new.pc = "review" /\ new.task \in Tasks
     /\ new.version = task[new.task].version /\ task[new.task].status # "absent"
  \/ /\ new.pc = "block" /\ old.pc \in {"review", "commit"}
     /\ new.task = old.task /\ new.version = old.version
  \/ /\ new.pc = "commit" /\ old.pc = "review" /\ new.at = now
     /\ new.task = old.task /\ new.version = old.version
     /\ new.version = task[new.task].version /\ ~GoalDone(new.task)

Comes(th) == job'[th] = job[th] \/ Arrives(job[th], job'[th])

LEMMA OneComes ==
  ASSUME TypeOK, NEW x \in Threads, NEW j, Arrives(job[x], j),
         job' = [job EXCEPT ![x] = j], NEW th \in Threads
  PROVE  Comes(th)
  BY DEF TypeOK, JobsOK, Comes

LEMMA LeaveComes ==
  ASSUME TypeOK, NEW x \in Threads, Leave(x), NEW th \in Threads
  PROVE  Comes(th)
<1>1. Arrives(job[x], IdleJob) BY DEF Arrives, IdleJob, Watched, OnTask
<1> QED BY <1>1, OneComes DEF Leave

LEMMA GotoComes ==
  ASSUME TypeOK, NEW x \in Threads, NEW pc, Goto(x, pc), NEW th \in Threads,
         pc \notin Watched
  PROVE  Comes(th)
<1> DEFINE j == [job[x] EXCEPT !.pc = pc]
<1>1. job[x] \in Jobs BY Current
<1>2. Arrives(job[x], j) BY <1>1 DEF Arrives, Jobs
<1>3. job' = [job EXCEPT ![x] = j] BY DEF Goto
<1> HIDE DEF j
<1> QED BY <1>2, <1>3, OneComes

LEMMA ThrowComes ==
  ASSUME TypeOK, NEW x \in Threads, NEW exc, Throw(x, exc), NEW th \in Threads
  PROVE  Comes(th)
<1> DEFINE j == [job[x] EXCEPT !.pc = "caught", !.exc = exc]
<1>1. job[x] \in Jobs BY Current
<1>2. Arrives(job[x], j) BY <1>1 DEF Arrives, Jobs, Watched, OnTask
<1>3. job' = [job EXCEPT ![x] = j] BY DEF Throw
<1> HIDE DEF j
<1> QED BY <1>2, <1>3, OneComes

\* Deliveries stay away from both.
LEMMA DeliverComes ==
  ASSUME TypeOK, NEW x \in Threads, Deliver(x), NEW th \in Threads
  PROVE  Comes(th)
<1>1. job[x] \in Jobs BY Current
<1>2. {"finish", "cancel", "send"} \cap Watched = {} BY DEF Watched, OnTask
<1>3. ASSUME NEW pc \in {"finish", "cancel", "send"}, Goto(x, pc) PROVE Comes(th)
  BY <1>2, <1>3, GotoComes
<1>4. ASSUME Leave(x) PROVE Comes(th) BY <1>4, LeaveComes
<1>5. ASSUME NEW todo, job' = [job EXCEPT ![x] = [@ EXCEPT !.pc = "reserve", !.todo = todo]]
      PROVE  Comes(th)
  <2> DEFINE j == [job[x] EXCEPT !.pc = "reserve", !.todo = todo]
  <2>1. Arrives(job[x], j) BY <1>1 DEF Arrives, Jobs, Watched, OnTask
  <2>2. job' = [job EXCEPT ![x] = j] BY <1>5
  <2> HIDE DEF j
  <2> QED BY <2>1, <2>2, OneComes
<1>6. CASE DeliverRun(x)
  <2>1. \E todo : job' = [job EXCEPT ![x] = [@ EXCEPT !.pc = "reserve", !.todo = todo]]
    BY <1>6 DEF DeliverRun
  <2> QED BY <1>5, <2>1
<1>7. CASE DeliverReserve(x)
  <2>1. ASSUME NEW todo, job' = [job EXCEPT ![x].todo = todo] PROVE Comes(th)
    <3> DEFINE j == [job[x] EXCEPT !.todo = todo]
    <3>1. job[x].pc = "reserve" BY <1>7 DEF DeliverReserve, At
    <3>2. Arrives(job[x], j) BY <1>1, <3>1 DEF Arrives, Jobs, Watched, OnTask
    <3>3. job' = [job EXCEPT ![x] = j] BY <2>1
    <3> HIDE DEF j
    <3> QED BY <3>2, <3>3, OneComes
  <2>2. \/ Leave(x) \/ \E pc \in {"finish", "send"} : Goto(x, pc)
        \/ \E todo : job' = [job EXCEPT ![x].todo = todo]
    BY <1>7 DEF DeliverReserve, Delivered
  <2> QED BY <1>3, <1>4, <2>1, <2>2
<1>8. CASE DeliverSend(x)
  <2>1. ASSUME NEW res, NEW raised, Sent(x, res, raised) PROVE Comes(th)
    <3> DEFINE j == [job[x] EXCEPT !.pc = "settle", !.res = res, !.raised = raised]
    <3>1. Arrives(job[x], j) BY <1>1 DEF Arrives, Jobs, Watched, OnTask
    <3>2. job' = [job EXCEPT ![x] = j] BY <2>1 DEF Sent
    <3> HIDE DEF j
    <3> QED BY <3>1, <3>2, OneComes
  <2> QED BY <1>8, <2>1 DEF DeliverSend
<1>9. CASE DeliverSettle(x)
  BY <1>3, <1>4, <1>5, <1>9 DEF DeliverSettle, Delivered
<1> QED BY <1>6, <1>7, <1>8, <1>9 DEF Deliver

LEMMA WorkerComes ==
  ASSUME TypeOK, NEW o \in Owners, Work(o), NEW th \in Threads
  PROVE  Comes(th)
<1> DEFINE x == Worker(o)
<1>0. x \in Threads /\ job[x] \in Jobs BY WorkerThread, Current
<1> DEFINE Elsewhere == {"check", "turn", "wait", "blocked", "fail", "cancel", "finish",
                         "deliver"}
<1>1. Elsewhere \cap Watched = {} BY DEF Watched, OnTask
<1>2. ASSUME Leave(x) PROVE Comes(th) BY <1>0, <1>2, LeaveComes
<1>3. ASSUME NEW pc \in Elsewhere, Goto(x, pc) PROVE Comes(th)
  BY <1>0, <1>1, <1>3, GotoComes
<1>4. ASSUME NEW exc, Throw(x, exc) PROVE Comes(th)
  BY <1>0, <1>4, ThrowComes
<1>5. ASSUME NEW j, Arrives(job[x], j), job' = [job EXCEPT ![x] = j] PROVE Comes(th)
  BY <1>0, <1>5, OneComes
<1>6. CASE WorkStart(o) \/ WorkReply(o) \/ WorkTurn(o) \/ WorkFail(o)
           \/ WorkBlocked(o) \/ WorkFinish(o) \/ WorkBlock(o)
  BY <1>2, <1>3, <1>4, <1>6
     DEF WorkStart, WorkReply, WorkTurn, WorkFail, WorkBlocked, WorkFinish, WorkBlock
<1>7. CASE WorkCheck(o)
  <2>1. ASSUME NEW rev, job' = [job EXCEPT ![x] = [@ EXCEPT !.pc = "reply", !.rev = rev]]
        PROVE  Comes(th)
    <3> DEFINE j == [job[x] EXCEPT !.pc = "reply", !.rev = rev]
    <3>1. Arrives(job[x], j) BY <1>0 DEF Arrives, Jobs, Watched, OnTask
    <3>2. job' = [job EXCEPT ![x] = j] BY <2>1
    <3> HIDE DEF j, x
    <3> QED BY <1>5, <3>1, <3>2
  <2>2. ASSUME NEW rev, job[x].key.task \in Monitored,
               job' = [job EXCEPT ![x] = [@ EXCEPT !.pc = "save", !.rev = rev,
                                                   !.outcome = "unchanged"]]
        PROVE  Comes(th)
    <3> DEFINE j == [job[x] EXCEPT !.pc = "save", !.rev = rev, !.outcome = "unchanged"]
    <3>1. Arrives(job[x], j) BY <1>0, <2>2 DEF Arrives, Jobs
    <3>2. job' = [job EXCEPT ![x] = j] BY <2>2
    <3> HIDE DEF j, x
    <3> QED BY <1>5, <3>1, <3>2
  <2> QED BY <1>3, <1>4, <1>7, <2>1, <2>2 DEF WorkCheck
<1>8. CASE WorkAnswer(o)
  <2>1. ASSUME NEW out, NEW seen, out = "observed" => job[x].key.task \in Monitored,
               out \in Outcomes,
               job' = [job EXCEPT ![x] =
                         [@ EXCEPT !.pc = "recheck", !.outcome = out,
                                   !.observed = seen, !.inferred = TRUE]]
        PROVE  Comes(th)
    <3> DEFINE j == [job[x] EXCEPT !.pc = "recheck", !.outcome = out,
                                   !.observed = seen, !.inferred = TRUE]
    <3>1. Arrives(job[x], j) BY <1>0, <2>1, TaskAssumption DEF Arrives, Jobs, Observing
    <3>2. job' = [job EXCEPT ![x] = j] BY <2>1
    <3> HIDE DEF j, x
    <3> QED BY <1>5, <3>1, <3>2
  <2> QED BY <1>4, <1>8, <2>1 DEF WorkAnswer
<1>9. CASE WorkRecheck(o)
  <2>1. ASSUME Goto(x, "save") PROVE Comes(th)
    <3> DEFINE j == [job[x] EXCEPT !.pc = "save"]
    <3>1. job[x].pc = "recheck" BY <1>9 DEF WorkRecheck, At
    <3>2. Arrives(job[x], j) BY <1>0, <3>1 DEF Arrives, Jobs, Observing
    <3>3. job' = [job EXCEPT ![x] = j] BY <2>1 DEF Goto
    <3> HIDE DEF j, x
    <3> QED BY <1>5, <3>2, <3>3
  <2> QED BY <1>3, <1>4, <1>9, <2>1 DEF WorkRecheck
<1>10. CASE WorkSave(o)
  <2>1. ASSUME NEW status,
               job' = [job EXCEPT ![x] = [@ EXCEPT !.pc = "deliver", !.checked = TRUE,
                                                   !.status = status]]
        PROVE  Comes(th)
    <3> DEFINE j == [job[x] EXCEPT !.pc = "deliver", !.checked = TRUE, !.status = status]
    <3>1. Arrives(job[x], j) BY <1>0 DEF Arrives, Jobs, Watched, OnTask
    <3>2. job' = [job EXCEPT ![x] = j] BY <2>1
    <3> HIDE DEF j, x
    <3> QED BY <1>5, <3>1, <3>2
  <2> QED BY <1>2, <1>3, <1>4, <1>10, <2>1 DEF WorkSave
<1>11. CASE WorkCaught(o)
  <2>1. Goto(x, "cancel") \/ Goto(x, "fail") BY <1>11 DEF WorkCaught, Goto
  <2> QED BY <1>3, <2>1
<1>12. ASSUME Goto(x, "block"), job[x].pc \in {"review", "commit"} PROVE Comes(th)
  <2> DEFINE j == [job[x] EXCEPT !.pc = "block"]
  <2>1. Arrives(job[x], j) BY <1>0, <1>12 DEF Arrives, Jobs
  <2>2. job' = [job EXCEPT ![x] = j] BY <1>12 DEF Goto
  <2> HIDE DEF j, x
  <2> QED BY <1>5, <2>1, <2>2
<1>13. CASE WorkReview(o)
  <2>1. job[x].pc = "review" BY <1>13 DEF WorkReview, At
  <2>2. ASSUME job' = [job EXCEPT ![x] = [@ EXCEPT !.pc = "commit", !.at = now]],
               task[job[x].task].version = job[x].version, ~GoalDone(job[x].task)
        PROVE  Comes(th)
    <3> DEFINE j == [job[x] EXCEPT !.pc = "commit", !.at = now]
    <3>1. Arrives(job[x], j) BY <1>0, <2>1, <2>2 DEF Arrives, Jobs
    <3>2. job' = [job EXCEPT ![x] = j] BY <2>2
    <3> HIDE DEF j, x
    <3> QED BY <1>5, <3>1, <3>2
  <2> QED BY <1>2, <1>12, <1>13, <2>1, <2>2 DEF WorkReview
<1>14. CASE WorkCommit(o)
  <2>1. job[x].pc = "commit" BY <1>14 DEF WorkCommit, At
  <2> QED BY <1>2, <1>12, <1>14, <2>1 DEF WorkCommit
<1>15. CASE Deliver(x) BY <1>0, <1>15, DeliverComes
<1> HIDE DEF x, Elsewhere
<1> QED BY <1>6, <1>7, <1>8, <1>9, <1>10, <1>11, <1>13, <1>14, <1>15 DEF Work, x

LEMMA JobComes ==
  ASSUME TypeOK, [Next]_vars, NEW th \in Threads
  PROVE  Comes(th)
<1>1. ASSUME job' = job PROVE Comes(th) BY <1>1 DEF Comes
<1>2. CASE UNCHANGED vars \/ Advance \/ UserSwitch \/ \E t \in Tasks : UserTask(t)
  BY <1>1, <1>2 DEF vars, Advance, UserSwitch, UserTask, procVars
<1>3. ASSUME NEW o \in Owners,
             \/ Start(o) \/ Stop(o) \/ DropFuture(o) \/ Crash(o) \/ UserRedeliver(o)
             \/ Tick(o) \/ Work(o) \/ Deliver(Web(o))
      PROVE  Comes(th)
  <2>0. Worker(o) \in Threads /\ Web(o) \in Threads BY WorkerThread
  <2>1. CASE Start(o) \/ Stop(o) \/ TickLease(o) \/ TickAdmit(o)
    BY <1>1, <2>1 DEF Start, Stop, TickLease, TickAdmit
  <2>2. CASE DropFuture(o) BY <2>0, <2>2, LeaveComes DEF DropFuture
  <2>3. CASE Crash(o)
    BY <2>3 DEF Crash, Comes, Arrives, IdleJob, Watched, OnTask
  <2>4. IdleJob \in Jobs BY IdleOK DEF JobOK
  <2>5. ASSUME NEW x \in Threads, NEW pc \in {"start", "handed", "deliver"}, NEW k,
               job' = [job EXCEPT ![x] = [IdleJob EXCEPT !.pc = pc, !.key = k]]
        PROVE  Comes(th)
    <3> DEFINE j == [IdleJob EXCEPT !.pc = pc, !.key = k]
    <3>1. Arrives(job[x], j) BY <2>4 DEF Arrives, Jobs, Watched, OnTask
    <3>2. job' = [job EXCEPT ![x] = j] BY <2>5
    <3> HIDE DEF j
    <3> QED BY <3>1, <3>2, OneComes
  <2>6. CASE TickFailures(o) \/ UserRedeliver(o) \/ TickClaim(o)
    BY <1>1, <2>0, <2>5, <2>6 DEF TickFailures, UserRedeliver, TickClaim
  <2>7. CASE TickResumes(o)
    <3>1. ASSUME NEW t \in Tasks, task[t].status = "paused",
                 job' = [job EXCEPT ![Worker(o)] =
                           [IdleJob EXCEPT !.pc = "review", !.task = t,
                                           !.version = task[t].version]]
          PROVE  Comes(th)
      <4> DEFINE j == [IdleJob EXCEPT !.pc = "review", !.task = t,
                                      !.version = task[t].version]
      <4>1. Arrives(job[Worker(o)], j) BY <2>4, <3>1 DEF Arrives, Jobs
      <4>2. job' = [job EXCEPT ![Worker(o)] = j] BY <3>1
      <4> HIDE DEF j
      <4> QED BY <2>0, <4>1, <4>2, OneComes
    <3> QED BY <1>1, <2>7, <3>1 DEF TickResumes, PendingResumes
  <2>8. CASE Work(o) BY <2>8, WorkerComes
  <2>9. CASE Deliver(Web(o)) BY <2>0, <2>9, DeliverComes
  <2> QED BY <1>3, <2>1, <2>2, <2>3, <2>6, <2>7, <2>8, <2>9 DEF Tick
<1> QED BY <1>2, <1>3 DEF Next
-----------------------------------------------------------------------------
(* Fires.                                                                  *)

\* The original occurrence of an exception that takes it away.
Skips(exc) == exc.original # None /\ exc.replacement # exc.original

\* n, still ahead of time u, is the first fire after u.
Stands(rule, exc, n, u) ==
  \/ n = exc.replacement
  \/ Forward[rule][u] = n
  \/ /\ Forward[rule][u] = exc.original /\ exc.original # None
     /\ Forward[rule][exc.original] = n

\* next_fire looks ahead, and never finds the occurrence that was skipped.
LEMMA NextFireAhead ==
  ASSUME NEW rule \in Rules, NEW exc \in Exceptions, NEW u \in Times,
         NEW n, n = NextFire(rule, u, exc), n # None
  PROVE  /\ n \in Times /\ n > u /\ Stands(rule, exc, n, u)
         /\ Skips(exc) => n # exc.original
<1> DEFINE base == Forward[rule][u]
           kept == IF base # None /\ base = exc.original
                   THEN Forward[rule][base] ELSE base
<1>0. /\ exc.original \in OrNone(Times) /\ exc.replacement \in OrNone(Times)
      /\ Times \subseteq Nat /\ None \notin Nat
  BY StoreAssumption DEF Exceptions, Times
<1>1. base \in OrNone(Times) /\ (base # None => base > u)
  BY FireAssumption DEF OrNone
<1>2. /\ kept \in OrNone(Times) /\ (kept # None => kept > u)
      /\ kept # None => (kept = base /\ kept # exc.original)
                     \/ /\ base = exc.original /\ base # None
                        /\ Forward[rule][base] = kept /\ kept > base
  <2>1. CASE base # None /\ base = exc.original
    <3>1. base \in Times BY <1>1, <2>1 DEF OrNone
    <3>2. kept = Forward[rule][base] BY <2>1
    <3>3. kept \in OrNone(Times) /\ (kept # None => kept > base)
      BY <3>1, <3>2, FireAssumption DEF OrNone
    <3> HIDE DEF base, kept
    <3> QED BY <1>0, <1>1, <2>1, <3>1, <3>2, <3>3 DEF OrNone
  <2>2. CASE ~(base # None /\ base = exc.original)
    <3>1. kept = base BY <2>2
    <3> HIDE DEF base, kept
    <3> QED BY <1>0, <1>1, <2>2, <3>1 DEF OrNone
  <2> QED BY <2>1, <2>2
<1>3. \/ n = exc.replacement /\ exc.replacement > u
      \/ n = kept
  BY DEF NextFire
<1> HIDE DEF kept
<1>4. CASE n = exc.replacement /\ exc.replacement > u
  BY <1>0, <1>4 DEF Stands, Skips, OrNone
<1>5. CASE n = kept
  <2>1. n \in Times /\ n > u BY <1>2, <1>5 DEF OrNone
  <2>2. Stands(rule, exc, n, u)
    BY <1>2, <1>5 DEF Stands
  <2>3. n # exc.original
    <3>1. CASE kept # exc.original BY <1>5, <3>1
    <3>2. CASE kept > base /\ base = exc.original /\ base # None
      <4> HIDE DEF base
      <4> QED BY <1>0, <1>1, <1>5, <2>1, <3>2 DEF OrNone
    <3> QED BY <1>2, <1>5, <3>1, <3>2
  <2> QED BY <2>1, <2>2, <2>3
<1> QED BY <1>3, <1>4, <1>5

\* As long as it is ahead it stays the first.
LEMMA StandsOn ==
  ASSUME NEW rule \in Rules, NEW exc \in Exceptions, NEW u \in Times, NEW v \in Times,
         NEW n \in Times, Stands(rule, exc, n, u), u <= v, v < n
  PROVE  Stands(rule, exc, n, v)
<1>0. /\ exc.original \in OrNone(Times) /\ Times \subseteq Nat /\ None \notin Nat
  BY StoreAssumption DEF Exceptions, Times
<1>1. CASE n = exc.replacement BY <1>1 DEF Stands
<1>2. CASE Forward[rule][u] = n
  BY <1>0, <1>2, FireAssumption DEF Stands
<1>3. CASE /\ Forward[rule][u] = exc.original /\ exc.original # None
           /\ Forward[rule][exc.original] = n
  <2>1. exc.original \in Times BY <1>0, <1>3 DEF OrNone
  <2>2. CASE v < exc.original
    BY <1>0, <1>3, <2>1, <2>2, FireAssumption DEF Stands
  <2>3. CASE exc.original <= v
    BY <1>0, <1>3, <2>1, <2>3, FireAssumption DEF Stands
  <2>4. v \in Nat /\ exc.original \in Nat BY <1>0, <2>1
  <2> QED BY <2>2, <2>3, <2>4
<1> QED BY <1>1, <1>2, <1>3 DEF Stands

\* ... and next_fire finds one.
LEMMA StandsFires ==
  ASSUME NEW rule \in Rules, NEW exc \in Exceptions, NEW u \in Times, NEW n \in Times,
         Stands(rule, exc, n, u), n > u, Skips(exc) => n # exc.original
  PROVE  NextFire(rule, u, exc) # None
<1>0. /\ None \notin Nat /\ n # None /\ n \in Nat
      /\ exc.replacement \in OrNone(Times) /\ Times \subseteq Nat
      /\ Forward[rule][u] \in OrNone(Times)
  BY StoreAssumption, FireAssumption DEF Times, Exceptions, OrNone
<1>1. CASE n = exc.replacement
  BY <1>0, <1>1 DEF NextFire
<1>2. CASE n # exc.replacement
  <2> DEFINE base == Forward[rule][u]
             kept == IF base # None /\ base = exc.original
                     THEN Forward[rule][base] ELSE base
  <2>1. kept # None
    <3>1. CASE Forward[rule][u] = n
      <4>1. CASE n # exc.original BY <1>0, <3>1, <4>1
      <4>2. CASE n = exc.original /\ ~Skips(exc)
        BY <1>0, <1>2, <4>2 DEF Skips
      <4> QED BY <4>1, <4>2
    <3>2. CASE /\ Forward[rule][u] = exc.original /\ exc.original # None
               /\ Forward[rule][exc.original] = n
      BY <1>0, <3>2
    <3> QED BY <1>2, <3>1, <3>2 DEF Stands
  <2>2. \/ NextFire(rule, u, exc) = exc.replacement /\ exc.replacement # None
        \/ NextFire(rule, u, exc) = kept
    BY DEF NextFire
  <2> HIDE DEF kept
  <2> QED BY <2>1, <2>2
<1> QED BY <1>1, <1>2

\* latest_fire looks back, and never finds the occurrence that was skipped.
LEMMA LatestFirePast ==
  ASSUME NEW rule \in Rules, NEW exc \in Exceptions, NEW u \in Times,
         NEW n, n = LatestFire(rule, u, exc), n # None
  PROVE  n \in Times /\ n <= u /\ (Skips(exc) => n # exc.original)
<1> DEFINE base == Backward[rule][u]
           kept == IF base # None /\ base = exc.original
                   THEN Backward[rule][base - 1] ELSE base
<1>0. /\ exc.original \in OrNone(Times) /\ exc.replacement \in OrNone(Times)
      /\ Times \subseteq Nat /\ None \notin Nat /\ u \in Nat
      /\ \A v \in 1 .. u : v \in Times /\ v - 1 \in Times
  BY StoreAssumption DEF Exceptions, Times
<1>1. base # None => base \in 1 .. u
  BY FireAssumption
<1>2. kept # None => kept \in 1 .. u /\ kept # exc.original
  <2>1. CASE base # None /\ base = exc.original
    <3>1. base \in 1 .. u /\ base - 1 \in Times BY <1>0, <1>1, <2>1
    <3>2. kept = Backward[rule][base - 1] BY <2>1
    <3>3. kept # None => kept \in 1 .. (base - 1)
      BY <3>1, <3>2, FireAssumption
    <3> HIDE DEF base, kept
    <3> QED BY <1>0, <2>1, <3>1, <3>3
  <2>2. CASE ~(base # None /\ base = exc.original)
    <3>1. kept = base BY <2>2
    <3> HIDE DEF base, kept
    <3> QED BY <1>1, <2>2, <3>1
  <2> QED BY <2>1, <2>2
<1>3. \/ n = exc.replacement /\ exc.replacement <= u
      \/ n = kept
  BY DEF LatestFire
<1> HIDE DEF kept
<1> QED BY <1>0, <1>2, <1>3 DEF Skips, OrNone
-----------------------------------------------------------------------------
(* A skipped fire does not happen.                                         *)

\* The fires the timer recorded have passed.
PastFires == \A k \in DOMAIN run : k.trigger = "scheduled" => k.n <= now

\* The planned fire is not a skipped one, and it is the first one ahead.
Planned(t) ==
  LET cur == task[t]
  IN  cur.next # None =>
        /\ Skips(cur.exc) => cur.next # cur.exc.original
        /\ cur.next > now => Stands(cur.rule, cur.exc, cur.next, now)

\* A resume was judged before now.
JudgedBefore == \A th \in Threads : job[th].pc = "commit" => job[th].at <= now

SkipInv ==
  /\ PastFires /\ (\A t \in Tasks : Planned(t)) /\ JudgedBefore
  /\ SkipHonoured

LEMMA TimePasses ==
  ASSUME TypeOK, [Next]_vars
  PROVE  /\ now \in Nat /\ now' \in {now, now + 1} /\ (now' = now \/ Advance)
         /\ now \in Times
<1>1. now \in Times /\ MaxTime \in Nat BY StoreAssumption DEF TypeOK, StoreOK
<1>2. now' = now \/ Advance
  <2>1. ASSUME NEW o \in Owners, Plans(o) PROVE now' = now
    BY <2>1 DEF Plans, Admits, Refuses, Observes, Resumes, Blocks, TickAdmit, WorkSave
  <2>2. CASE UserSwitch BY <2>2 DEF UserSwitch
  <2>3. ASSUME NEW t \in Tasks, UserTask(t) PROVE now' = now BY <2>3 DEF UserTask
  <2> QED BY <2>1, <2>2, <2>3, PlanStep DEF Quiet
<1>3. Advance => now' = now + 1 BY DEF Advance
<1> QED BY <1>1, <1>2, <1>3 DEF Times

LEMMA PlannedKept ==
  ASSUME TypeOK, TypeOK', SkipInv, [Next]_vars, NEW t \in Tasks
  PROVE  Planned(t)'
<1> DEFINE old == task[t]
           new == task'[t]
<1>0. /\ old.next \in OrNone(Times) /\ old.exc \in Exceptions /\ old.rule \in Rules
      /\ Planned(t)
  BY TaskRowType DEF TypeOK, SkipInv
<1>1. /\ new.next \in OrNone(Times) /\ new.exc \in Exceptions /\ new.rule \in Rules
      /\ now' \in Times
  BY DEF TypeOK, StoreOK, IsTaskTable, TaskRows
<1>2. /\ now \in Times /\ now \in Nat /\ Times \subseteq Nat /\ None \notin Nat
      /\ now' \in {now, now + 1} /\ (now' = now \/ Advance)
  BY TimePasses, StoreAssumption DEF Times
<1>3. Planning(t) BY StepEffects DEF Effects, TaskEffect
<1> SUFFICES ASSUME new.next # None
             PROVE  /\ Skips(new.exc) => new.next # new.exc.original
                    /\ new.next > now' => Stands(new.rule, new.exc, new.next, now')
  BY DEF Planned, Stands
<1>4. new.next \in Times /\ new.next \in Nat BY <1>1, <1>2 DEF OrNone
<1> HIDE DEF old, new
<1>5. CASE new.next = old.next /\ new.rule = old.rule /\ new.exc = old.exc
  <2>1. Skips(new.exc) => new.next # new.exc.original
    BY <1>0, <1>5 DEF Planned, old
  <2>2. ASSUME new.next > now' PROVE Stands(new.rule, new.exc, new.next, now')
    <3>1. new.next > now /\ now <= now' /\ now' < new.next
      BY <1>2, <1>4, <2>2
    <3>2. Stands(new.rule, new.exc, new.next, now)
      BY <1>0, <1>5, <3>1 DEF Planned, old
    <3> QED BY <1>1, <1>2, <1>4, <3>1, <3>2, StandsOn
  <2> QED BY <2>1, <2>2
<1>6. ASSUME NEW at \in Times, at <= now, new.next = NextFire(new.rule, at, new.exc),
             now' = now
      PROVE  /\ Skips(new.exc) => new.next # new.exc.original
             /\ new.next > now' => Stands(new.rule, new.exc, new.next, now')
  <2>1. /\ Stands(new.rule, new.exc, new.next, at)
        /\ Skips(new.exc) => new.next # new.exc.original
    BY <1>1, <1>6, NextFireAhead
  <2>2. new.next > now' => now' < new.next
    BY <1>2, <1>4
  <2> QED BY <1>1, <1>2, <1>4, <1>6, <2>1, <2>2, StandsOn
<1>7. CASE new.next = NextFire(new.rule, now, new.exc)
  <2>1. CASE now' = now BY <1>2, <1>6, <1>7, <2>1
  <2>2. CASE Advance
    <3>1. task' = task BY <2>2 DEF Advance, storeVars
    <3> QED BY <1>5, <3>1 DEF old, new
  <2> QED BY <1>2, <2>1, <2>2
<1>8. ASSUME NEW o \in Owners, Resumes(o), job[Worker(o)].task = t
      PROVE  /\ Skips(new.exc) => new.next # new.exc.original
             /\ new.next > now' => Stands(new.rule, new.exc, new.next, now')
  <2> DEFINE at == job[Worker(o)].at
             latest == LatestFire(old.rule, at, old.exc)
             late   == latest # None /\ latest >= old.until /\ at - latest <= LateWindow
             due    == IF late THEN latest ELSE NextFire(old.rule, at, old.exc)
  <2>1. ResumeAs(t, due) /\ now' = now
    BY <1>8 DEF Resumes, AutoResume, old
  <2>2. at \in Times /\ at <= now
    <3>1. Worker(o) \in Threads /\ job[Worker(o)].pc = "commit"
      BY <1>8, WorkerThread DEF Resumes, At
    <3>2. job[Worker(o)] \in Jobs BY <3>1, Current
    <3> QED BY <3>1, <3>2 DEF Jobs, SkipInv, JudgedBefore
  <2>3. new.next = due /\ new.exc = old.exc /\ new.rule = old.rule
    <3> HIDE DEF due
    <3> QED BY <2>1, ResumeRow DEF old, new, TypeOK
  <2>4. CASE late
    <3>1. new.next = LatestFire(new.rule, at, new.exc) BY <2>3, <2>4
    <3> HIDE DEF at
    <3>2. new.next <= at /\ (Skips(new.exc) => new.next # new.exc.original)
      BY <1>1, <2>2, <3>1, LatestFirePast
    <3>3. at \in Nat BY <1>2, <2>2
    <3>4. ~(new.next > now') BY <1>2, <1>4, <2>1, <2>2, <3>2, <3>3
    <3> QED BY <3>2, <3>4
  <2>5. CASE ~late
    <3>1. new.next = NextFire(new.rule, at, new.exc) BY <2>3, <2>5
    <3> HIDE DEF at
    <3> QED BY <1>6, <2>1, <2>2, <3>1
  <2> QED BY <2>4, <2>5
<1> QED BY <1>3, <1>5, <1>7, <1>8 DEF Planning, old, new

\* The timer records fires that have passed, and none that was skipped.
LEMMA FiredPast ==
  ASSUME TypeOK, SkipInv, [Next]_vars, NEW k \in NewRuns, k.trigger = "scheduled"
  PROVE  /\ k.task \in Tasks /\ k.n <= now
         /\ Skips(task[k.task].exc) => k.n # task[k.task].exc.original
<1> DEFINE t == k.task
           cur == task[t]
<1>1. t \in Tasks /\ Fires(k) BY StepEffects DEF Effects, Inserted
<1>2. /\ cur.next \in OrNone(Times) /\ cur.exc \in Exceptions /\ cur.rule \in Rules
      /\ Planned(t)
  BY <1>1, TaskRowType DEF TypeOK, SkipInv
<1>3. now \in Times /\ now \in Nat /\ Times \subseteq Nat
  BY TimePasses DEF Times
<1>4. CASE k.n = cur.next /\ (cur.next <= now \/ NextFire(cur.rule, now, cur.exc) = None)
  <2>1. cur.next \in Times /\ cur.next # None BY <1>1, <1>2 DEF Fires, OrNone
  <2>2. Skips(cur.exc) => cur.next # cur.exc.original BY <1>2, <2>1 DEF Planned
  <2>3. ASSUME cur.next > now PROVE NextFire(cur.rule, now, cur.exc) # None
    <3>1. Stands(cur.rule, cur.exc, cur.next, now) BY <1>2, <2>1, <2>3 DEF Planned
    <3> HIDE DEF cur
    <3> QED BY <1>2, <1>3, <2>1, <2>2, <2>3, <3>1, StandsFires
  <2>4. cur.next <= now \/ cur.next > now BY <1>3, <2>1
  <2> HIDE DEF cur
  <2>5. k.n <= now BY <1>4, <2>3, <2>4
  <2>6. Skips(cur.exc) => k.n # cur.exc.original BY <1>4, <2>2
  <2> QED BY <1>1, <2>5, <2>6 DEF cur
<1>5. CASE k.n = LatestFire(cur.rule, now, cur.exc) /\ k.n # None
  <2> DEFINE n == k.n
  <2>1. n = LatestFire(cur.rule, now, cur.exc) /\ n # None BY <1>5
  <2> HIDE DEF n, cur
  <2>2. n <= now /\ (Skips(cur.exc) => n # cur.exc.original)
    BY <1>2, <1>3, <2>1, LatestFirePast
  <2> QED BY <1>1, <2>2 DEF n, cur
<1> QED BY <1>1, <1>4, <1>5 DEF Fires

LEMMA SkipInvKept ==
  ASSUME TypeOK, TypeOK', SkipInv, [Next]_vars
  PROVE  SkipInv'
<1>0. now \in Nat /\ now' \in Nat /\ now <= now' /\ Times \subseteq Nat
  BY TimePasses DEF Times
<1>1. Effects BY StepEffects
<1>2. PastFires'
  <2> SUFFICES ASSUME NEW k \in DOMAIN run', k.trigger = "scheduled"
               PROVE  k.n <= now'
    BY DEF PastFires
  <2>1. k \in Keys BY DEF TypeOK, StoreOK, IsRunTable
  <2>2. k.n \in Nat BY <2>1 DEF Keys
  <2>3. k.n <= now
    <3>1. CASE k \in DOMAIN run BY <3>1 DEF SkipInv, PastFires
    <3>2. CASE k \in NewRuns BY <3>2, FiredPast
    <3> QED BY <3>1, <3>2 DEF NewRuns
  <2> QED BY <1>0, <2>2, <2>3
<1>3. \A t \in Tasks : Planned(t)' BY PlannedKept
<1>4. JudgedBefore'
  <2> SUFFICES ASSUME NEW th \in Threads, job'[th].pc = "commit"
               PROVE  job'[th].at <= now'
    BY DEF JudgedBefore
  <2>1. job[th] \in Jobs BY Current
  <2>2. job[th].at \in Nat BY <1>0, <2>1 DEF Jobs
  <2>3. CASE job'[th] = job[th]
    <3>1. job[th].at <= now BY <2>3 DEF SkipInv, JudgedBefore
    <3> QED BY <1>0, <2>2, <2>3, <3>1
  <2>4. CASE Arrives(job[th], job'[th])
    BY <1>0, <2>4 DEF Arrives, Watched, OnTask
  <2> QED BY <2>3, <2>4, JobComes DEF Comes
<1>5. SkipHonoured'
  <2> SUFFICES ASSUME NEW t \in Tasks, Skips(task'[t].exc),
                      Key(t, "scheduled", task'[t].exc.original) \in DOMAIN run'
               PROVE  FALSE
    BY DEF SkipHonoured, Skips
  <2> DEFINE k == Key(t, "scheduled", task'[t].exc.original)
  <2>1. k.task = t /\ k.trigger = "scheduled" /\ k.n = task'[t].exc.original
    BY DEF Key
  <2>2. CASE task'[t].exc = task[t].exc
    <3>1. k \notin DOMAIN run
      BY <2>2 DEF SkipInv, SkipHonoured, Skips
    <3> HIDE DEF k
    <3>2. k \in NewRuns => k.n # task[t].exc.original
      BY <2>1, <2>2, FiredPast
    <3> QED BY <2>1, <2>2, <3>1, <3>2 DEF NewRuns, k
  <2>3. CASE task'[t].exc = NoExc BY <2>3 DEF NoExc, Skips
  <2>4. CASE /\ task'[t].exc.original = task[t].next /\ task[t].next # None
             /\ task[t].next > now
    <3>1. k \in DOMAIN run => k.n <= now
      BY <2>1 DEF SkipInv, PastFires
    <3> HIDE DEF k
    <3>2. k \in NewRuns => k.n <= now BY <2>1, FiredPast
    <3>3. k.n \in Times /\ k.n > now
      BY <2>1, <2>4, TaskRowType DEF OrNone, TypeOK
    <3>4. k \in DOMAIN run' BY DEF k
    <3>5. k.n <= now BY <3>1, <3>2, <3>4 DEF NewRuns
    <3>6. k.n \in Nat BY <1>0, <3>3
    <3> QED BY <1>0, <3>3, <3>5, <3>6
  <2> QED BY <1>1, <2>2, <2>3, <2>4 DEF Effects, TaskEffect
<1> QED BY <1>2, <1>3, <1>4, <1>5 DEF SkipInv

LEMMA SkipInvariant == Spec => []SkipInv
<1>1. Init => SkipInv
  <2> SUFFICES ASSUME Init PROVE SkipInv OBVIOUS
  <2>1. DOMAIN run = {} BY DEF Init, StoreInit, EmptyTable
  <2>2. \A t \in Tasks : task[t].next = None BY DEF Init, StoreInit, AbsentTask
  <2>3. \A th \in Threads : job[th].pc = "idle" BY DEF Init, IdleJob
  <2> QED BY <2>1, <2>2, <2>3 DEF SkipInv, PastFires, Planned, JudgedBefore, SkipHonoured
<1>2. TypeOK /\ TypeOK' /\ SkipInv /\ [Next]_vars => SkipInv' BY SkipInvKept
<1> QED BY <1>1, <1>2, TypeCorrect, PTL DEF Spec

\* A skipped fire does not happen: it is never the next one, neither from now
\* on nor when the passed fires are merged into the latest.
THEOREM SkippedFiresDoNotHappen == Spec => []SkipHonoured
<1>1. SkipInv => SkipHonoured BY DEF SkipInv
<1> QED BY <1>1, SkipInvariant, PTL
-----------------------------------------------------------------------------
(* What monitors count.                                                    *)

\* No observation is saved by the step.
Unobserved ==
  /\ mon' = mon
  /\ \A k \in DOMAIN run :
       /\ k \in DOMAIN run' /\ run'[k].news = run[k].news
       /\ run'[k].result = "observation" <=> run[k].result = "observation"
  /\ \A k \in NewRuns : run'[k].news = {} /\ run'[k].result # "observation"

LEMMA StepObserves ==
  ASSUME TypeOK, [Next]_vars
  PROVE  Unobserved \/ \E o \in Owners : Observes(o)
<1>0. StoreOK BY DEF TypeOK
<1>1. \A k \in NewRuns : run'[k].news = {} /\ run'[k].result # "observation"
  BY StepEffects DEF Effects, Inserted, IsNew
<1>2. CASE Quiet BY <1>1, <1>2 DEF Quiet, Steady, Unobserved
<1>3. ASSUME Keeps, mon' = mon PROVE Unobserved
  BY <1>1, <1>3 DEF Keeps, Closes, Unobserved
<1>4. CASE UserSwitch BY <1>0, <1>3, <1>4, SwitchEffects
<1>5. ASSUME NEW t \in Tasks, UserTask(t) PROVE Unobserved
  BY <1>0, <1>3, <1>5, EditEffects
<1>6. ASSUME NEW o \in Owners, Plans(o), ~Observes(o) PROVE Unobserved
  <2>1. CASE Admits(o) BY <1>0, <1>3, <2>1, AdmitEffects DEF Admits
  <2>2. CASE Refuses(o)
    <3>1. DOMAIN run \subseteq DOMAIN run' BY StepEffects DEF Effects, Goes
    <3>2. SaveRoleBlock(o, job[Worker(o)].key) /\ job[Worker(o)].key \in DOMAIN run
          /\ job[Worker(o)].key.task \in Tasks
      BY <2>2, SavingRun DEF Refuses
    <3> QED BY <1>0, <1>1, <3>1, <3>2, RefuseEffects DEF Unobserved
  <2>3. CASE Resumes(o) BY <1>3, <2>3, ResumeEffects
  <2>4. CASE Blocks(o) BY <1>3, <2>4, BlockEffects
  <2> QED BY <1>6, <2>1, <2>2, <2>3, <2>4 DEF Plans
<1> QED BY <1>2, <1>4, <1>5, <1>6, PlanStep

\* The run k saves what it observed.
Records(k, observed) ==
  LET t == k.task
      taken == Fresh(t, observed)
      news == run'[k].news
  IN  /\ t \in Tasks /\ NewRuns = {} /\ DOMAIN run' = DOMAIN run
      /\ \A j \in DOMAIN run \ {k} : Closes(j)
      /\ run[k].result = "none" /\ run'[k].result = "observation"
      /\ news \in {{}, taken} /\ (t \in Goals => news = taken)
      /\ mon' = [mon EXCEPT ![t] = Observed(t, taken, news)]
      /\ Reaches(t, news) =>
           /\ task'[t].status = "completed"
           /\ task'[t].version = task[t].version + 1
           /\ \A j \in DOMAIN run : j.task = t => run'[j].status # "queued"

LEMMA ObservedRun ==
  ASSUME TypeOK, NEW o \in Owners, Observes(o)
  PROVE  \E k \in DOMAIN run, observed \in SUBSET Events :
           k = job[Worker(o)].key /\ Records(k, observed)
<1> DEFINE me == job[Worker(o)]
           k == me.key
           rev == me.rev
           observed == me.observed
<1>1. /\ k \in DOMAIN run /\ k.task \in Tasks /\ me \in Jobs
  BY SavingRun DEF Observes
<1>2. SaveObservation(o, k, rev, observed) BY DEF Observes
<1>3. observed \in SUBSET Events BY <1>1 DEF Jobs
<1>4. StoreOK BY DEF TypeOK
<1>5. k = job[Worker(o)].key OBVIOUS
<1> HIDE DEF k, me, rev, observed
<1>6. Records(k, observed)
  <2>1. Effects /\ NewRuns = {} BY <1>1, <1>2, <1>4, ObserveEffects
  <2>2. DOMAIN run' = DOMAIN run BY <2>1 DEF NewRuns, Effects, Goes
  <2> DEFINE t == k.task
             taken == Fresh(t, observed)
             news == run'[k].news
  <2>3. /\ \A j \in DOMAIN run \ {k} : Closes(j)
        /\ run[k].result = "none" /\ run'[k].result = "observation"
    BY <1>1, <1>2, <1>4, ObserveEffects
  <2>5. run'[k].news \in {{}, Fresh(t, observed)}
    BY <1>1, <1>2, <1>4, ObserveEffects
  <2>7. t \in Goals => run'[k].news = Fresh(t, observed)
    BY <1>1, <1>2, <1>4, ObserveEffects
  <2>6. mon' = [mon EXCEPT ![t] = Observed(t, taken, news)]
    BY <1>1, <1>2, <1>4, ObserveEffects
  <2>4. Reaches(t, news) =>
          /\ task'[t].status = "completed"
          /\ task'[t].version = task[t].version + 1
          /\ \A j \in DOMAIN run : j.task = t => run'[j].status # "queued"
    BY <1>1, <1>2, <1>4, ObserveEffects
  <2> QED BY <1>1, <2>1, <2>2, <2>3, <2>4, <2>5, <2>6, <2>7 DEF Records
<1> QED BY <1>1, <1>3, <1>5, <1>6

\* What a run announced is in the ledger of its monitor.
NewsSeen == \A k \in DOMAIN run : run[k].news \subseteq mon[k.task].seen

\* An event that is in the ledger is not news again.
THEOREM NewsIsAnnouncedOnce == Spec => []NewsOnce
<1>1. Init => NewsSeen /\ NewsOnce
  BY DEF Init, StoreInit, EmptyTable, NewsSeen, NewsOnce
<1>2. ASSUME TypeOK, NewsSeen, NewsOnce, [Next]_vars PROVE NewsSeen' /\ NewsOnce'
  <2>1. CASE Unobserved
    <3>1. \A k \in DOMAIN run' :
            run'[k].news = IF k \in DOMAIN run THEN run[k].news ELSE {}
      BY <2>1 DEF Unobserved, NewRuns
    <3>2. NewsSeen' BY <1>2, <2>1, <3>1 DEF Unobserved, NewsSeen
    <3>3. NewsOnce' BY <1>2, <3>1 DEF NewsOnce
    <3> QED BY <3>2, <3>3
  <2>2. ASSUME NEW o \in Owners, Observes(o) PROVE NewsSeen' /\ NewsOnce'
    <3>0. PICK k \in DOMAIN run, observed \in SUBSET Events : Records(k, observed)
      BY <1>2, <2>2, ObservedRun
    <3> DEFINE t == k.task
               taken == Fresh(t, observed)
    <3>1. /\ t \in Tasks /\ DOMAIN run' = DOMAIN run
          /\ \A j \in DOMAIN run \ {k} : Closes(j)
          /\ run'[k].news \in {{}, taken}
          /\ mon' = [mon EXCEPT ![t] = Observed(t, taken, run'[k].news)]
      BY <3>0 DEF Records
    <3>2. taken \cap mon[t].seen = {} /\ run'[k].news \subseteq taken
      BY <3>1 DEF Fresh
    <3>3. mon'[t].seen = mon[t].seen \cup taken
          /\ \A u \in Tasks \ {t} : mon'[u] = mon[u]
      BY <1>2, <3>1 DEF TypeOK, StoreOK, Observed
    <3>4. \A j \in DOMAIN run : j # k => run'[j].news = run[j].news
      BY <3>1 DEF Closes
    <3>5. \A j \in DOMAIN run : j.task \in Tasks BY <1>2, RunTasks
    <3> HIDE DEF taken
    <3>6. NewsSeen'
      <4>1. \A j \in DOMAIN run : run[j].news \subseteq mon[j.task].seen
        BY <1>2 DEF NewsSeen
      <4>2. ASSUME NEW j \in DOMAIN run PROVE run'[j].news \subseteq mon'[j.task].seen
        <5>1. CASE j = k BY <3>2, <3>3, <5>1
        <5>2. CASE j # k BY <3>3, <3>4, <3>5, <4>1, <5>2
        <5> QED BY <5>1, <5>2
      <4> QED BY <3>1, <4>2 DEF NewsSeen
    <3>7. \A j \in DOMAIN run :
            j # k /\ j.task = t => run'[j].news \cap run'[k].news = {}
      BY <1>2, <3>2, <3>4 DEF NewsSeen
    <3>8. NewsOnce'
      <4> SUFFICES ASSUME NEW i \in DOMAIN run, NEW j \in DOMAIN run,
                          i.task = j.task, i # j
                   PROVE  run'[i].news \cap run'[j].news = {}
        BY <3>1 DEF NewsOnce
      <4>1. CASE i = k BY <3>7, <4>1
      <4>2. CASE j = k BY <3>7, <4>2
      <4>3. CASE i # k /\ j # k BY <1>2, <3>4, <4>3 DEF NewsOnce
      <4> QED BY <4>1, <4>2, <4>3
    <3> QED BY <3>6, <3>8
  <2> QED BY <1>2, <2>1, <2>2, StepObserves
<1>3. TypeOK /\ NewsSeen /\ NewsOnce /\ [Next]_vars => NewsSeen' /\ NewsOnce'
  BY <1>2
<1> QED BY <1>1, <1>3, TypeCorrect, PTL DEF Spec

\* Of the elements of a set, those with fewer than n smaller ones are n at most.
LEMMA EarliestBounded ==
  ASSUME NEW U \in SUBSET Nat, IsFiniteSet(U), NEW n \in Nat
  PROVE  LET first == {e \in U : Cardinality({f \in U : f < e}) < n}
         IN  IsFiniteSet(first) /\ Cardinality(first) <= n
<1> DEFINE below(e) == {f \in U : f < e}
           first == {e \in U : Cardinality(below(e)) < n}
           rank == [e \in first |-> Cardinality(below(e))]
           ranks == 0 .. (n - 1)
<1>1. \A e \in U : IsFiniteSet(below(e)) /\ Cardinality(below(e)) \in Nat
  BY FS_Subset, FS_CardinalityType
<1>2. ASSUME NEW d \in U, NEW e \in U, d < e
      PROVE  Cardinality(below(d)) # Cardinality(below(e))
  <2>0. d \in Nat /\ e \in Nat /\ \A f \in U : f \in Nat OBVIOUS
  <2>1. /\ \A f \in U : f < d => f < e
        /\ ~(d < d)
    BY <1>2, <2>0
  <2>2. below(d) \in SUBSET below(e) /\ d \in below(e) /\ d \notin below(d)
    BY <1>2, <2>1
  <2>3. IsFiniteSet(below(e)) BY <1>1
  <2>4. ASSUME NEW S, NEW T \in SUBSET S, IsFiniteSet(S), d \in S, d \notin T
        PROVE  Cardinality(T) # Cardinality(S)
    BY <2>4, FS_Subset
  <2> QED BY <2>2, <2>3, <2>4
<1>3. ASSUME NEW d \in first, NEW e \in first, rank[d] = rank[e] PROVE d = e
  <2>1. d \in Nat /\ e \in Nat /\ d \in U /\ e \in U OBVIOUS
  <2>2. Cardinality(below(d)) = Cardinality(below(e)) BY <1>3
  <2>3. d < e \/ e < d \/ d = e BY <2>1
  <2> QED BY <1>2, <2>1, <2>2, <2>3
<1>4. rank \in [first -> ranks]
  <2> SUFFICES ASSUME NEW e \in first PROVE Cardinality(below(e)) \in ranks
    OBVIOUS
  <2>1. e \in U /\ Cardinality(below(e)) < n OBVIOUS
  <2>2. Cardinality(below(e)) \in Nat BY <1>1, <2>1
  <2> HIDE DEF below
  <2> QED BY <2>1, <2>2
<1> HIDE DEF rank, ranks, first
<1>5. rank \in Injection(first, ranks) BY <1>3, <1>4 DEF Injection, IsInjective
<1>6. IsFiniteSet(ranks) /\ Cardinality(ranks) = n
  BY FS_Interval DEF ranks
<1>7. IsFiniteSet(first) /\ Cardinality(first) <= n BY <1>5, <1>6, FS_Injection
<1> QED BY <1>7 DEF first

\* A goal takes no more events than it still needs.
LEMMA TakenBounded ==
  ASSUME NEW t \in Goals, NEW observed \in SUBSET Events,
         IsFiniteSet(mon[t].ledger), Cardinality(mon[t].ledger) <= Target
  PROVE  LET ledger == mon[t].ledger \cup Fresh(t, observed)
         IN  IsFiniteSet(ledger) /\ Cardinality(ledger) <= Target
<1> DEFINE U == observed \ mon[t].seen
           had == Cardinality(mon[t].ledger)
           n == Target - had
           first == {e \in U : Cardinality({f \in U : f < e}) < n}
           taken == Fresh(t, observed)
<1>1. /\ U \in SUBSET Nat /\ U \in SUBSET Events /\ IsFiniteSet(Events)
      /\ Target \in Nat
  BY StoreAssumption
<1>2. IsFiniteSet(U) BY <1>1, FS_Subset
<1>3. had \in Nat /\ n \in Nat BY <1>1, FS_CardinalityType
<1>4. \A e \in U : Cardinality({f \in U : f < e}) \in Nat
  BY <1>2, FS_Subset, FS_CardinalityType
<1>5. taken = {e \in U : Cardinality({f \in U : f < e}) + had < Target}
  BY DEF Fresh
<1> HIDE DEF U, had, taken
<1>6. \A e \in U : Cardinality({f \in U : f < e}) + had < Target
                   <=> Cardinality({f \in U : f < e}) < n
  BY <1>1, <1>3, <1>4
<1>7. taken = first BY <1>5, <1>6
<1>8. IsFiniteSet(first) /\ Cardinality(first) <= n
  <2> HIDE DEF n
  <2> QED BY <1>1, <1>2, <1>3, EarliestBounded
<1>9. IsFiniteSet(taken) /\ Cardinality(taken) <= n BY <1>7, <1>8
<1>10. LET S == mon[t].ledger
       IN  /\ IsFiniteSet(S \cup taken)
           /\ Cardinality(S \cup taken) = had + Cardinality(taken) - Cardinality(S \cap taken)
           /\ Cardinality(S \cap taken) \in Nat /\ Cardinality(taken) \in Nat
  BY <1>9, FS_Union, FS_Intersection, FS_CardinalityType DEF had
<1>11. Cardinality(mon[t].ledger \cup taken) <= Target
  BY <1>1, <1>3, <1>9, <1>10
<1> QED BY <1>10, <1>11 DEF taken

Saved(t) == {k \in DOMAIN run : k.task = t /\ run[k].result = "observation"}

Counted(t) ==
  /\ IsFiniteSet(Saved(t)) /\ mon[t].rev = Cardinality(Saved(t))
  /\ t \in Goals =>
       /\ mon[t].ledger = UNION {run[k].news : k \in Saved(t)}
       /\ IsFiniteSet(mon[t].ledger) /\ Cardinality(mon[t].ledger) <= Target

\* Only the worker of a monitor's run comes to save an observation.
ObserversKnown ==
  \A th \in Threads :
    job[th].pc \in {"recheck", "save"} /\ Observing(job[th])
    => job[th].key.task \in Monitored

CountInv == ObserversKnown /\ \A t \in Monitored : Counted(t)

LEMMA CountedStill ==
  ASSUME Unobserved, NEW t, Counted(t)
  PROVE  Counted(t)'
<1>1. Saved(t)' = Saved(t) BY DEF Unobserved, Saved, NewRuns
<1>2. {run'[k].news : k \in Saved(t)} = {run[k].news : k \in Saved(t)}
  BY DEF Unobserved, Saved
<1> QED BY <1>1, <1>2 DEF Counted, Unobserved

LEMMA CountedOn ==
  ASSUME TypeOK, CountInv, NEW o \in Owners, Observes(o), NEW u \in Monitored
  PROVE  Counted(u)'
<1>1. PICK k \in DOMAIN run, observed \in SUBSET Events : Records(k, observed)
  BY ObservedRun
<1> DEFINE t == k.task
           taken == Fresh(t, observed)
           news == run'[k].news
<1>0. /\ t \in Tasks /\ DOMAIN run' = DOMAIN run
      /\ \A j \in DOMAIN run \ {k} : Closes(j)
      /\ run[k].result = "none" /\ run'[k].result = "observation"
      /\ t \in Goals => news = taken
      /\ mon' = [mon EXCEPT ![t] = Observed(t, taken, news)]
  BY <1>1 DEF Records
<1>2. u \in Tasks /\ Counted(u) BY StoreAssumption DEF CountInv
<1>3. \A j \in DOMAIN run \ {k} :
        run'[j].news = run[j].news /\ run'[j].result = run[j].result
  BY <1>0 DEF Closes
<1>4. CASE u # t
  <2>1. mon'[u] = mon[u] BY <1>0, <1>2, <1>4 DEF TypeOK, StoreOK
  <2>2. Saved(u)' = Saved(u) BY <1>0, <1>3, <1>4 DEF Saved
  <2>3. {run'[j].news : j \in Saved(u)} = {run[j].news : j \in Saved(u)}
    BY <1>3, <1>4 DEF Saved
  <2> QED BY <1>2, <2>1, <2>2, <2>3 DEF Counted
<1>5. CASE u = t
  <2>1. mon'[t] = Observed(t, taken, news) BY <1>0 DEF TypeOK, StoreOK
  <2>2. mon'[t].rev = mon[t].rev + 1 BY <2>1 DEF Observed
  <2>3. Saved(t)' = Saved(t) \cup {k} /\ k \notin Saved(t)
    BY <1>0, <1>3 DEF Saved
  <2>4. /\ IsFiniteSet(Saved(t)) /\ mon[t].rev = Cardinality(Saved(t))
    BY <1>2, <1>5 DEF Counted
  <2>5. IsFiniteSet(Saved(t)') /\ mon'[t].rev = Cardinality(Saved(t)')
    BY <2>2, <2>3, <2>4, FS_AddElement
  <2>6. ASSUME t \in Goals
        PROVE  /\ mon'[t].ledger = UNION {run'[j].news : j \in Saved(t)'}
               /\ IsFiniteSet(mon'[t].ledger) /\ Cardinality(mon'[t].ledger) <= Target
    <3>1. mon'[t].ledger = mon[t].ledger \cup news BY <2>1, <2>6 DEF Observed
    <3>2. mon[t].ledger = UNION {run[j].news : j \in Saved(t)}
      BY <1>2, <1>5, <2>6 DEF Counted
    <3>3. \A j \in Saved(t) : run'[j].news = run[j].news
      BY <1>3, <2>3 DEF Saved
    <3>4. UNION {run'[j].news : j \in Saved(t) \cup {k}}
            = (UNION {run[j].news : j \in Saved(t)}) \cup news
      <4> HIDE DEF news
      <4>1. {run'[j].news : j \in Saved(t) \cup {k}}
              = {run[j].news : j \in Saved(t)} \cup {news}
        BY <3>3 DEF news
      <4> QED BY <4>1
    <3>5. IsFiniteSet(mon[t].ledger) /\ Cardinality(mon[t].ledger) <= Target
      BY <1>2, <1>5, <2>6 DEF Counted
    <3>6. news = taken BY <1>0, <2>6
    <3>7. mon'[t].ledger = UNION {run'[j].news : j \in Saved(t)'}
      BY <2>3, <3>1, <3>2, <3>4
    <3> QED BY <2>6, <3>1, <3>5, <3>6, <3>7, TakenBounded
  <2> QED BY <1>5, <2>5, <2>6 DEF Counted
<1> QED BY <1>4, <1>5

LEMMA ObserversStayKnown ==
  ASSUME TypeOK, ObserversKnown, [Next]_vars
  PROVE  ObserversKnown'
<1> SUFFICES ASSUME NEW th \in Threads, job'[th].pc \in {"recheck", "save"},
                    Observing(job'[th])
             PROVE  job'[th].key.task \in Monitored
  BY DEF ObserversKnown, Observing
<1>1. CASE job'[th] = job[th] BY <1>1 DEF ObserversKnown
<1>2. CASE Arrives(job[th], job'[th])
  BY <1>2 DEF ObserversKnown, Arrives, Watched, OnTask
<1> QED BY <1>1, <1>2, JobComes DEF Comes

\* Revisions count observations, and a goal counts each event once and stops
\* at its target.
THEOREM ObservationsAreCounted == Spec => []ObservationsCounted
<1>1. Init => CountInv
  <2> SUFFICES ASSUME Init PROVE CountInv OBVIOUS
  <2>1. \A t : Saved(t) = {} BY DEF Init, StoreInit, EmptyTable, Saved
  <2>2. \A t \in Tasks : mon[t].rev = 0 /\ mon[t].ledger = {}
    BY DEF Init, StoreInit
  <2>3. \A th \in Threads : job[th].pc = "idle" BY DEF Init, IdleJob
  <2>4. Target \in Nat /\ Target >= 0 /\ Monitored \subseteq Tasks BY StoreAssumption
  <2> QED BY <2>1, <2>2, <2>3, <2>4, FS_EmptySet DEF CountInv, ObserversKnown, Counted
<1>2. ASSUME TypeOK, CountInv, [Next]_vars PROVE CountInv'
  <2>1. ObserversKnown' BY <1>2, ObserversStayKnown DEF CountInv
  <2>2. \A t \in Monitored : Counted(t)'
    BY <1>2, StepObserves, CountedStill, CountedOn DEF CountInv
  <2> QED BY <2>1, <2>2 DEF CountInv
<1>3. TypeOK /\ CountInv /\ [Next]_vars => CountInv' BY <1>2
<1>4. CountInv => ObservationsCounted
  BY DEF CountInv, Counted, Saved, ObservationsCounted
<1> QED BY <1>1, <1>3, <1>4, TypeCorrect, PTL DEF Spec
-----------------------------------------------------------------------------
(* A reached goal stays closed, unless its next fire is edited.            *)

\* Versions of tasks only grow: a run or a resume is never ahead of its task.
RunVersions ==
  \A k \in DOMAIN run :
    task[k.task].status # "absent" /\ run[k].version <= task[k.task].version

JobVersions ==
  \A th \in Threads :
    LET t == job[th].task
    IN  job[th].pc \in OnTask =>
          task[t].status # "absent" /\ job[th].version <= task[t].version

\* Nothing is left that could put the task of a reached goal to work: its runs
\* and resumes are from before the version that closed it.
GoalClosed(t) ==
  /\ task[t].status \notin {"active", "absent"}
  /\ \A k \in DOMAIN run :
       k.task = t => /\ run[k].status # "queued"
                     /\ run[k].status = "running" => run[k].version < task[t].version
  /\ \A th \in Threads :
       job[th].pc = "commit" /\ job[th].task = t
       => job[th].version < task[t].version

GoalInv ==
  /\ RunVersions /\ JobVersions
  /\ \A t \in Tasks : GoalDone(t) => GoalClosed(t)

LEMMA VersionsGrow ==
  ASSUME TypeOK, [Next]_vars, NEW t \in Tasks, task[t].status # "absent"
  PROVE  /\ task'[t].status # "absent" /\ task'[t].version >= task[t].version
         /\ task[t].version \in Nat
  BY StepEffects, TaskRowType DEF Effects, TaskEffect, TypeOK

LEMMA RunVersionsKept ==
  ASSUME TypeOK, TypeOK', RunVersions, [Next]_vars
  PROVE  RunVersions'
<1> SUFFICES ASSUME NEW k \in DOMAIN run'
             PROVE  /\ task'[k.task].status # "absent"
                    /\ run'[k].version <= task'[k.task].version
  BY DEF RunVersions
<1>1. CASE k \in DOMAIN run
  <2>1. run'[k].version = run[k].version BY <1>1, StepEffects DEF Effects, Goes
  <2>2. k.task \in Tasks /\ run[k].version \in Nat
    BY <1>1, RunTasks DEF RunRows
  <2>3. task'[k.task].version \in Nat
    BY <2>2 DEF TypeOK, StoreOK, IsTaskTable, TaskRows
  <2> QED BY <1>1, <2>1, <2>2, <2>3, VersionsGrow DEF RunVersions
<1>2. CASE k \in NewRuns
  <2>1. Inserted(k) BY <1>2, StepEffects DEF Effects
  <2> QED BY <2>1, VersionsGrow DEF Inserted
<1> QED BY <1>1, <1>2 DEF NewRuns

LEMMA JobVersionsKept ==
  ASSUME TypeOK, TypeOK', JobVersions, [Next]_vars
  PROVE  JobVersions'
<1> SUFFICES ASSUME NEW th \in Threads, job'[th].pc \in OnTask
             PROVE  /\ task'[job'[th].task].status # "absent"
                    /\ job'[th].version <= task'[job'[th].task].version
  BY DEF JobVersions
<1> DEFINE t == job'[th].task
<1>1. /\ t \in Tasks /\ task[t].status # "absent"
      /\ job'[th].version \in Nat /\ job'[th].version <= task[t].version
  <2>1. JobOK(job[th], DOMAIN run, DOMAIN dlv) BY DEF TypeOK, JobsOK
  <2>2. CASE job'[th] = job[th] BY <2>1, <2>2 DEF JobVersions, JobOK, Jobs
  <2>3. CASE Arrives(job[th], job'[th])
    <3>1. \A u \in Tasks : task[u].version \in Nat BY TaskRowType DEF TypeOK
    <3> QED BY <2>1, <2>3, <3>1 DEF Arrives, JobVersions, JobOK, Jobs, OnTask, Watched
  <2> QED BY <2>2, <2>3, JobComes DEF Comes
<1>2. task'[t].version \in Nat
  BY <1>1 DEF TypeOK, StoreOK, IsTaskTable, TaskRows
<1> HIDE DEF t
<1>3. /\ task'[t].status # "absent" /\ task'[t].version >= task[t].version
      /\ task[t].version \in Nat
  BY <1>1, VersionsGrow
<1> QED BY <1>1, <1>2, <1>3 DEF t

\* A goal that was reached stays closed.
LEMMA ClosedStays ==
  ASSUME TypeOK, TypeOK', GoalInv, [Next]_vars, "next" \notin UserOps,
         NEW t \in Tasks, GoalDone(t)
  PROVE  GoalClosed(t)'
<1>1. GoalClosed(t) BY DEF GoalInv
<1>2. Effects BY StepEffects
<1>3. /\ task[t].version \in Nat /\ task'[t].version \in Nat
      /\ task'[t].version >= task[t].version /\ task'[t].status # "absent"
  BY <1>1, VersionsGrow DEF GoalClosed, TypeOK, StoreOK, IsTaskTable, TaskRows
<1>4. task'[t].status # "active"
  <2>1. ASSUME NEW o \in Owners, Resumes(o), job[Worker(o)].task = t PROVE FALSE
    <3>1. /\ Worker(o) \in Threads /\ job[Worker(o)].pc = "commit"
          /\ task[t].version = job[Worker(o)].version
      BY <2>1, WorkerThread DEF Resumes, At
    <3> QED BY <1>1, <1>3, <2>1, <3>1 DEF GoalClosed
  <2> QED BY <1>1, <1>2, <2>1 DEF Effects, TaskEffect, GoalClosed
<1>5. ASSUME NEW k \in DOMAIN run', k.task = t
      PROVE  /\ run'[k].status # "queued"
             /\ run'[k].status = "running" => run'[k].version < task'[t].version
  <2>1. CASE k \in DOMAIN run
    <3>1. run[k].version \in Nat BY <2>1, RunTasks DEF RunRows
    <3>2. /\ run[k].status # "queued"
          /\ run[k].status = "running" => run[k].version < task[t].version
      BY <1>1, <1>5, <2>1 DEF GoalClosed
    <3>3. Goes(k) BY <1>2, <2>1 DEF Effects
    <3>4. run'[k].status # "queued" BY <1>3, <1>5, <3>1, <3>2, <3>3 DEF Goes, MayReturn
    <3> QED BY <1>3, <3>1, <3>2, <3>3, <3>4 DEF Goes
  <2>2. CASE k \in NewRuns
    BY <1>1, <1>2, <1>5, <2>2 DEF Effects, Inserted, IsNew, Offered, GoalClosed
  <2> QED BY <2>1, <2>2 DEF NewRuns
<1>6. ASSUME NEW th \in Threads, job'[th].pc = "commit", job'[th].task = t
      PROVE  job'[th].version < task'[t].version
  <2>1. CASE job'[th] = job[th]
    <3>1. job[th].version < task[t].version BY <1>1, <1>6, <2>1 DEF GoalClosed
    <3>2. job[th] \in Jobs BY Current
    <3>3. job[th].version \in Nat BY <3>2 DEF Jobs
    <3> QED BY <1>3, <2>1, <3>1, <3>3
  <2>2. CASE Arrives(job[th], job'[th])
    BY <1>6, <2>2 DEF Arrives, Watched, OnTask
  <2> QED BY <2>1, <2>2, JobComes DEF Comes
<1> QED BY <1>3, <1>4, <1>5, <1>6 DEF GoalClosed

\* The observation that reaches a goal closes it.
LEMMA ReachedCloses ==
  ASSUME TypeOK, TypeOK', GoalInv, [Next]_vars, NEW t \in Tasks,
         ~GoalDone(t), GoalDone(t)'
  PROVE  GoalClosed(t)'
<1>1. PICK o \in Owners : Observes(o)
  <2>1. mon' # mon BY DEF GoalDone
  <2> QED BY <2>1, StepObserves DEF Unobserved
<1>2. PICK k \in DOMAIN run, observed \in SUBSET Events : Records(k, observed)
  BY <1>1, ObservedRun
<1> DEFINE u == k.task
           taken == Fresh(u, observed)
           news == run'[k].news
<1>3. /\ u \in Tasks /\ mon' = [mon EXCEPT ![u] = Observed(u, taken, news)]
      /\ NewRuns = {} /\ DOMAIN run' = DOMAIN run
      /\ Reaches(u, news) =>
           /\ task'[u].status = "completed"
           /\ task'[u].version = task[u].version + 1
           /\ \A j \in DOMAIN run : j.task = u => run'[j].status # "queued"
  BY <1>2 DEF Records
<1>4. t = u
  <2>1. t # u => mon'[t] = mon[t] BY <1>3 DEF TypeOK, StoreOK
  <2> QED BY <2>1 DEF GoalDone
<1>5. Reaches(u, news)
  <2>1. mon'[u] = Observed(u, taken, news) BY <1>3 DEF TypeOK, StoreOK
  <2>2. t \in Goals /\ Cardinality(mon'[t].ledger) >= Target BY DEF GoalDone
  <2> QED BY <1>4, <2>1, <2>2 DEF Observed, Reaches
<1>6. /\ task'[t].status = "completed" /\ task'[t].version = task[t].version + 1
      /\ \A j \in DOMAIN run : j.task = t => run'[j].status # "queued"
  BY <1>3, <1>4, <1>5
<1>7. task[t].version \in Nat BY TaskRowType DEF TypeOK
<1>8. ASSUME NEW j \in DOMAIN run', j.task = t
      PROVE  run'[j].version < task'[t].version
  <2>1. j \in DOMAIN run BY <1>3
  <2>2. run'[j].version = run[j].version BY <2>1, StepEffects DEF Effects, Goes
  <2>3. run[j].version <= task[t].version BY <1>8, <2>1 DEF GoalInv, RunVersions
  <2>4. run[j].version \in Nat BY <2>1, RunTasks DEF RunRows
  <2> QED BY <1>6, <1>7, <2>2, <2>3, <2>4
<1>9. ASSUME NEW th \in Threads, job'[th].pc = "commit", job'[th].task = t
      PROVE  job'[th].version < task'[t].version
  <2>1. job[th] \in Jobs BY Current
  <2>2. job'[th].version \in Nat /\ job'[th].version <= task[t].version
    <3>1. CASE job'[th] = job[th]
      BY <1>9, <2>1, <3>1 DEF GoalInv, JobVersions, OnTask, Jobs
    <3>2. CASE Arrives(job[th], job'[th])
      <4>1. job'[th].version = task[t].version
        BY <1>9, <3>2 DEF Arrives, Watched, OnTask
      <4> QED BY <1>7, <4>1
    <3> QED BY <3>1, <3>2, JobComes DEF Comes
  <2> QED BY <1>6, <1>7, <2>2
<1> QED BY <1>3, <1>6, <1>8, <1>9 DEF GoalClosed

\* A reached goal is never planned or queued again, except through
\* clear_next_change (see goal_reopened).
THEOREM GoalsStayDone ==
  ASSUME "next" \notin UserOps
  PROVE  Spec => []GoalStaysDone
<1>1. Init => GoalInv
  <2> SUFFICES ASSUME Init PROVE GoalInv OBVIOUS
  <2>1. DOMAIN run = {} BY DEF Init, StoreInit, EmptyTable
  <2>2. \A th \in Threads : job[th].pc = "idle" BY DEF Init, IdleJob
  <2>3. \A t \in Tasks : ~GoalDone(t)
    <3>1. \A t \in Tasks : mon[t].ledger = {} BY DEF Init, StoreInit
    <3>2. Target \in Nat \ {0} BY StoreAssumption
    <3>3. ~(0 >= Target) BY <3>2
    <3> QED BY <3>1, <3>3, FS_EmptySet DEF GoalDone
  <2> QED BY <2>1, <2>2, <2>3 DEF GoalInv, RunVersions, JobVersions, OnTask
<1>2. ASSUME TypeOK, TypeOK', GoalInv, [Next]_vars PROVE GoalInv'
  <2>1. RunVersions' /\ JobVersions'
    BY <1>2, RunVersionsKept, JobVersionsKept DEF GoalInv
  <2>2. \A t \in Tasks : GoalDone(t)' => GoalClosed(t)'
    BY <1>2, ClosedStays, ReachedCloses
  <2> QED BY <2>1, <2>2 DEF GoalInv
<1>3. TypeOK /\ TypeOK' /\ GoalInv /\ [Next]_vars => GoalInv' BY <1>2
<1>4. GoalInv => GoalStaysDone
  BY DEF GoalInv, GoalClosed, GoalStaysDone, HasStatus
<1> QED BY <1>1, <1>3, <1>4, TypeCorrect, PTL DEF Spec
-----------------------------------------------------------------------------
(* Nothing is made up for.                                                 *)

Ahead(t) == task'[t].next # None => task'[t].next \in Nat /\ task'[t].next > now

\* What is planned is not from before the reopening.
SinceInv ==
  \A t \in Tasks :
    /\ since[t] \in Times /\ since[t] <= now
    /\ task[t].next # None => task[t].next >= since[t]

Reopens(t) == \E o \in Owners : Resumes(o) /\ job[Worker(o)].task = t

\* The clock takes nothing from before the end of the pause, and a fire that
\* has passed only within LateWindow.
LEMMA ReopenedAhead ==
  ASSUME TypeOK, TypeOK', JudgedBefore, NEW t \in Tasks, Reopens(t)
  PROVE  /\ since'[t] \in Times /\ since'[t] <= now
         /\ task'[t].next # None => task'[t].next >= since'[t]
<1> DEFINE old == task[t]
<1>1. PICK o \in Owners : Resumes(o) /\ job[Worker(o)].task = t BY DEF Reopens
<1> DEFINE at == job[Worker(o)].at
           from == Reopening(old.until, at)
           latest == LatestFire(old.rule, at, old.exc)
           late   == latest # None /\ latest >= old.until /\ at - latest <= LateWindow
           due    == IF late THEN latest ELSE NextFire(old.rule, at, old.exc)
<1>2. /\ ResumeAs(t, due) /\ since' = [since EXCEPT ![t] = from]
  BY <1>1 DEF Resumes, AutoResume
<1>3. at \in Times /\ at <= now
  <2>1. Worker(o) \in Threads /\ job[Worker(o)].pc = "commit"
    BY <1>1, WorkerThread DEF Resumes, At
  <2>2. job[Worker(o)] \in Jobs BY <2>1, Current
  <2> QED BY <2>1, <2>2 DEF Jobs, JudgedBefore
<1>4. old.rule \in Rules /\ old.exc \in Exceptions BY TaskRowType DEF TypeOK
<1>5. now \in Times /\ Times \subseteq Nat /\ LateWindow \in Nat
  BY StoreAssumption DEF TypeOK, StoreOK, Times
<1>6. from \in Times /\ from <= at BY <1>3, ReopeningPast
<1>7. since'[t] = from BY <1>2 DEF TypeOK
<1>8. task'[t].next = due
  <2> HIDE DEF due
  <2> QED BY <1>2, ResumeRow DEF TypeOK
<1>9. ASSUME late PROVE latest >= from
  <2> HIDE DEF at, latest
  <2>1. latest \in Times /\ latest <= at
    <3>1. latest = LatestFire(old.rule, at, old.exc) /\ latest # None BY <1>9 DEF latest
    <3> QED BY <1>3, <1>4, <3>1, LatestFirePast
  <2>2. latest >= old.until /\ at - latest <= LateWindow BY <1>9
  <2>3. at \in Nat /\ latest \in Nat BY <1>3, <1>5, <2>1
  <2>4. CASE old.until \in 0 .. at /\ at <= old.until + LateWindow
    BY <2>2, <2>4 DEF Reopening
  <2>5. CASE ~(old.until \in 0 .. at /\ at <= old.until + LateWindow)
    <3>1. from = IF LateWindow <= at THEN at - LateWindow ELSE 0 BY <2>5 DEF Reopening
    <3> HIDE DEF from
    <3> QED BY <1>5, <2>1, <2>2, <2>3, <3>1
  <2> QED BY <2>4, <2>5
<1>10. ASSUME ~late, due # None PROVE due >= from
  <2>1. due = NextFire(old.rule, at, old.exc) BY <1>10
  <2> HIDE DEF due, late, at
  <2>2. due \in Times /\ due > at BY <1>3, <1>4, <1>10, <2>1, NextFireAhead
  <2> HIDE DEF from
  <2> QED BY <1>3, <1>5, <1>6, <2>2
<1>11. due # None => due >= from
  <2>1. CASE late
    <3>1. due = latest BY <2>1
    <3> QED BY <1>9, <2>1, <3>1
  <2>2. CASE ~late BY <1>10, <2>2
  <2> QED BY <2>1, <2>2
<1> HIDE DEF at, from, due
<1> QED BY <1>3, <1>5, <1>6, <1>7, <1>8, <1>11

\* Else a next fire stays, or is planned from now on.
LEMMA PlannedAhead ==
  ASSUME TypeOK, TypeOK', [Next]_vars, NEW t \in Tasks, ~Reopens(t)
  PROVE  task'[t].next = task[t].next \/ Ahead(t)
<1> DEFINE row == task'[t]
           due == row.next
<1>1. row.rule \in Rules /\ row.exc \in Exceptions
  BY DEF TypeOK, StoreOK, IsTaskTable, TaskRows
<1>2. now \in Times /\ Times \subseteq Nat BY TimePasses DEF Times
<1>3. \/ due = None \/ due = task[t].next \/ due = NextFire(row.rule, now, row.exc)
  BY StepEffects DEF Effects, TaskEffect, Planning, Reopens
<1>4. ASSUME due = NextFire(row.rule, now, row.exc), due # None
      PROVE  due \in Nat /\ due > now
  <2> HIDE DEF row, due
  <2> QED BY <1>1, <1>2, <1>4, NextFireAhead
<1> QED BY <1>3, <1>4 DEF Ahead

\* When the task is opened or becomes active it is planned from now on.
LEMMA SinceMoves ==
  ASSUME TypeOK, TypeOK', PlanMatchesStatus, [Next]_vars, NEW t \in Tasks, ~Reopens(t)
  PROVE  since'[t] = since[t] \/ (since'[t] = now /\ Ahead(t))
<1>0. StoreOK /\ since \in [Tasks -> OrNone(Times)] BY DEF TypeOK
<1>1. task[t].status # "active" => Ahead(t)
  BY PlannedAhead DEF PlanMatchesStatus, Ahead
<1>2. CASE Quiet BY <1>2 DEF Quiet
<1>3. ASSUME NEW u \in Tasks, UserTask(u)
      PROVE  since'[t] = since[t] \/ (since'[t] = now /\ Ahead(t))
  <2>1. since' = [since EXCEPT ![u] =
                    IF task'[u].status = "active" /\ task[u].status # "active"
                    THEN now ELSE @]
    BY <1>3 DEF UserTask
  <2> QED BY <1>0, <1>1, <2>1
<1>4. CASE UserSwitch
  <2>1. since'[t] = IF Open(t)' /\ ~Open(t) THEN now ELSE since[t]
    BY <1>4 DEF UserSwitch
  <2>2. CASE Open(t)' /\ ~Open(t) /\ task[t].status = "active"
    <3>1. task'[t].next = NextFire(task[t].rule, now, task[t].exc)
      BY <1>0, <1>4, <2>2, SwitchPlans
    <3> DEFINE due == task'[t].next
    <3>2. /\ task[t].rule \in Rules /\ task[t].exc \in Exceptions
          /\ now \in Times /\ Times \subseteq Nat
      BY <1>0, TaskRowType, TimePasses DEF Times
    <3>3. due # None => due \in Nat /\ due > now
      <4>1. due = NextFire(task[t].rule, now, task[t].exc) BY <3>1
      <4> HIDE DEF due
      <4> QED BY <3>2, <4>1, NextFireAhead
    <3> QED BY <2>1, <2>2, <3>3 DEF Ahead
  <2> QED BY <1>1, <2>1, <2>2
<1>5. ASSUME NEW o \in Owners, Plans(o) PROVE since'[t] = since[t]
  <2>1. CASE Resumes(o) BY <1>0, <2>1 DEF Resumes, Reopens
  <2>2. CASE ~Resumes(o)
    BY <1>5, <2>2 DEF Plans, Admits, Refuses, Observes, Blocks, TickAdmit, WorkSave
  <2> QED BY <2>1, <2>2
<1> QED BY <1>2, <1>3, <1>4, <1>5, PlanStep

LEMMA SinceInvKept ==
  ASSUME TypeOK, TypeOK', SinceInv, JudgedBefore, PlanMatchesStatus, [Next]_vars
  PROVE  SinceInv'
<1> SUFFICES ASSUME NEW t \in Tasks
             PROVE  /\ since'[t] \in Times /\ since'[t] <= now'
                    /\ task'[t].next # None => task'[t].next >= since'[t]
  BY DEF SinceInv
<1>1. /\ now \in Nat /\ now' \in Nat /\ now <= now' /\ now \in Times
      /\ Times \subseteq Nat
  BY TimePasses DEF Times
<1>2. /\ since[t] \in Times /\ since[t] <= now
      /\ task[t].next # None => task[t].next >= since[t]
  BY DEF SinceInv
<1>3. since[t] \in Nat BY <1>1, <1>2
<1>4. CASE Reopens(t)
  <2>1. /\ since'[t] \in Times /\ since'[t] <= now
        /\ task'[t].next # None => task'[t].next >= since'[t]
    BY <1>4, ReopenedAhead DEF SinceInv, SkipInv
  <2>2. since'[t] \in Nat BY <1>1, <2>1
  <2>3. since'[t] <= now' BY <1>1, <2>1, <2>2
  <2> QED BY <2>1, <2>3
<1>5. CASE ~Reopens(t)
  <2>1. CASE since'[t] = now /\ Ahead(t) BY <1>1, <2>1 DEF Ahead
  <2>2. CASE since'[t] = since[t]
    <3>1. CASE task'[t].next = task[t].next BY <1>1, <1>2, <1>3, <2>2, <3>1
    <3>2. CASE Ahead(t) BY <1>1, <1>2, <1>3, <2>2, <3>2 DEF Ahead
    <3> QED BY <1>5, <3>1, <3>2, PlannedAhead
  <2> QED BY <1>5, <2>1, <2>2, SinceMoves
<1> QED BY <1>4, <1>5

\* Whatever users, switches and timed pauses do, the timer queues no fire from
\* before the reopening; the clock reopens at the end of the pause, and takes
\* no fire older than LateWindow.
THEOREM NothingIsMadeUpFor == Spec => NoBackfill
<1>1. Init => SinceInv
  BY StoreAssumption DEF Init, StoreInit, AbsentTask, SinceInv, Times
<1>2. TypeOK /\ TypeOK' /\ SinceInv /\ SkipInv /\ PlanMatchesStatus /\ [Next]_vars => SinceInv'
  BY SinceInvKept DEF SkipInv
<1>3. ASSUME TypeOK, SinceInv, [Next]_vars
      PROVE  \A k \in DOMAIN run' :
               /\ k \notin DOMAIN run
               /\ k.trigger = "scheduled" /\ run'[k].status = "queued"
               => k.n >= since[k.task]
  <2> SUFFICES ASSUME NEW k \in NewRuns, k.trigger = "scheduled"
               PROVE  k.n >= since[k.task]
    BY DEF NewRuns
  <2>1. Inserted(k) BY <1>3, StepEffects DEF Effects
  <2> DEFINE cur == task[k.task]
  <2>2. k.task \in Tasks /\ Fires(k) BY <2>1 DEF Inserted
  <2>3. /\ since[k.task] \in Nat /\ cur.next \in Nat /\ cur.next >= since[k.task]
    <3>1. cur.next \in OrNone(Times) /\ cur.next # None
      BY <1>3, <2>2, TaskRowType DEF Fires, TypeOK
    <3> QED BY <1>3, <2>2, <3>1 DEF SinceInv, OrNone, Times
  <2>4. CASE k.n = cur.next BY <2>3, <2>4
  <2>5. CASE k.n = LatestFire(cur.rule, now, cur.exc) /\ k.n # None /\ k.n > cur.next
    <3> DEFINE n == k.n
    <3>1. n = LatestFire(cur.rule, now, cur.exc) /\ n # None BY <2>5
    <3>2. cur.rule \in Rules /\ cur.exc \in Exceptions /\ now \in Times
      BY <1>3, <2>2, TaskRowType DEF TypeOK, StoreOK
    <3>3. n \in Times
      <4> HIDE DEF n, cur
      <4> QED BY <3>1, <3>2, LatestFirePast
    <3>4. n \in Nat BY <3>3 DEF Times
    <3> QED BY <2>3, <2>5, <3>4
  <2> QED BY <2>2, <2>4, <2>5 DEF Fires
<1>4. TypeOK /\ SinceInv /\ [Next]_vars
        => [\A k \in DOMAIN run' :
              /\ k \notin DOMAIN run
              /\ k.trigger = "scheduled" /\ run'[k].status = "queued"
              => k.n >= since[k.task]]_vars
  BY <1>3
<1> QED BY <1>1, <1>2, <1>4, TypeCorrect, SkipInvariant, PlansMatchStatuses, PTL DEF Spec, NoBackfill
=============================================================================
