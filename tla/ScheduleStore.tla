--------------------------- MODULE ScheduleStore ---------------------------
(***************************************************************************)
(* The scheduled-task database of app/services/scheduled_tasks.py.         *)
(*                                                                         *)
(* Every method that writes runs in one BEGIN IMMEDIATE transaction, so    *)
(* each is one operator here: its guard is the method's conditions and     *)
(* early returns, its primed variables are the rows it writes.  The        *)
(* processes that call them, and the points where they may interleave, are *)
(* in ScheduledTasks, which extends this module.                           *)
(*                                                                         *)
(* A run is identified by its task and its occurrence (the UNIQUE pair of  *)
(* scheduled_runs), so INSERT OR IGNORE is the union of two functions.     *)
(* Schedules are abstract: Forward and Backward stand for _base_fire of a  *)
(* rule, with what schedule_rules.py guarantees of it as an assumption.    *)
(***************************************************************************)
EXTENDS Naturals, FiniteSets

CONSTANTS
  Tasks, Chats,          \* task ids and chat ids
  ChatOf, DestOf,        \* definition.chat_id and definition.delivery_chat_id
  Owners,                \* uuid of each ScheduledTaskRuntime (one per process)
  None,                  \* SQL NULL
  Rules,                 \* the schedules a definition may carry
  Forward, Backward,     \* _base_fire(rule, t, forward=True / False)
  Monitored,             \* tasks whose definition has a monitor
  Baselined,             \* monitors with initial = "baseline"
  Goals, Target,         \* monitors with a goal, and its target_count
  Events,                \* event keys, numbered in order of occurred_at
  ManualKeys,            \* request_key values of "run now"
  ChatLimit,             \* 100 unfinished tasks in a chat
  MaxTime,               \* bound of the clock
  LeaseTime,             \* 45 s
  RetryDelay,            \* <<30 s, 120 s>>
  Grace,                 \* misfire_grace_seconds
  LateWindow,            \* 5 s: how late an automatic resume still takes its boundary
  NoticeWindow           \* 3600 s: one failure notice per task and category

Times == 0 .. MaxTime
Triggers == {"scheduled", "manual", "exception", "baseline"}
Categories == {"connection", "permission", "execution", "monitor_blocked"}
Ended == {"completed", "blocked", "failed", "cancelled", "missed", "skipped",
          "interrupted", "no_change", "role_blocked"}

ASSUME StoreAssumption ==
  /\ ChatOf \in [Tasks -> Chats] /\ DestOf \in [Tasks -> Chats]
  /\ None \notin Nat /\ None \notin Owners /\ None \notin Rules
  /\ Rules # {}
  /\ Monitored \subseteq Tasks /\ Baselined \subseteq Monitored
  /\ Goals \subseteq Monitored /\ Goals \cap Baselined = {}
  /\ Events \subseteq Nat /\ IsFiniteSet(Events)
  /\ ManualKeys \subseteq Nat
  /\ MaxTime \in Nat /\ LeaseTime \in Nat /\ Grace \in Nat
  /\ ChatLimit \in Nat /\ LateWindow \in Nat /\ NoticeWindow \in Nat /\ Target \in Nat \ {0}
  /\ RetryDelay \in [1 .. 2 -> Nat]

\* What _base_fire promises: the first fire strictly after, and one not after.
ASSUME FireAssumption ==
  /\ Forward \in [Rules -> [Times -> Times \cup {None}]]
  /\ Backward \in [Rules -> [Times -> Times \cup {None}]]
  /\ \A r \in Rules, t \in Times : Forward[r][t] # None => Forward[r][t] > t
  /\ \A r \in Rules, t, u \in Times :
       Forward[r][t] # None /\ t <= u /\ u < Forward[r][t]
       => Forward[r][u] = Forward[r][t]
  /\ \A r \in Rules, t \in Times :
       Backward[r][t] # None => Backward[r][t] \in 1 .. t

VARIABLES
  now,        \* self.clock()
  enabled,    \* scheduled_settings.enabled
  chatOn,     \* scheduled_chat_permissions.enabled, per chat
  task,       \* scheduled_tasks, with the pause and next_exception of its definition
  run,        \* scheduled_runs with the count of scheduled_attempts, by occurrence
  dlv,        \* scheduled_deliveries of runs, by run and part
  mon,        \* scheduled_monitor_state / _events / scheduled_goal_events, per task
  lease       \* scheduled_lease

storeVars == <<enabled, chatOn, task, run, dlv, mon, lease>>
-----------------------------------------------------------------------------
Key(t, trigger, n) == [task |-> t, trigger |-> trigger, n |-> n]
Keys == [task : Tasks, trigger : Triggers, n : Nat]

EmptyTable == [k \in {} |-> None]

NoExc == [original |-> None, replacement |-> None]

AbsentTask ==
  [status |-> "absent", version |-> 0, next |-> None,
   rule |-> CHOOSE rule \in Rules : TRUE,
   reason |-> "none", until |-> None, exc |-> NoExc]

NewRow(version, at, status) ==
  [status |-> status, version |-> version, at |-> at, created |-> now,
   owner |-> None, cancel |-> FALSE, thread |-> FALSE, result |-> "none",
   news |-> {}, attempts |-> 0, retryAt |-> 0]

StoreInit ==
  /\ now = 0
  /\ enabled = TRUE
  /\ chatOn \in [Chats -> BOOLEAN]
  /\ task = [t \in Tasks |-> AbsentTask]
  /\ run = EmptyTable
  /\ dlv = EmptyTable
  /\ mon = [t \in Tasks |-> [rev |-> 0, seen |-> {}, ledger |-> {}]]
  /\ lease = [owner |-> None, expires |-> 0]
-----------------------------------------------------------------------------
(* Reading the tables.                                                     *)

\* INSERT OR IGNORE of the rows of "new" into the table "old".
OrIgnore(old, new) ==
  [k \in DOMAIN old \cup DOMAIN new |->
     IF k \in DOMAIN old THEN old[k] ELSE new[k]]

Row(k, row) == [x \in {k} |-> row]

Permitted(t) == chatOn[ChatOf[t]] /\ chatOn[DestOf[t]]

Leads(o) == lease.owner = o /\ lease.expires > now

HasStatus(t, S) == {k \in DOMAIN run : k.task = t /\ run[k].status \in S}

\* A fault: a queued run does not count as the previous run.
LiveRunning(t) == HasStatus(t, {"running"}) # {}

Live(t) == HasStatus(t, {"queued", "running"}) # {}

\* A fault: a run waiting for its retry is forgotten.
DropQueuedNew(t) ==
  [k \in DOMAIN run |->
     IF k \in HasStatus(t, {"queued"}) /\ run[k].attempts = 0
     THEN [run[k] EXCEPT !.status = "cancelled"] ELSE run[k]]

\* "queued" rows of the task become "cancelled" (cancel_requested untouched).
DropQueued(t) ==
  [k \in DOMAIN run |->
     IF k \in HasStatus(t, {"queued"})
     THEN [run[k] EXCEPT !.status = "cancelled"] ELSE run[k]]

\* A fault: queued runs are only asked to stop.
CancelRunsLater(S) ==
  [k \in DOMAIN run |->
     IF k \in S /\ run[k].status \in {"queued", "running"}
     THEN [run[k] EXCEPT !.cancel = TRUE] ELSE run[k]]

\* queued rows of S are cancelled, running ones are asked to stop.
CancelRuns(S) ==
  [k \in DOMAIN run |->
     IF k \in S /\ run[k].status \in {"queued", "running"}
     THEN [run[k] EXCEPT !.cancel = TRUE,
                         !.status = IF @ = "queued" THEN "cancelled" ELSE @]
     ELSE run[k]]

\* A fault: the skipped occurrence is offered again.
NextFireUnskipped(rule, after, exc) ==
  LET base == Forward[rule][after]
  IN  IF exc.replacement # None /\ exc.replacement > after
         /\ (base = None \/ exc.replacement < base)
      THEN exc.replacement ELSE base

\* schedule_rules.next_fire: the skipped original gives way to the fire after
\* it, and a replacement still ahead competes with it.
NextFire(rule, after, exc) ==
  LET base == Forward[rule][after]
      kept == IF base # None /\ base = exc.original
              THEN Forward[rule][base] ELSE base
  IN  IF exc.replacement # None /\ exc.replacement > after
         /\ (kept = None \/ exc.replacement < kept)
      THEN exc.replacement ELSE kept

\* schedule_rules.latest_fire
LatestFire(rule, at, exc) ==
  LET base == Backward[rule][at]
      kept == IF base # None /\ base = exc.original
              THEN Backward[rule][base - 1] ELSE base
  IN  IF exc.replacement # None /\ exc.replacement <= at
         /\ (kept = None \/ exc.replacement > kept)
      THEN exc.replacement ELSE kept

GoalDone(t) == t \in Goals /\ Cardinality(mon[t].ledger) >= Target
-----------------------------------------------------------------------------
(* Switches.                                                               *)

\* A fault: opening a switch keeps the old plan.
ReplanNothing(S) == UNCHANGED <<run, task>>

\* Opening a switch plans the active tasks of S from now on; a task with no
\* future fire records the fire it lost and ends.
Replan(S) ==
  LET due == [t \in S |-> NextFire(task[t].rule, now, task[t].exc)]
      lost == {t \in S : due[t] = None /\ task[t].next # None}
  IN  /\ run' = OrIgnore(run,
                  [k \in {Key(t, "scheduled", task[t].next) : t \in lost} |->
                     NewRow(task[k.task].version, k.n, "missed")])
      /\ task' = [t \in Tasks |->
                    IF t \notin S THEN task[t]
                    ELSE [task[t] EXCEPT
                            !.next = due[t],
                            !.status = IF due[t] = None THEN "completed"
                                       ELSE "active"]]

SetEnabled(on) ==
  /\ enabled # on
  /\ enabled' = on
  /\ \/ /\ ~on
        /\ run' = CancelRuns(DOMAIN run)
        /\ UNCHANGED task
     \/ on /\ Replan({t \in Tasks : task[t].status = "active"})
  /\ UNCHANGED <<chatOn, dlv, mon, lease>>

SetChatEnabled(c, on) ==
  LET touched == {t \in Tasks : c \in {ChatOf[t], DestOf[t]}}
  IN  /\ chatOn[c] # on
      /\ chatOn' = [chatOn EXCEPT ![c] = on]
      /\ \/ /\ ~on
            /\ run' = CancelRuns({k \in DOMAIN run : k.task \in touched})
            /\ UNCHANGED task
         \/ on /\ Replan({t \in touched :
                            /\ task[t].status = "active"
                            /\ chatOn'[ChatOf[t]] /\ chatOn'[DestOf[t]]})
      /\ UNCHANGED <<enabled, dlv, mon, lease>>
-----------------------------------------------------------------------------
(* Definitions and user actions.  create, update, resume and run_now look  *)
(* at the task, let the role reviewer (a slow model call) judge it outside *)
(* any transaction, and repeat every check in the transaction that writes, *)
(* refusing if the version moved: what the first look saw still holds, so  *)
(* the operator is the second transaction alone.  The automatic resume,    *)
(* whose first look leaves a trace, is split in ScheduledTasks.            *)

\* _queue_monitor_baseline of a task that the same transaction has left with
\* this status and version: the row to insert, if any.
BaselineRow(t, status, version) ==
  IF /\ t \in Baselined /\ status = "active"
     /\ enabled /\ Permitted(t) /\ mon[t].rev = 0
  THEN Row(Key(t, "baseline", version), NewRow(version, now, "queued"))
  ELSE EmptyTable

Create(t, rule) ==
  LET due == NextFire(rule, now, NoExc)
  IN  /\ task[t].status = "absent"
      /\ enabled /\ Permitted(t)
      /\ Cardinality({u \in Tasks : /\ ChatOf[u] = ChatOf[t]
                                    /\ task[u].status \in {"active", "paused"}})
           < ChatLimit
      /\ due # None
      /\ task' = [task EXCEPT ![t] =
                    [AbsentTask EXCEPT !.status = "active", !.version = 1,
                                       !.next = due, !.rule = rule]]
      /\ run' = OrIgnore(run, BaselineRow(t, "active", 1))
      /\ UNCHANGED <<enabled, chatOn, dlv, mon, lease>>

\* rule = None: the schedule is not among the changes.
Update(t, rule, withMonitor) ==
  LET cur     == task[t]
      replan  == rule # None
      newRule == IF replan THEN rule ELSE cur.rule
      exc     == IF replan THEN NoExc ELSE cur.exc
      fire    == NextFire(newRule, now, exc)
      revived == /\ t \in Goals /\ withMonitor
                 /\ ~replan /\ cur.status = "completed"
      planned == (replan /\ cur.status # "paused") \/ revived
      status  == IF GoalDone(t) THEN "completed"
                 ELSE IF ~planned THEN cur.status
                 ELSE IF fire = None THEN "completed" ELSE "active"
      due     == IF GoalDone(t) THEN None
                 ELSE IF planned THEN fire
                 ELSE IF replan THEN None ELSE cur.next
      version == cur.version + 1
  IN  /\ cur.status \notin {"absent", "deleted"}
      /\ Permitted(t)
      /\ task' = [task EXCEPT ![t] =
                    [cur EXCEPT
                       !.status = status, !.version = version, !.next = due,
                       !.rule = newRule, !.exc = exc,
                       !.reason = IF GoalDone(t) THEN "none" ELSE cur.reason,
                       !.until = IF GoalDone(t) THEN None ELSE cur.until]]
      /\ run' = OrIgnore(IF replan \/ GoalDone(t) THEN DropQueued(t) ELSE run,
                         BaselineRow(t, status, version))
      /\ UNCHANGED <<enabled, chatOn, dlv, mon, lease>>

\* until = None: paused until the user resumes it.
Pause(t, until) ==
  /\ task[t].status \notin {"absent", "deleted"}
  /\ until # None => until > now
  /\ task' = [task EXCEPT ![t] =
                [@ EXCEPT !.status = "paused", !.next = None,
                          !.version = task[t].version + 1,
                          !.reason = IF until = None THEN "user" ELSE "timed",
                          !.until = until]]
  /\ run' = DropQueued(t)
  /\ UNCHANGED <<enabled, chatOn, dlv, mon, lease>>

Delete(t) ==
  /\ task[t].status \notin {"absent", "deleted"}
  /\ task' = [task EXCEPT ![t] =
                [@ EXCEPT !.status = "deleted", !.next = None,
                          !.version = task[t].version + 1,
                          !.reason = "none", !.until = None, !.exc = NoExc]]
  /\ run' = [k \in DOMAIN run |->
               IF k \in HasStatus(t, {"running"})
               THEN [run[k] EXCEPT !.cancel = TRUE] ELSE DropQueued(t)[k]]
  /\ UNCHANGED <<enabled, chatOn, dlv, mon, lease>>

\* The task becomes active again (or completed, when its schedule is over) and
\* loses its pause; the part that "resume" by hand and by the clock share.
ResumeAs(t, due) ==
  /\ task' = [task EXCEPT ![t] =
                [@ EXCEPT !.status = IF due = None THEN "completed" ELSE "active",
                          !.version = task[t].version + 1, !.next = due,
                          !.reason = "none", !.until = None]]
  /\ UNCHANGED <<enabled, chatOn, run, dlv, mon, lease>>

\* A fault: a resume that does not ask whether the goal is reached.
ResumeGoalless(t) ==
  LET due == NextFire(task[t].rule, now, task[t].exc)
  IN  /\ task[t].status \notin {"absent", "deleted"}
      /\ enabled /\ Permitted(t)
      /\ due # None
      /\ ResumeAs(t, due)

Resume(t) ==
  LET due == NextFire(task[t].rule, now, task[t].exc)
  IN  /\ task[t].status \notin {"absent", "deleted"}
      /\ enabled /\ Permitted(t) /\ ~GoalDone(t)
      /\ due # None
      /\ ResumeAs(t, due)

\* A boundary at most LateWindow old is still taken; the paused time is not.
AutoResume(t, checkedAt) ==
  LET cur    == task[t]
      latest == LatestFire(cur.rule, checkedAt, cur.exc)
      late   == latest # None /\ latest >= cur.until
                  /\ checkedAt - latest <= LateWindow
  IN  ResumeAs(t, IF late THEN latest
                  ELSE NextFire(cur.rule, checkedAt, cur.exc))

\* Second transaction of resume_due when the checks failed.
BlockResume(t) ==
  /\ task' = [task EXCEPT ![t] =
                [@ EXCEPT !.reason = "resume_blocked", !.until = None,
                          !.version = task[t].version + 1]]
  /\ UNCHANGED <<enabled, chatOn, run, dlv, mon, lease>>

RunNow(t, key) ==
  /\ task[t].status \notin {"absent", "deleted"}
  /\ enabled /\ Permitted(t) /\ ~GoalDone(t)
  /\ Key(t, "manual", key) \notin DOMAIN run
  /\ ~Live(t)
  /\ run' = OrIgnore(run, Row(Key(t, "manual", key),
                              NewRow(task[t].version, now, "queued")))
  /\ UNCHANGED <<enabled, chatOn, task, dlv, mon, lease>>

StopRun(t) ==
  /\ task[t].status \notin {"absent", "deleted"}
  /\ run' = [k \in DOMAIN run |->
               IF k \in HasStatus(t, {"queued", "running"})
               THEN [run[k] EXCEPT !.cancel = TRUE] ELSE run[k]]
  /\ UNCHANGED <<enabled, chatOn, task, dlv, mon, lease>>

\* The exception of the definition and the fire that follows from it.
WithException(t, exc) ==
  LET due == NextFire(task[t].rule, now, exc)
  IN  task' = [task EXCEPT ![t] =
                 [@ EXCEPT !.exc = exc, !.next = due,
                           !.version = task[t].version + 1,
                           !.status = IF due = None THEN "completed"
                                      ELSE "active"]]

Outstanding(exc) ==
  /\ exc # NoExc
  /\ exc.original > now \/ (exc.replacement # None /\ exc.replacement > now)

\* at = None: skip_next; otherwise reschedule_next.
ChangeNext(t, at) ==
  LET cur == task[t]
      v   == cur.version + 1
  IN  /\ cur.status = "active"
      /\ ~Outstanding(cur.exc)
      /\ cur.next # None /\ cur.next > now
      /\ at # None => at > now
      /\ WithException(t, [original |-> cur.next, replacement |-> at])
      /\ run' = OrIgnore(run, Row(Key(t, "exception", v),
                                  NewRow(cur.version, cur.next, "skipped")))
      /\ UNCHANGED <<enabled, chatOn, dlv, mon, lease>>

ClearNextChange(t) ==
  /\ task[t].status \in {"active", "completed"}
  /\ WithException(t, NoExc)
  /\ UNCHANGED <<enabled, chatOn, run, dlv, mon, lease>>
-----------------------------------------------------------------------------
(* The dispatcher's transactions.                                          *)

\* A fault: a new owner leaves its predecessor's rows as they are.
LeaseNoCleanup(o) ==
  /\ lease.owner = o \/ lease.expires <= now
  /\ lease' = [owner |-> o, expires |-> now + LeaseTime]
  /\ UNCHANGED <<enabled, chatOn, task, run, dlv, mon>>

\* The lease is free, expired or ours; a new owner closes what the last one
\* left open.
Lease(o) ==
  /\ lease.owner = o \/ lease.expires <= now
  /\ lease' = [owner |-> o, expires |-> now + LeaseTime]
  /\ \/ lease.owner = o /\ UNCHANGED <<run, dlv>>
     \/ /\ lease.owner # o
        /\ run' = [k \in DOMAIN run |->
                     IF run[k].status # "running" THEN run[k]
                     ELSE [run[k] EXCEPT !.status =
                             IF run[k].result = "none" THEN "interrupted"
                             ELSE "completed"]]
        /\ dlv' = [d \in DOMAIN dlv |->
                     IF dlv[d].status = "sending"
                     THEN [dlv[d] EXCEPT !.status = "unknown"] ELSE dlv[d]]
  /\ UNCHANGED <<enabled, chatOn, task, mon>>

\* Every due task at once; the fires that passed merge into the latest one.
AdmitDue(o) ==
  LET due    == {t \in Tasks : /\ task[t].status = "active"
                               /\ task[t].next # None /\ task[t].next <= now
                               /\ Permitted(t)}
      latest == [t \in due |-> LatestFire(task[t].rule, now, task[t].exc)]
      at     == [t \in due |-> IF latest[t] # None /\ latest[t] > task[t].next
                               THEN latest[t] ELSE task[t].next]
      status == [t \in due |-> IF now - at[t] > Grace THEN "missed"
                               ELSE IF Live(t) THEN "skipped" ELSE "queued"]
      next   == [t \in due |-> NextFire(task[t].rule, now, task[t].exc)]
  IN  /\ enabled /\ Leads(o)
      /\ run' = OrIgnore(run,
                  [k \in {Key(t, "scheduled", at[t]) : t \in due} |->
                     NewRow(task[k.task].version, k.n, status[k.task])])
      /\ task' = [t \in Tasks |->
                    IF t \notin due THEN task[t]
                    ELSE [task[t] EXCEPT
                            !.next = next[t],
                            !.status = IF next[t] = None THEN "completed"
                                       ELSE "active"]]
      /\ UNCHANGED <<enabled, chatOn, dlv, mon, lease>>

\* queued rows already asked to stop are closed by the next claim.
Swept ==
  [k \in DOMAIN run |->
     IF run[k].status = "queued" /\ run[k].cancel
     THEN [run[k] EXCEPT !.status = "cancelled"] ELSE run[k]]

Ready == {k \in DOMAIN run : /\ run[k].status = "queued" /\ ~run[k].cancel
                             /\ run[k].retryAt <= now}

\* ORDER BY created; rows of one instant come in any order.
Oldest == {k \in Ready : \A j \in Ready : run[k].created <= run[j].created}

\* A row whose chats were closed is cancelled instead of handed out.
Claim(o, k) ==
  /\ enabled /\ Leads(o)
  /\ k \in Oldest
  /\ run' = [Swept EXCEPT ![k] =
               IF Permitted(k.task)
               THEN [@ EXCEPT !.status = "running", !.owner = o]
               ELSE [@ EXCEPT !.status = "cancelled", !.cancel = TRUE]]
  /\ UNCHANGED <<enabled, chatOn, task, dlv, mon, lease>>

ClaimNothing(o) ==
  /\ enabled /\ Leads(o) => Ready = {}
  /\ run' = IF enabled /\ Leads(o) THEN Swept ELSE run
  /\ UNCHANGED <<enabled, chatOn, task, dlv, mon, lease>>

\* cancelled(): what the worker asks between its steps.
Cancelled(k, o) == run[k].cancel \/ run[k].status # "running" \/ ~Leads(o)

\* A fault: finish() without AND status='running'.
FinishAnyway(k, status) ==
  /\ run' = [run EXCEPT ![k].status = status]
  /\ UNCHANGED <<enabled, chatOn, task, dlv, mon, lease>>

Finish(k, status) ==
  /\ run' = IF run[k].status = "running"
            THEN [run EXCEPT ![k].status = status] ELSE run
  /\ UNCHANGED <<enabled, chatOn, task, dlv, mon, lease>>

\* bind(): recorded before turn/start is sent, whatever became of the row.
Bind(k) ==
  /\ run' = [run EXCEPT ![k].thread = TRUE]
  /\ UNCHANGED <<enabled, chatOn, task, dlv, mon, lease>>
-----------------------------------------------------------------------------
(* Failures and retries.                                                   *)

\* A fault: the fence forgets the cancel request.
FencedButCancel(o, k) ==
  ~Leads(o) \/ run[k].status # "running" \/ run[k].owner # o \/ run[k].result # "none"

Fenced(o, k) ==
  \/ ~Leads(o) \/ run[k].status # "running" \/ run[k].owner # o
  \/ run[k].cancel \/ run[k].result # "none"

\* A fault: a run already bound to a turn is retried.
MayRetryBound(k, transient) ==
  /\ transient /\ run[k].attempts < 2
  /\ task[k.task].version = run[k].version
  /\ task[k.task].status \in {"active", "completed"}
  /\ enabled /\ Permitted(k.task)

MayRetry(k, transient) ==
  /\ transient /\ ~run[k].thread /\ run[k].attempts < 2
  /\ task[k.task].version = run[k].version
  /\ task[k.task].status \in {"active", "completed"}
  /\ enabled /\ Permitted(k.task)

\* A notice of the same task and category that is out, or on its way.
Noticed(k, category) ==
  \E d \in DOMAIN dlv :
    /\ d.run.task = k.task /\ run[d.run].result = category
    /\ dlv[d].created + NoticeWindow >= now
    /\ dlv[d].status \in {"pending", "sending", "sent", "unknown"}

Part(k, n) == [run |-> k, part |-> n]

FailOrRetry(o, k, category, transient, status) ==
  LET again == MayRetry(k, transient)
      told  == Noticed(k, category)
  IN  /\ \/ Fenced(o, k) /\ UNCHANGED <<run, dlv>>
         \/ /\ ~Fenced(o, k) /\ again
            /\ run' = [run EXCEPT ![k] =
                         [@ EXCEPT !.status = "queued", !.owner = None,
                                   !.attempts = run[k].attempts + 1,
                                   !.retryAt = now + RetryDelay[run[k].attempts + 1]]]
            /\ UNCHANGED dlv
         \/ /\ ~Fenced(o, k) /\ ~again
            /\ run' = [run EXCEPT ![k] =
                         [@ EXCEPT !.status = status, !.result = category,
                                   !.attempts = run[k].attempts + 1]]
            /\ dlv' = IF told THEN dlv
                      ELSE OrIgnore(dlv, Row(Part(k, 1),
                                 [status |-> "pending", created |-> now]))
      /\ UNCHANGED <<enabled, chatOn, task, mon, lease>>
-----------------------------------------------------------------------------
(* Saving a result.                                                        *)

\* The final UPDATE of save_result would change a row.
Savable(o, k) ==
  /\ Permitted(k.task) /\ Leads(o)
  /\ run[k].status = "running" /\ run[k].result = "none"
  /\ ~run[k].cancel /\ run[k].owner = o

\* Parts of the message: the text and, after it, the files.
Pending(k, n) ==
  [d \in {Part(k, i) : i \in 1 .. n} |-> [status |-> "pending", created |-> now]]

SaveReport(o, k, n) ==
  /\ enabled /\ Savable(o, k)
  /\ run' = [run EXCEPT ![k].result = "report"]
  /\ dlv' = OrIgnore(dlv, Pending(k, n))
  /\ UNCHANGED <<enabled, chatOn, task, mon, lease>>

\* The role refused: the explanation is the result, and the task stops unless
\* the user has changed it meanwhile.
SaveRoleBlock(o, k) ==
  LET t == k.task
      current == task[t].version = run[k].version /\ task[t].status # "deleted"
  IN  /\ enabled /\ Savable(o, k)
      /\ run' = [(IF current THEN DropQueued(t) ELSE run) EXCEPT
                   ![k] = [@ EXCEPT !.result = "role", !.status = "role_blocked"]]
      /\ dlv' = OrIgnore(dlv, Pending(k, 1))
      /\ task' = IF ~current THEN task
                 ELSE [task EXCEPT ![t] =
                         [@ EXCEPT !.status = "paused", !.next = None,
                                   !.version = task[t].version + 1,
                                   !.reason = "role", !.until = None]]
      /\ UNCHANGED <<enabled, chatOn, mon, lease>>

\* The version test of monitor_state() and of save_result.
MonitorCurrent(k) ==
  task[k.task].version = run[k].version /\ task[k.task].status # "deleted"

Observable(o, k, rev) ==
  /\ Savable(o, k) /\ MonitorCurrent(k)
  /\ mon[k.task].rev = rev /\ ~GoalDone(k.task)

\* A fault: events in the ledger are news again.
FreshAgain(t, observed) ==
  IF t \notin Goals THEN observed
  ELSE {e \in observed :
          Cardinality({f \in observed : f < e}) + Cardinality(mon[t].ledger) < Target}

\* The events not yet in the ledger; a goal takes the earliest ones it still
\* needs and leaves the others unrecorded.
Fresh(t, observed) ==
  LET unseen == observed \ mon[t].seen
  IN  IF t \notin Goals THEN unseen
      ELSE {e \in unseen :
              Cardinality({f \in unseen : f < e}) + Cardinality(mon[t].ledger)
                < Target}

\* A fault: an observation without news leaves the revision.
ObservedOnlyNews(t, taken, news) ==
  [rev |-> IF news = {} THEN mon[t].rev ELSE mon[t].rev + 1,
   seen |-> mon[t].seen \cup taken, ledger |-> mon[t].ledger \cup news]

\* The monitor's state after an observation.
Observed(t, taken, news) ==
  [rev |-> mon[t].rev + 1, seen |-> mon[t].seen \cup taken,
   ledger |-> IF t \in Goals THEN mon[t].ledger \cup news ELSE {}]

\* The news complete the goal.
Reaches(t, news) ==
  t \in Goals /\ Cardinality(mon[t].ledger \cup news) >= Target

SaveObservation(o, k, rev, observed) ==
  LET t        == k.task
      baseline == rev = 0 /\ t \in Baselined
      taken    == Fresh(t, observed)
      news     == IF baseline THEN {} ELSE taken
      done     == Reaches(t, news)
  IN  /\ enabled /\ Observable(o, k, rev)
      /\ mon' = [mon EXCEPT ![t] = Observed(t, taken, news)]
      /\ run' = [(IF done THEN DropQueued(t) ELSE run) EXCEPT
                   ![k] = [@ EXCEPT !.result = "observation", !.news = news,
                                    !.status = IF news = {} THEN "no_change"
                                               ELSE "completed"]]
      /\ dlv' = IF news = {} THEN dlv ELSE OrIgnore(dlv, Pending(k, 1))
      /\ task' = IF ~done THEN task
                 ELSE [task EXCEPT ![t] =
                         [@ EXCEPT !.status = "completed", !.next = None,
                                   !.version = task[t].version + 1,
                                   !.reason = "none", !.until = None,
                                   !.exc = NoExc]]
      /\ UNCHANGED <<enabled, chatOn, lease>>
-----------------------------------------------------------------------------
(* Deliveries.                                                             *)

\* A fault: a redelivery sends an unknown part again.
SendableUnknown(retry) ==
  IF retry THEN {"pending", "failed", "unknown"} ELSE {"pending"}

Sendable(retry) == IF retry THEN {"pending", "failed"} ELSE {"pending"}

\* First transaction of deliver(): the reservation.
MayDeliver(d, retry) ==
  /\ enabled /\ Permitted(d.run.task)
  /\ task[d.run.task].status # "deleted"
  /\ dlv[d].status \in Sendable(retry)

Reserve(d) ==
  /\ dlv' = [dlv EXCEPT ![d].status = "sending"]
  /\ UNCHANGED <<enabled, chatOn, task, run, mon, lease>>

\* deliver() returns True at once: somebody else has sent it.
AlreadySent(d) ==
  /\ enabled /\ Permitted(d.run.task) /\ dlv[d].status = "sent"

\* The finally block: written whatever the row says by now.
Settle(d, status) ==
  /\ dlv' = [dlv EXCEPT ![d].status = status]
  /\ UNCHANGED <<enabled, chatOn, task, run, mon, lease>>

\* Runs whose notice or monitor result the dispatcher sends by itself.
PendingFailureRuns ==
  {k \in DOMAIN run :
     /\ enabled /\ Permitted(k.task) /\ task[k.task].status # "deleted"
     /\ run[k].result \in Categories \cup {"observation"}
     /\ \E d \in DOMAIN dlv : d.run = k /\ dlv[d].status = "pending"}

\* pending_resumes(): timed pauses that are over.
PendingResumes(o) ==
  {t \in Tasks : /\ enabled /\ Leads(o)
                 /\ task[t].status = "paused" /\ task[t].reason = "timed"
                 /\ task[t].until <= now /\ Permitted(t)}
-----------------------------------------------------------------------------
(* The kinds of values in each table.                                      *)

OrNone(S) == S \cup {None}

Exceptions == [original : OrNone(Times), replacement : OrNone(Times)]

TaskRows ==
  [status : {"absent", "active", "paused", "completed", "deleted"},
   version : Nat, next : OrNone(Times), rule : Rules,
   reason : {"none", "user", "timed", "role", "resume_blocked"},
   until : OrNone(Times), exc : Exceptions]

RunRows ==
  [status : {"queued", "running"} \cup Ended, version : Nat, at : Times,
   created : Times, owner : OrNone(Owners), cancel : BOOLEAN, thread : BOOLEAN,
   result : {"none", "report", "role", "observation"} \cup Categories,
   news : SUBSET Events, attempts : 0 .. 3, retryAt : Nat]

DlvRows ==
  [status : {"pending", "sending", "sent", "failed", "unknown"}, created : Times]

MonRows == [rev : Nat, seen : SUBSET Events, ledger : SUBSET Events]

IsTaskTable(f) == f \in [Tasks -> TaskRows]

\* A run without a result has a retry left, or its last attempt.
IsRunTable(f) ==
  /\ f = [k \in DOMAIN f |-> f[k]]
  /\ DOMAIN f \subseteq Keys
  /\ \A k \in DOMAIN f :
       /\ f[k] \in RunRows
       /\ f[k].result = "none" => f[k].attempts <= 2

\* Deliveries belong to one of the runs ks.
IsDlvTable(f, ks) ==
  /\ f = [d \in DOMAIN f |-> f[d]]
  /\ DOMAIN f \subseteq [run : ks, part : 1 .. 2]
  /\ \A d \in DOMAIN f : f[d] \in DlvRows

StoreOK ==
  /\ now \in Times /\ enabled \in BOOLEAN /\ chatOn \in [Chats -> BOOLEAN]
  /\ IsTaskTable(task) /\ IsRunTable(run) /\ IsDlvTable(dlv, DOMAIN run)
  /\ mon \in [Tasks -> MonRows]
  /\ lease \in [owner : OrNone(Owners), expires : Nat]
=============================================================================
