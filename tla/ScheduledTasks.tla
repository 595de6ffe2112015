--------------------------- MODULE ScheduledTasks ---------------------------
(***************************************************************************)
(* The scheduled-task service at work: processes that come and go, each    *)
(* with a timer thread (ScheduledTaskRuntime.tick), one worker thread      *)
(* (execute, resume_due, deliver_run) and a Web request thread that        *)
(* redelivers, over the shared database of ScheduleStore; users who edit,  *)
(* pause, stop and switch off; a clock; and the two outside effects that   *)
(* cannot be taken back, a WeChat message and a model turn.                *)
(*                                                                         *)
(* Threads interleave between transactions.  Reads with no write between   *)
(* them are one step.                                                      *)
(***************************************************************************)
EXTENDS ScheduleStore, Sequences

CONSTANTS
  UserOps,     \* the user actions of this instance
  Faults,      \* "crash", "stop", "lapse" (of the lease), "refusal", "lost" (ack)
  Errors,      \* categories of exceptions before and during the model's turn
  Outcomes,    \* what the model may answer
  Handled,     \* bound: the tasks that users edit, stop or run by hand
  MaxVersion,  \* bound of user edits per task
  CreateBy,    \* bound of the time at which tasks are created
  ManualBy     \* bound of the time at which they are run by hand

ASSUME TaskAssumption ==
  /\ Errors \subseteq Categories
  /\ Outcomes \subseteq {"completed", "blocked", "role_blocked", "observed", "invalid"}

Threads == Owners \X {"worker", "web"}
Worker(o) == <<o, "worker">>
Web(o) == <<o, "web">>

VARIABLES
  proc,    \* life of each process
  tick,    \* where its timer thread stands in tick()
  job,     \* what each worker or Web thread is doing
  wechat,  \* messages WeChat has sent, in order
  turns,   \* runs for which a model turn was started, in order
  since    \* history: from when a task's fires may be caught up, per task

procVars == <<proc, tick, job>>
vars == <<now, enabled, chatOn, task, run, dlv, mon, lease,
          proc, tick, job, wechat, turns, since>>
-----------------------------------------------------------------------------
IdleJob ==
  [pc |-> "idle", key |-> None, task |-> None, version |-> 0, at |-> 0,
   rev |-> 0, observed |-> {}, outcome |-> "none", inferred |-> FALSE,
   exc |-> "execution", status |-> "completed",
   todo |-> {}, checked |-> FALSE, res |-> "unknown", raised |-> FALSE]

Init ==
  /\ StoreInit
  /\ proc = [o \in Owners |-> "unborn"]
  /\ tick = [o \in Owners |-> "lease"]
  /\ job = [th \in Threads |-> IdleJob]
  /\ wechat = <<>>
  /\ turns = <<>>
  /\ since = [t \in Tasks |-> 0]

Alive(o) == proc[o] \in {"up", "stopping"}

\* _check and the run's cancelled(): the stop event, a cancel request or a
\* lost lease.
Stopped(o, k) == proc[o] = "stopping" \/ Cancelled(k, o)

\* authorize() also wants the chat's assistant and listener on and its creator
\* not blocked: it may refuse at any time, and must when the chat is closed.
MayRefuse(t) == "refusal" \in Faults \/ ~Permitted(t)

At(th, pc) == Alive(th[1]) /\ job[th].pc = pc
Goto(th, pc) == job' = [job EXCEPT ![th].pc = pc]
Leave(th) == job' = [job EXCEPT ![th] = IdleJob]
Throw(th, exc) == job' = [job EXCEPT ![th] = [@ EXCEPT !.pc = "caught", !.exc = exc]]
-----------------------------------------------------------------------------
(* Processes and the clock.                                                *)

Start(o) ==
  /\ proc[o] = "unborn"
  /\ proc' = [proc EXCEPT ![o] = "up"]
  /\ UNCHANGED <<now, storeVars, tick, job, wechat, turns, since>>

\* Bound of crashes and stops: somebody is left to take over, and the clock
\* still reaches the expiry of the lease.
Replaceable(o) ==
  /\ \E q \in Owners \ {o} : proc[q] \in {"unborn", "up"}
  /\ lease.owner = o => lease.expires <= MaxTime

\* stop(): the timer loop ends after its tick, the worker goes on.
Stop(o) ==
  /\ "stop" \in Faults
  /\ proc[o] = "up" /\ Replaceable(o)
  /\ proc' = [proc EXCEPT ![o] = "stopping"]
  /\ UNCHANGED <<now, storeVars, tick, job, wechat, turns, since>>

\* pool.shutdown(cancel_futures=True): a job not begun is dropped.
DropFuture(o) ==
  /\ proc[o] = "stopping"
  /\ job[Worker(o)].pc \in {"start", "review", "handed"}
  /\ Leave(Worker(o))
  /\ UNCHANGED <<now, storeVars, proc, tick, wechat, turns, since>>

Crash(o) ==
  /\ "crash" \in Faults
  /\ Alive(o) /\ (proc[o] = "up" => Replaceable(o))
  /\ proc' = [proc EXCEPT ![o] = "down"]
  /\ tick' = [tick EXCEPT ![o] = "lease"]
  /\ job' = [th \in Threads |-> IF th[1] = o THEN IdleJob ELSE job[th]]
  /\ UNCHANGED <<now, storeVars, wechat, turns, since>>

\* Without "lapse" a living leader renews in time (a tick every 5 s against a
\* lease of 45 s): the clock does not pass its expiry.
Advance ==
  /\ now < MaxTime
  /\ \/ "lapse" \in Faults
     \/ \A o \in Owners : proc[o] = "up" /\ Leads(o) => lease.expires > now + 1
  /\ now' = now + 1
  /\ UNCHANGED <<storeVars, procVars, wechat, turns, since>>
-----------------------------------------------------------------------------
(* tick(): the timer thread.                                               *)

TickLease(o) ==
  /\ proc[o] = "up" /\ tick[o] = "lease"
  /\ Lease(o)
  /\ tick' = [tick EXCEPT ![o] = "admit"]
  /\ UNCHANGED <<now, proc, job, wechat, turns, since>>

TickAdmit(o) ==
  /\ Alive(o) /\ tick[o] = "admit"
  /\ \/ AdmitDue(o)
     \/ ~(enabled /\ Leads(o)) /\ UNCHANGED storeVars
  /\ tick' = [tick EXCEPT ![o] =
                IF proc[o] = "up" /\ job[Worker(o)].pc = "idle"
                THEN "resumes" ELSE "lease"]
  /\ UNCHANGED <<now, proc, job, wechat, turns, since>>

TickResumes(o) ==
  /\ Alive(o) /\ tick[o] = "resumes"
  /\ \/ \E t \in PendingResumes(o) :
          /\ job' = [job EXCEPT ![Worker(o)] =
                       [IdleJob EXCEPT !.pc = "review", !.task = t,
                                       !.version = task[t].version]]
          /\ tick' = [tick EXCEPT ![o] = "lease"]
     \/ /\ PendingResumes(o) = {}
        /\ tick' = [tick EXCEPT ![o] = "failures"]
        /\ UNCHANGED job
  /\ UNCHANGED <<now, storeVars, proc, wechat, turns, since>>

TickFailures(o) ==
  /\ Alive(o) /\ tick[o] = "failures"
  /\ \/ \E k \in PendingFailureRuns :
          /\ job' = [job EXCEPT ![Worker(o)] =
                       [IdleJob EXCEPT !.pc = "handed", !.key = k]]
          /\ tick' = [tick EXCEPT ![o] = "lease"]
     \/ /\ PendingFailureRuns = {}
        /\ tick' = [tick EXCEPT ![o] = "claim"]
        /\ UNCHANGED job
  /\ UNCHANGED <<now, storeVars, proc, wechat, turns, since>>

TickClaim(o) ==
  /\ Alive(o) /\ tick[o] = "claim"
  /\ \/ \E k \in Ready :
          /\ Claim(o, k)
          /\ job' = IF run'[k].status # "running" THEN job
                    ELSE [job EXCEPT ![Worker(o)] =
                            [IdleJob EXCEPT !.pc = "start", !.key = k]]
     \/ ClaimNothing(o) /\ UNCHANGED job
  /\ tick' = [tick EXCEPT ![o] = "lease"]
  /\ UNCHANGED <<now, proc, wechat, turns, since>>
-----------------------------------------------------------------------------
(* execute(): the worker on a claimed run.                                 *)

WorkStart(o) ==
  LET th == Worker(o)
      k  == job[th].key
      tooLate == /\ k.trigger = "scheduled" /\ run[k].attempts = 0
                 /\ now > run[k].at + Grace
  IN  /\ At(th, "start")
      /\ \/ tooLate /\ Finish(k, "missed") /\ Leave(th)
         \/ ~tooLate /\ Goto(th, "check") /\ UNCHANGED storeVars
      /\ UNCHANGED <<now, proc, tick, wechat, turns, since>>

\* _check, the helper's availability, monitor_state, the input files, and the
\* shortcut for a source file that has not changed since the last revision.
WorkCheck(o) ==
  LET th == Worker(o)
      k  == job[th].key
      t  == k.task
      monitored == t \in Monitored
  IN  /\ At(th, "check")
      /\ \/ /\ Stopped(o, k) \/ (Permitted(t) /\ monitored /\ ~MonitorCurrent(k))
            /\ Goto(th, "cancel")
         \/ ~Stopped(o, k) /\ MayRefuse(t) /\ Throw(th, "permission")
         \/ /\ ~Stopped(o, k) /\ Permitted(t)
            /\ monitored => MonitorCurrent(k)
            /\ \/ job' = [job EXCEPT ![th] =
                            [@ EXCEPT !.pc = "reply", !.rev = mon[t].rev]]
               \/ /\ monitored /\ mon[t].rev > 0 /\ t \notin Goals
                  /\ job' = [job EXCEPT ![th] =
                               [@ EXCEPT !.pc = "save", !.rev = mon[t].rev,
                                         !.outcome = "unchanged"]]
      /\ UNCHANGED <<now, storeVars, proc, tick, wechat, turns, since>>

\* The gateway's reply up to bind(): it may fail before any turn is started.
WorkReply(o) ==
  LET th == Worker(o)
      k  == job[th].key
  IN  /\ At(th, "reply")
      /\ \/ \E exc \in Errors : Throw(th, exc) /\ UNCHANGED storeVars
         \/ Bind(k) /\ Goto(th, "turn")
      /\ UNCHANGED <<now, proc, tick, wechat, turns, since>>

\* turn/start: the request may be lost after bind().
WorkTurn(o) ==
  LET th == Worker(o)
  IN  /\ At(th, "turn")
      /\ \/ turns' = Append(turns, job[th].key) /\ Goto(th, "wait")
         \/ \E exc \in Errors : Throw(th, exc) /\ UNCHANGED turns
      /\ UNCHANGED <<now, storeVars, proc, tick, wechat, since>>

\* The turn ends with an answer, or with an error (a stop ends it that way).
WorkAnswer(o) ==
  LET th == Worker(o)
      monitored == job[th].key.task \in Monitored
  IN  /\ At(th, "wait")
      /\ \/ \E out \in Outcomes :
              /\ out = "observed" => monitored
              /\ out = "completed" => ~monitored
              /\ \E seen \in SUBSET Events :
                   /\ out # "observed" => seen = {}
                   /\ job' = [job EXCEPT ![th] =
                                [@ EXCEPT !.pc = "recheck", !.outcome = out,
                                          !.observed = seen, !.inferred = TRUE]]
         \/ \E exc \in Errors \cup {"execution"} :
              /\ exc \in Errors \/ Stopped(o, job[th].key)
              /\ Throw(th, exc)
      /\ UNCHANGED <<now, storeVars, proc, tick, wechat, turns, since>>

\* _check again, then the answer is validated.
WorkRecheck(o) ==
  LET th == Worker(o)
      k  == job[th].key
      out == job[th].outcome
  IN  /\ At(th, "recheck")
      /\ \/ Stopped(o, k) /\ Goto(th, "cancel")
         \/ ~Stopped(o, k) /\ MayRefuse(k.task) /\ Throw(th, "permission")
         \/ /\ ~Stopped(o, k) /\ Permitted(k.task)
            /\ \/ out = "invalid" /\ Throw(th, "execution")
               \/ /\ out = "blocked" /\ k.task \in Monitored
                  /\ Goto(th, "blocked")
               \/ /\ out # "invalid"
                  /\ ~(out = "blocked" /\ k.task \in Monitored)
                  /\ Goto(th, "save")
      /\ UNCHANGED <<now, storeVars, proc, tick, wechat, turns, since>>

\* save_result: refused when the service is off, interrupted when the row, the
\* lease or the monitor moved on.
WorkSave(o) ==
  LET th  == Worker(o)
      me  == job[th]
      k   == me.key
      observing == me.outcome \in {"observed", "unchanged"}
      savable == IF observing THEN Observable(o, k, me.rev) ELSE Savable(o, k)
  IN  /\ At(th, "save")
      /\ \/ ~enabled /\ Throw(th, "permission") /\ UNCHANGED storeVars
         \/ enabled /\ ~savable /\ Goto(th, "cancel") /\ UNCHANGED storeVars
         \/ /\ me.outcome \in {"completed", "blocked"}
            /\ \E n \in 1 .. 2 : SaveReport(o, k, n)
            /\ job' = [job EXCEPT ![th] =
                         [@ EXCEPT !.pc = "deliver", !.checked = TRUE,
                                   !.status = me.outcome]]
         \/ /\ me.outcome = "role_blocked"
            /\ SaveRoleBlock(o, k) /\ Goto(th, "deliver")
         \/ /\ observing
            /\ SaveObservation(o, k, me.rev, me.observed)
            /\ IF me.outcome = "observed" THEN Goto(th, "deliver") ELSE Leave(th)
      /\ UNCHANGED <<now, proc, tick, wechat, turns, since>>

\* except Exception: was it a stop?  (Once the result is saved only
\* InterruptedError leaves the try block, so result_saved is false here.)
WorkCaught(o) ==
  LET th == Worker(o)
  IN  /\ At(th, "caught")
      /\ job' = [job EXCEPT ![th] =
                   IF Stopped(o, @.key)
                   THEN [@ EXCEPT !.pc = "cancel"] ELSE [@ EXCEPT !.pc = "fail"]]
      /\ UNCHANGED <<now, storeVars, proc, tick, wechat, turns, since>>

WorkFail(o) ==
  LET th  == Worker(o)
      me  == job[th]
      transient == me.exc = "connection" /\ ~me.inferred
      notified == /\ ~Fenced(o, me.key) /\ ~MayRetry(me.key, transient)
                  /\ ~Noticed(me.key, me.exc)
  IN  /\ At(th, "fail")
      /\ FailOrRetry(o, me.key, me.exc, transient,
                     IF me.exc = "permission" THEN "blocked" ELSE "failed")
      /\ IF notified THEN Goto(th, "deliver") ELSE Leave(th)
      /\ UNCHANGED <<now, proc, tick, wechat, turns, since>>

\* A monitor that answers "blocked" ends with a notice instead of a result.
WorkBlocked(o) ==
  LET th == Worker(o)
  IN  /\ At(th, "blocked")
      /\ FailOrRetry(o, job[th].key, "monitor_blocked", FALSE, "blocked")
      /\ Goto(th, "deliver")
      /\ UNCHANGED <<now, proc, tick, wechat, turns, since>>

WorkFinish(o) ==
  LET th == Worker(o)
  IN  /\ \/ At(th, "finish") /\ Finish(job[th].key, job[th].status)
         \/ At(th, "cancel") /\ Finish(job[th].key, "cancelled")
      /\ Leave(th)
      /\ UNCHANGED <<now, proc, tick, wechat, turns, since>>
-----------------------------------------------------------------------------
(* deliver_run and deliver: the worker after a run, the dispatcher for     *)
(* pending notices, or a Web request (retry = TRUE).                       *)

Retry(th) == th[2] = "web"
NextPart(th) == Part(job[th].key, IF 1 \in job[th].todo THEN 1 ELSE 2)
Delivered(th) == IF job[th].checked THEN Goto(th, "finish") ELSE Leave(th)

\* A fault: a part that has no row counts as one to send.
DeliverRunMissing(th) ==
  LET k == job[th].key
  IN  /\ At(th, "deliver") \/ At(th, "handed")
      /\ job' = [job EXCEPT ![th] =
                   [@ EXCEPT !.pc = "reserve",
                             !.todo = {n \in 1 .. 2 :
                                Part(k, n) \in DOMAIN dlv
                                => dlv[Part(k, n)].status \in Sendable(Retry(th))}]]
      /\ UNCHANGED <<now, storeVars, proc, tick, wechat, turns, since>>

DeliverRun(th) ==
  LET k == job[th].key
  IN  /\ At(th, "deliver") \/ At(th, "handed")
      /\ job' = [job EXCEPT ![th] =
                   [@ EXCEPT !.pc = "reserve",
                             !.todo = {n \in 1 .. 2 :
                                /\ Part(k, n) \in DOMAIN dlv
                                /\ dlv[Part(k, n)].status \in Sendable(Retry(th))}]]
      /\ UNCHANGED <<now, storeVars, proc, tick, wechat, turns, since>>

\* The reservation of the next part, or the end of the loop.
DeliverReserve(th) ==
  LET d == NextPart(th)
  IN  /\ At(th, "reserve")
      /\ \/ job[th].todo = {} /\ Delivered(th) /\ UNCHANGED storeVars
         \/ /\ job[th].todo # {}
            /\ \/ MayDeliver(d, Retry(th)) /\ Reserve(d) /\ Goto(th, "send")
               \/ /\ AlreadySent(d) /\ UNCHANGED storeVars
                  /\ job' = [job EXCEPT ![th].todo = @ \ {d.part}]
               \/ /\ ~MayDeliver(d, Retry(th)) /\ ~AlreadySent(d)
                  /\ Delivered(th) /\ UNCHANGED storeVars
      /\ UNCHANGED <<now, proc, tick, wechat, turns, since>>

Sent(th, res, raised) ==
  job' = [job EXCEPT ![th] =
            [@ EXCEPT !.pc = "settle", !.res = res, !.raised = raised]]

\* send(): checks first; what WeChat did may not be what it answers.
DeliverSend(th) ==
  LET k == job[th].key
      stopped == job[th].checked /\ Stopped(th[1], k)
  IN  /\ At(th, "send")
      /\ \/ stopped /\ Sent(th, "unknown", TRUE) /\ UNCHANGED wechat
         \/ /\ ~stopped /\ MayRefuse(k.task)
            /\ Sent(th, "failed", FALSE) /\ UNCHANGED wechat
         \/ /\ ~stopped /\ Permitted(k.task)
            /\ wechat' = Append(wechat, NextPart(th))
            /\ \E res \in {"sent", "unknown"} :
                 /\ res = "unknown" => "lost" \in Faults
                 /\ Sent(th, res, FALSE)
         \/ /\ ~stopped /\ Permitted(k.task) /\ "lost" \in Faults
            /\ Sent(th, "unknown", FALSE) /\ UNCHANGED wechat
      /\ UNCHANGED <<now, storeVars, proc, tick, turns, since>>

DeliverSettle(th) ==
  LET d == NextPart(th)
      me == job[th]
  IN  /\ At(th, "settle")
      /\ Settle(d, me.res)
      /\ IF me.raised THEN Goto(th, "cancel")
         ELSE IF me.res = "sent"
         THEN job' = [job EXCEPT ![th] =
                        [@ EXCEPT !.pc = "reserve", !.todo = me.todo \ {d.part}]]
         ELSE Delivered(th)
      /\ UNCHANGED <<now, proc, tick, wechat, turns, since>>
-----------------------------------------------------------------------------
(* resume_due: the worker on a timed pause that is over.                   *)

\* First part of action("resume", _auto_owner): look and let the role reviewer
\* judge; anything it raises but a conflict blocks the resume.
WorkReview(o) ==
  LET th == Worker(o)
      t  == job[th].task
      moved == task[t].version # job[th].version
  IN  /\ At(th, "review")
      /\ \/ moved /\ Leave(th)
         \/ /\ ~moved
            /\ ~enabled \/ GoalDone(t) \/ MayRefuse(t)
            /\ Goto(th, "block")
         \/ /\ ~moved /\ enabled /\ ~GoalDone(t) /\ Permitted(t)
            /\ job' = [job EXCEPT ![th] = [@ EXCEPT !.pc = "commit", !.at = now]]
      /\ UNCHANGED <<now, storeVars, proc, tick, wechat, turns, since>>

\* From when a task that the clock resumes is open again: the end of its
\* pause, and not more than LateWindow before the resume was judged.
Reopening(until, at) ==
  IF until \in 0 .. at /\ at <= until + LateWindow THEN until
  ELSE IF LateWindow <= at THEN at - LateWindow ELSE 0

WorkCommit(o) ==
  LET th == Worker(o)
      t  == job[th].task
      moved == task[t].version # job[th].version
      open  == enabled /\ Permitted(t)
      due   == /\ Leads(o)
               /\ task[t].status = "paused" /\ task[t].reason = "timed"
               /\ task[t].until <= now
  IN  /\ At(th, "commit")
      /\ \/ (moved \/ (open /\ ~due)) /\ Leave(th) /\ UNCHANGED storeVars
         \/ ~moved /\ ~open /\ Goto(th, "block") /\ UNCHANGED storeVars
         \/ ~moved /\ open /\ due /\ AutoResume(t, job[th].at) /\ Leave(th)
      /\ since' = IF ~moved /\ open /\ due
                  THEN [since EXCEPT ![t] = Reopening(task[t].until, job[th].at)] ELSE since
      /\ UNCHANGED <<now, proc, tick, wechat, turns>>

WorkBlock(o) ==
  LET th == Worker(o)
      t  == job[th].task
  IN  /\ At(th, "block")
      /\ IF task[t].version = job[th].version /\ task[t].status = "paused"
         THEN BlockResume(t) ELSE UNCHANGED storeVars
      /\ Leave(th)
      /\ UNCHANGED <<now, proc, tick, wechat, turns, since>>
-----------------------------------------------------------------------------
(* Users, as the administrator: a creator may do no more than this.        *)

Open(t) == enabled /\ Permitted(t)

Asked(op, t) == op \in UserOps /\ t \in Handled

Edit(op, t) == Asked(op, t) /\ task[t].version < MaxVersion

UserTask(t) ==
  /\ \/ /\ now <= CreateBy
        /\ \E rule \in Rules : Create(t, rule)
     \/ /\ Edit("update", t)
        /\ \E rule \in Rules \cup {None}, withMonitor \in BOOLEAN :
             Update(t, rule, withMonitor)
     \/ Edit("pause", t) /\ Pause(t, None)
     \/ Edit("pause_until", t) /\ \E until \in Times : Pause(t, until)
     \/ Edit("resume", t) /\ Resume(t)
     \/ Edit("delete", t) /\ Delete(t)
     \/ Asked("run_now", t) /\ now <= ManualBy /\ \E key \in ManualKeys : RunNow(t, key)
     \/ Asked("stop", t) /\ StopRun(t)
     \/ Edit("next", t) /\ \E at \in Times \cup {None} : ChangeNext(t, at)
     \/ Edit("next", t) /\ ClearNextChange(t)
  /\ since' = [since EXCEPT ![t] =
                 IF task'[t].status = "active" /\ task[t].status # "active"
                 THEN now ELSE @]
  /\ UNCHANGED <<now, procVars, wechat, turns>>

UserSwitch ==
  /\ \/ "switch" \in UserOps /\ \E on \in BOOLEAN : SetEnabled(on)
     \/ /\ "chat" \in UserOps
        /\ \E c \in Chats, on \in BOOLEAN : SetChatEnabled(c, on)
  /\ since' = [t \in Tasks |-> IF Open(t)' /\ ~Open(t) THEN now ELSE since[t]]
  /\ UNCHANGED <<now, procVars, wechat, turns>>

\* POST actions/redeliver, for a run with something left to send (the request
\* does nothing for another).
UserRedeliver(o) ==
  /\ "redeliver" \in UserOps
  /\ proc[o] = "up" /\ job[Web(o)].pc = "idle"
  /\ \E k \in DOMAIN run :
       /\ run[k].status \notin {"queued", "running"}
       /\ task[k.task].status # "deleted"
       /\ \E d \in DOMAIN dlv : d.run = k /\ dlv[d].status \in Sendable(TRUE)
       /\ job' = [job EXCEPT ![Web(o)] =
                    [IdleJob EXCEPT !.pc = "deliver", !.key = k]]
  /\ UNCHANGED <<now, storeVars, proc, tick, wechat, turns, since>>
-----------------------------------------------------------------------------
Tick(o) ==
  TickLease(o) \/ TickAdmit(o) \/ TickResumes(o) \/ TickFailures(o) \/ TickClaim(o)

Deliver(th) ==
  DeliverRun(th) \/ DeliverReserve(th) \/ DeliverSend(th) \/ DeliverSettle(th)

Work(o) ==
  \/ WorkStart(o) \/ WorkCheck(o) \/ WorkReply(o) \/ WorkTurn(o)
  \/ WorkAnswer(o) \/ WorkRecheck(o) \/ WorkSave(o) \/ WorkCaught(o)
  \/ WorkFail(o) \/ WorkBlocked(o) \/ WorkFinish(o)
  \/ WorkReview(o) \/ WorkCommit(o) \/ WorkBlock(o)
  \/ Deliver(Worker(o))

Next ==
  \/ Advance
  \/ UserSwitch
  \/ \E t \in Tasks : UserTask(t)
  \/ \E o \in Owners :
       \/ Start(o) \/ Stop(o) \/ DropFuture(o) \/ Crash(o)
       \/ Tick(o) \/ Work(o) \/ UserRedeliver(o) \/ Deliver(Web(o))

Spec == Init /\ [][Next]_vars

\* The timer loop and the worker are threads of a living process, the launcher
\* starts the next process, and time passes.
Fairness ==
  /\ WF_vars(Advance)
  /\ \A o \in Owners : WF_vars(Start(o)) /\ WF_vars(Tick(o)) /\ WF_vars(Work(o))

FairSpec == Spec /\ Fairness
-----------------------------------------------------------------------------
Pcs == {"idle", "start", "check", "reply", "turn", "wait", "recheck", "save",
        "blocked", "caught", "fail", "cancel", "finish", "handed", "deliver",
        "reserve", "send", "settle", "review", "commit", "block"}

Jobs ==
  [pc : Pcs, key : OrNone(Keys), task : OrNone(Tasks), version : Nat, at : Times,
   rev : Nat, observed : SUBSET Events,
   outcome : Outcomes \cup {"none", "unchanged"}, inferred : BOOLEAN,
   exc : Categories, status : {"completed", "blocked"}, todo : SUBSET (1 .. 2),
   checked : BOOLEAN, res : {"sent", "failed", "unknown"}, raised : BOOLEAN]

\* The pcs of a thread that works on a task (a resume), and on a run.
OnTask == {"review", "commit", "block"}
OnRun == Pcs \ (OnTask \cup {"idle"})

\* The job j is about a task, or about one of the runs ks and its deliveries ds.
JobOK(j, ks, ds) ==
  /\ j \in Jobs
  /\ j.pc \in OnTask => j.task \in Tasks
  /\ j.pc \in OnRun => j.key \in ks
  /\ \A n \in j.todo : Part(j.key, n) \in ds
  /\ j.pc \in {"send", "settle"} => j.todo # {}

JobsOK ==
  /\ job = [th \in Threads |-> job[th]]
  /\ \A th \in Threads : JobOK(job[th], DOMAIN run, DOMAIN dlv)

\* Every table and every thread holds values of its kind, and threads, messages
\* and turns refer to rows that exist.
TypeOK ==
  /\ StoreOK
  /\ proc \in [Owners -> {"unborn", "up", "stopping", "down"}]
  /\ tick \in [Owners -> {"lease", "admit", "resumes", "failures", "claim"}]
  /\ JobsOK
  /\ wechat \in Seq(DOMAIN dlv) /\ turns \in Seq(DOMAIN run)
  /\ since \in [Tasks -> OrNone(Times)]

\* A message is handed to WeChat at most once, whatever crashes, lost
\* acknowledgements, lease changes and redeliveries happen around deliver().
SentOnce == \A i, j \in DOMAIN wechat : wechat[i] = wechat[j] => i = j

\* A run starts a model turn at most once: fail_or_retry never puts back in
\* the queue a run whose thread_id was recorded.
TurnOnce == \A i, j \in DOMAIN turns : turns[i] = turns[j] => i = j

\* Only the holder of the lease has running rows: lease() closes those of the
\* owner it displaces, before claim() hands out new ones.
RunningOwned ==
  \A k \in DOMAIN run :
    run[k].status = "running" => run[k].owner = lease.owner

\* A task never has two runs queued or running (docs: no overlapping runs);
\* baselines, which update() queues without looking, are apart.
NoOverlap ==
  \A j, k \in DOMAIN run :
    /\ j.task = k.task /\ j.task \notin Baselined
    /\ {run[j].status, run[k].status} \subseteq {"queued", "running"}
    => j = k

\* A run the user, a switch or a deletion asked to stop gives no failure
\* notice (docs: such cancellations send none).
CancelIsSilent ==
  \A k \in DOMAIN run : run[k].cancel => run[k].result \notin Categories

\* Nothing waits in the queue of a closed service or chat: neither what was
\* queued before nor a retry that comes back after the closing.
ClosedQueueEmpty ==
  \A k \in DOMAIN run :
    run[k].status = "queued" => enabled /\ Permitted(k.task)

\* A row that has ended never changes its status, and a saved result is never
\* replaced: a late worker finds nothing to overwrite.
EndedStays ==
  [][\A k \in DOMAIN run :
       /\ k \in DOMAIN run'
       /\ run[k].status \in Ended => run'[k].status = run[k].status
       /\ run[k].result # "none" => run'[k].result = run[k].result]_vars

\* The plan of a task matches its status: active tasks and only they have a
\* next fire; a paused task keeps only runs asked for by hand in the queue; a
\* deleted one keeps none.
PlanMatchesStatus ==
  \A t \in Tasks :
    /\ task[t].status = "active" <=> task[t].next # None
    /\ \A k \in HasStatus(t, {"queued"}) :
         /\ task[t].status # "deleted"
         /\ task[t].status = "paused" => k.trigger = "manual"

\* What was missed while the service, the chat or the task was closed is not
\* made up for: a fire queued by the timer is not from before the reopening, be
\* it by a user, by a switch, or by the clock at the end of a timed pause
\* ("正常扫描最多迟到 5 秒的边界触发可执行一次").
NoBackfill ==
  [][\A k \in DOMAIN run' :
       /\ k \notin DOMAIN run
       /\ k.trigger = "scheduled" /\ run'[k].status = "queued"
       => k.n >= since[k.task]]_vars

\* A fire the user skipped or moved does not happen as long as the exception
\* stands, whatever switches, resumes and edits recompute next_run.
SkipHonoured ==
  \A t \in Tasks :
    LET exc == task[t].exc
    IN  exc.original # None /\ exc.replacement # exc.original
        => Key(t, "scheduled", exc.original) \notin DOMAIN run

\* An event of a monitor is announced by one run only, however many runs
\* observe it.
NewsOnce ==
  \A j, k \in DOMAIN run :
    j.task = k.task /\ j # k => run[j].news \cap run[k].news = {}

\* No observation is lost or counted twice: the revision is the number of
\* saved observations, and a goal's ledger holds just what was announced,
\* never more than its target.
ObservationsCounted ==
  \A t \in Monitored :
    LET saved == {k \in DOMAIN run : k.task = t /\ run[k].result = "observation"}
    IN  /\ mon[t].rev = Cardinality(saved)
        /\ t \in Goals =>
             /\ mon[t].ledger = UNION {run[k].news : k \in saved}
             /\ Cardinality(mon[t].ledger) <= Target

\* A reached goal stays closed (docs: it must not be reopened by running or
\* resuming): its task has no next fire and nothing queued.
GoalStaysDone ==
  \A t \in Tasks :
    GoalDone(t) => /\ task[t].status # "active"
                   /\ HasStatus(t, {"queued"}) = {}

\* With no more than crashes, refusals and user edits, the service comes to
\* rest: every run ends (a retry within the clock included), a failure notice
\* or monitor result does not stay pending, a timed pause that is over ends.
Settled ==
  /\ \A k \in DOMAIN run :
       /\ run[k].status # "running"
       /\ run[k].status = "queued" => run[k].retryAt > MaxTime
  /\ PendingFailureRuns = {}
  /\ \A t \in Tasks :
       task[t].reason = "timed" /\ task[t].until <= now => ~(enabled /\ Permitted(t))
Settles == <>[]Settled

\* A row marked running has a worker: if its process is up and holds the
\* lease, the worker is busy with that run.
RunningHasWorker ==
  \A k \in DOMAIN run, o \in Owners :
    run[k].status = "running" /\ run[k].owner = o /\ proc[o] = "up" /\ Leads(o)
    => job[Worker(o)].key = k
=============================================================================
