--------------------------- MODULE AssistantTasks ---------------------------
(***************************************************************************)
(* The supervisor of the assistant's replies                               *)
(* (src/app/assistant/task_supervisor.py) with the steps of a Codex turn   *)
(* that change a task (src/app/services/codex_app_server.py): admission    *)
(* and its slots, the branch a task runs on, the detachment of a long task *)
(* from the chat's worker, the snapshot of a chat and its head, the outbox *)
(* and its checks, cancellation, close and restart.                        *)
(*                                                                         *)
(* Tasks are numbered in the order of their creation.  A Codex thread is   *)
(* named after the task that started it, 0 is none.  Time is three facts   *)
(* of a task: over (the execution deadline passed), gen (when the result   *)
(* was generated) and lapsed (the delivery window passed).                 *)
(***************************************************************************)
EXTENDS Naturals, FiniteSets

CONSTANTS Chats, Messages,
          MaxTasks,      \* bound on the tasks created
          MaxParts,      \* parts of a reply
          MaxRestarts,   \* bound on the restarts
          Closing,       \* bound: whether the assistant is closed at all
          Slots          \* max_workers of the pool

ASSUME SupervisorAssumption ==
    /\ {MaxTasks, Slots} \subseteq Nat \ {0} /\ {MaxParts, MaxRestarts} \subseteq Nat
    /\ Chats # {} /\ IsFiniteSet(Chats) /\ Messages # {}

Ids == 1..MaxTasks
Parts == 1..MaxParts
Progress == {"queued", "running", "background", "network_wait", "delivering"}
Final == {"interrupted", "skipped", "completed", "failed", "delivery_failed", "delivery_blocked"}
Handling == {"open", "loaded", "turn", "saved"}
Live == Handling \cup {"made", "queued", "ended"}

VARIABLES task,      \* the TaskScope and the row of each task
          outbox,    \* assistant_outbox: the status of each part
          calls,     \* history: calls of the transport for each part
          head,      \* assistant_chat_heads
          snapshot,  \* codex_thread_state: the thread and the task that wrote it
          door,      \* how far the chat's worker is in dispatch(), before there is a task
          waiting,   \* the task it has in dispatch(): 0 or a task
          free,      \* _slots
          leaked,    \* history: slots lost to an error of the database
          closed,    \* _closed
          pool,      \* what close() has done since: cancelled the tasks, shut the pool
          restarts
procVars == <<door, waiting, free, leaked, closed, pool, restarts>>
vars == <<task, outbox, calls, head, snapshot, door, waiting, free, leaked, closed, pool, restarts>>

Blank == [at |-> "absent", chat |-> CHOOSE c \in Chats : TRUE, msg |-> CHOOSE m \in Messages : TRUE,
          status |-> "none", fork |-> FALSE, thread |-> 0, kept |-> FALSE, bound |-> FALSE,
          background |-> FALSE, ready |-> FALSE, gen |-> "none", begun |-> FALSE, over |-> FALSE,
          lapsed |-> FALSE, cancel |-> FALSE, error |-> FALSE, bad |-> "none", send |-> "none", late |-> 0]

TypeOK ==
    /\ \A i \in Ids :
         /\ DOMAIN task[i] = DOMAIN Blank /\ task[i].at \in Live \cup {"absent", "leaving", "done", "lost"}
         /\ task[i].chat \in Chats /\ task[i].msg \in Messages /\ task[i].thread \in 0..MaxTasks
         /\ task[i].status \in Progress \cup Final \cup {"none"}
         /\ task[i].gen \in {"none", "intime", "late"} /\ task[i].late \in Nat
         /\ task[i].send \in {"none", "reserved", "admitted", "entered", "called"}
         /\ task[i].send # "none" <=> task[i].at \in Live /\ \E k \in Parts : outbox[i][k] = "sending"
         /\ task[i].at = "turn" => task[i].bound /\ task[i].thread # 0
    /\ outbox \in [Ids -> [Parts -> {"none", "sending", "sent", "failed", "uncertain", "blocked"}]]
    /\ head \in [Chats -> 0..MaxTasks] /\ \A c \in Chats : snapshot[c].thread \in 0..MaxTasks
    /\ door \in [Chats -> {"idle", "asking", "slot", "checked"}] /\ waiting \in [Chats -> 0..MaxTasks]
    /\ free \in 0..Slots /\ leaked \in 0..Slots
    /\ closed \in BOOLEAN /\ pool \in {"open", "swept", "shut"}

Init == /\ task = [i \in Ids |-> Blank]
        /\ outbox = [i \in Ids |-> [k \in Parts |-> "none"]]
        /\ calls = [i \in Ids |-> [k \in Parts |-> 0]]
        /\ head = [c \in Chats |-> 0] /\ waiting = [c \in Chats |-> 0]
        /\ snapshot = [c \in Chats |-> [thread |-> 0, by |-> 0]]
        /\ door = [c \in Chats |-> "idle"] /\ free = Slots /\ leaked = 0
        /\ closed = FALSE /\ pool = "open" /\ restarts = 0

-----------------------------------------------------------------------------
Next1 == Cardinality({i \in Ids : task[i].at # "absent"}) + 1
Of(c) == {i \in Ids : task[i].at # "absent" /\ task[i].chat = c}
Active == {i \in Ids : task[i].at \in Live}
Detached == {i \in Active : task[i].background}
Sending(i) == {k \in Parts : outbox[i][k] = "sending"}
\* What is left of a task without its TaskScope.
Left(i, at) == [k \in DOMAIN Blank |-> IF k = "at" THEN at
    ELSE IF k \in {"chat", "msg", "status", "kept", "bound", "late"} THEN task[i][k] ELSE Blank[k]]
\* The slots in the hands of a worker in dispatch(), and of a task.
AtDoor == {c \in Chats : door[c] \in {"slot", "checked"}}
Holding == {i \in Ids : task[i].at \in Live \cup {"leaving"}}
Untouched == UNCHANGED <<head, snapshot, procVars>>

\* create(): the message is being answered, or reached a thread and was not
\* given up.
Duplicate(c, m) == \E i \in Of(c) :
    /\ task[i].msg = m /\ task[i].status \notin {"skipped", "failed", "interrupted"}
    /\ task[i].bound \/ task[i].status \in Progress \ {"queued"}

\* dispatch(): a message is let in unless the assistant is closed, one of a
\* chat at a time.
Arrive(c) ==
    /\ ~closed /\ door[c] = "idle" /\ waiting[c] = 0
    /\ door' = [door EXCEPT ![c] = "asking"]
    /\ UNCHANGED <<task, outbox, calls, head, snapshot, waiting, free, leaked, closed, pool, restarts>>

Acquire(c) ==
    /\ door[c] = "asking" /\ free > 0
    /\ door' = [door EXCEPT ![c] = "slot"] /\ free' = free - 1
    /\ UNCHANGED <<task, outbox, calls, head, snapshot, waiting, leaked, closed, pool, restarts>>

\* The worker leaves dispatch() and gives its slot back.
TurnAway(c) ==
    /\ door' = [door EXCEPT ![c] = "idle"] /\ free' = free + 1
    /\ UNCHANGED <<task, outbox, calls, head, snapshot, waiting, leaked, closed, pool, restarts>>

\* The assistant may have been closed while the worker waited for its slot.
Recheck(c) ==
    /\ door[c] = "slot"
    /\ \/ closed /\ TurnAway(c)
       \/ /\ ~closed /\ door' = [door EXCEPT ![c] = "checked"]
          /\ UNCHANGED <<task, outbox, calls, head, snapshot, waiting, free, leaked, closed, pool, restarts>>

\* A fault: the task continues the thread of the detached task.
ShareFault(c, m, again) ==
    /\ door[c] = "checked" /\ Next1 \in Ids /\ ~Duplicate(c, m)
    /\ again => \E i \in Of(c) : task[i].status = "completed" /\ task[i].kept
    /\ task' = [task EXCEPT ![Next1] =
           [Blank EXCEPT !.at = "made", !.status = "queued", !.chat = c, !.msg = m, !.fork = again]]
    /\ door' = [door EXCEPT ![c] = "idle"] /\ waiting' = [waiting EXCEPT ![c] = Next1]
    /\ UNCHANGED <<outbox, calls, head, snapshot, free, leaked, closed, pool, restarts>>
\* Under the lock: the task branches off a detached task that is still the
\* head, or off the completed task the message names (again).
Create(c, m, again) ==
    /\ door[c] = "checked" /\ Next1 \in Ids /\ ~Duplicate(c, m)
    /\ again => \E i \in Of(c) : task[i].status = "completed" /\ task[i].kept
    /\ task' = [task EXCEPT ![Next1] = [Blank EXCEPT !.at = "made", !.status = "queued", !.chat = c,
           !.msg = m, !.fork = again \/ \E i \in Detached : task[i].chat = c /\ head[c] = i]]
    /\ door' = [door EXCEPT ![c] = "idle"] /\ waiting' = [waiting EXCEPT ![c] = Next1]
    /\ UNCHANGED <<outbox, calls, head, snapshot, free, leaked, closed, pool, restarts>>

Refuse(c) == door[c] = "checked" /\ (\E m \in Messages : Duplicate(c, m)) /\ TurnAway(c)

\* is_head(), lookup() or create() raises: nobody gives the slot back.
CreateFails(c) ==
    /\ door[c] = "checked"
    /\ door' = [door EXCEPT ![c] = "idle"] /\ leaked' = leaked + 1
    /\ UNCHANGED <<task, outbox, calls, head, snapshot, waiting, free, closed, pool, restarts>>

Submit(i) ==
    /\ task[i].at = "made" /\ pool # "shut"
    /\ task' = [task EXCEPT ![i] = [@ EXCEPT !.at = "queued"]]
    /\ UNCHANGED <<outbox, calls>> /\ Untouched

\* A fault: the exception leaves dispatch() with the slot.
SubmitFailsFault(i) ==
    /\ task[i].at = "made" /\ pool = "shut"
    /\ task' = [task EXCEPT ![i] = Left(i, "done")]
    /\ waiting' = [waiting EXCEPT ![task[i].chat] = 0]
    /\ UNCHANGED <<outbox, calls, head, snapshot, door, free, leaked, closed, pool, restarts>>
\* The pool takes no more tasks: the row stays queued, dispatch() raises.
SubmitFails(i) ==
    /\ task[i].at = "made" /\ pool = "shut"
    /\ task' = [task EXCEPT ![i] = Left(i, "done")]
    /\ waiting' = [waiting EXCEPT ![task[i].chat] = 0] /\ free' = free + 1
    /\ UNCHANGED <<outbox, calls, head, snapshot, door, leaked, closed, pool, restarts>>

\* dispatch() leaves a long task to itself, one at a time; the final status
\* may already be written.
Detach(i) ==
    /\ waiting[task[i].chat] = i /\ task[i].at \in Live /\ task[i].bound /\ ~task[i].ready /\ Detached = {}
    /\ task' = [task EXCEPT ![i] = [@ EXCEPT !.background = TRUE, !.status = "background"]]
    /\ waiting' = [waiting EXCEPT ![task[i].chat] = 0]
    /\ UNCHANGED <<outbox, calls, head, snapshot, door, free, leaked, closed, pool, restarts>>

\* dispatch() returns with its task.
Return(c) ==
    /\ waiting[c] # 0 /\ task[waiting[c]].at = "done"
    /\ waiting' = [waiting EXCEPT ![c] = 0]
    /\ UNCHANGED <<task, outbox, calls, head, snapshot, door, free, leaked, closed, pool, restarts>>

\* _run(): a stopped assistant and a message that grew old in the queue end
\* the task, otherwise the handler is called.
Begin(i) ==
    /\ task[i].at = "queued"
    /\ \/ closed /\ task' = [task EXCEPT ![i] = [@ EXCEPT !.at = "ended", !.status = "interrupted"]]
       \/ ~closed /\ task' = [task EXCEPT ![i] = [@ EXCEPT !.at = "ended", !.status = "skipped"]]
       \/ ~closed /\ task' = [task EXCEPT ![i] = [@ EXCEPT !.at = "open"]]
    /\ UNCHANGED <<outbox, calls>> /\ Untouched

\* load_state(): the task takes the chat's snapshot and becomes its head; a
\* branch first replaces the snapshot by one without a thread.
Load(i) ==
    /\ task[i].at = "open" /\ ~task[i].cancel
    /\ LET c == task[i].chat IN
         /\ task' = [task EXCEPT ![i] = [@ EXCEPT !.at = "loaded", !.status = "running", !.fork = FALSE,
                                 !.thread = IF task[i].fork THEN 0 ELSE snapshot[c].thread]]
         /\ head' = [head EXCEPT ![c] = i]
         /\ snapshot' = IF task[i].fork THEN [snapshot EXCEPT ![c] = [thread |-> 0, by |-> i]] ELSE snapshot
    /\ UNCHANGED <<outbox, calls, procVars>>

\* A fault: a turn is started after the execution deadline.
BindFault(i) ==
    /\ task[i].at = "loaded" /\ ~task[i].cancel /\ task[i].send = "none"
    /\ \E t \in {i} \cup ({task[i].thread} \ {0}) :
         task' = [task EXCEPT ![i] = [@ EXCEPT !.at = "turn", !.bound = TRUE, !.ready = FALSE, !.thread = t]]
    /\ UNCHANGED <<outbox, calls>> /\ Untouched
\* bind(): a turn starts on the thread of the task's state, or on a new one.
Bind(i) ==
    /\ task[i].at = "loaded" /\ ~task[i].cancel /\ ~task[i].over /\ task[i].send = "none"
    /\ \E t \in {i} \cup ({task[i].thread} \ {0}) :
         task' = [task EXCEPT ![i] = [@ EXCEPT !.at = "turn", !.bound = TRUE, !.ready = FALSE, !.thread = t]]
    /\ UNCHANGED <<outbox, calls>> /\ Untouched

\* The wait for the turn follows the state of the connection.
Network(i) ==
    /\ task[i].at = "turn"
    /\ task' = [task EXCEPT ![i] = [@ EXCEPT !.status = IF task[i].status # "network_wait" THEN "network_wait"
                                          ELSE IF task[i].background THEN "background" ELSE "running"]]
    /\ UNCHANGED <<outbox, calls>> /\ Untouched

\* A fault: a task that is no longer the head publishes too.
WriteFault(i, t) == snapshot' = [snapshot EXCEPT ![task[i].chat] = [thread |-> t, by |-> i]]
\* TaskStore.save_state(): only the head publishes its snapshot.
Write(i, t) == snapshot' = IF head[task[i].chat] = i
                           THEN [snapshot EXCEPT ![task[i].chat] = [thread |-> t, by |-> i]] ELSE snapshot

\* The turn completed and its state is saved (that of a fresh context with a
\* thread that is not resumed).
Save(i) ==
    /\ task[i].at = "turn" /\ task[i].send = "none"
    /\ task' = [task EXCEPT ![i] = [@ EXCEPT !.at = "saved", !.kept = TRUE]]
    /\ \E t \in {0, task[i].thread} : Write(i, t)
    /\ UNCHANGED <<outbox, calls, head, procVars>>

\* A fault: every generation opens a new delivery window.
CompleteFault(i) ==
    /\ task[i].at = "saved"
    /\ task' = [task EXCEPT ![i] = [@ EXCEPT !.at = "loaded", !.ready = TRUE, !.error = FALSE,
           !.status = "delivering", !.lapsed = FALSE, !.gen = IF task[i].over THEN "late" ELSE "intime"]]
    /\ UNCHANGED <<outbox, calls>> /\ Untouched
\* completed_result(): the delivery window opens, once delivery began for good.
Complete(i) ==
    /\ task[i].at = "saved"
    /\ task' = [task EXCEPT ![i] = [@ EXCEPT !.at = "loaded", !.ready = TRUE, !.error = FALSE, !.status = "delivering",
           !.lapsed = task[i].lapsed /\ task[i].begun,
           !.gen = IF task[i].begun THEN task[i].gen ELSE IF task[i].over THEN "late" ELSE "intime"]]
    /\ UNCHANGED <<outbox, calls>> /\ Untouched

\* The turn failed, was interrupted or ran out of time; an incremental context
\* drops its thread.
Fail(i) ==
    /\ task[i].at \in {"loaded", "turn"} /\ task[i].send = "none"
    /\ \/ /\ task' = [task EXCEPT ![i] = [@ EXCEPT !.at = "loaded", !.error = TRUE, !.thread = 0, !.kept = TRUE]]
          /\ Write(i, 0)
       \/ task' = [task EXCEPT ![i] = [@ EXCEPT !.at = "loaded", !.error = TRUE]] /\ UNCHANGED snapshot
    /\ UNCHANGED <<outbox, calls, head, procVars>>

-----------------------------------------------------------------------------
\* A fault: a cancellation is not looked at.
AllowedFault(i) == /\ task[i].at \in Live
                   /\ IF task[i].gen = "none" THEN ~task[i].over ELSE task[i].gen = "intime" /\ ~task[i].lapsed
\* require_delivery_allowed(): the execution deadline until there is a result,
\* the delivery window after that.
Allowed(i) == /\ ~task[i].cancel /\ task[i].at \in Live
              /\ IF task[i].gen = "none" THEN ~task[i].over ELSE task[i].gen = "intime" /\ ~task[i].lapsed

\* TaskStore.delivery(): the part is recorded before anything is done for it.
Reserve(i, k) ==
    /\ task[i].at \in Handling \ {"saved"} /\ task[i].send = "none"
    /\ outbox[i][k] = "none" /\ \A j \in 1..(k - 1) : outbox[i][j] # "none"
    /\ outbox' = [outbox EXCEPT ![i][k] = "sending"]
    /\ task' = [task EXCEPT ![i] = [@ EXCEPT !.send = "reserved"]]
    /\ UNCHANGED calls /\ Untouched

\* A fault: the part ends, its send does not.
RecordFault(i, st) ==
    /\ outbox' = [outbox EXCEPT ![i] = [k \in Parts |-> IF k \in Sending(i) THEN st ELSE @[k]]]
    /\ task' = [task EXCEPT ![i] = [@ EXCEPT !.bad = IF st = "sent" THEN task[i].bad ELSE st]]
\* The part ends with a status; one that was not sent is remembered.
Record(i, st) ==
    /\ outbox' = [outbox EXCEPT ![i] = [k \in Parts |-> IF k \in Sending(i) THEN st ELSE @[k]]]
    /\ task' = [task EXCEPT ![i] = [@ EXCEPT !.send = "none", !.bad = IF st = "sent" THEN task[i].bad ELSE st]]

\* delivery() checks the task, and the transport again under its lock.
Check(i) ==
    /\ task[i].send \in {"reserved", "admitted"}
    /\ LET begun == task[i].begun \/ (task[i].send = "reserved" /\ task[i].ready) IN
       IF Allowed(i)
       THEN /\ task' = [task EXCEPT ![i] = [@ EXCEPT !.begun = begun,
                                    !.send = IF task[i].send = "reserved" THEN "admitted" ELSE "entered"]]
            /\ UNCHANGED outbox
       ELSE /\ outbox' = [outbox EXCEPT ![i] = [k \in Parts |-> IF k \in Sending(i) THEN "blocked" ELSE @[k]]]
            /\ task' = [task EXCEPT ![i] = [@ EXCEPT !.begun = begun, !.send = "none", !.bad = "blocked"]]
    /\ UNCHANGED calls /\ Untouched

Call(i) ==
    /\ task[i].send = "entered"
    /\ calls' = [calls EXCEPT ![i] = [k \in Parts |-> IF k \in Sending(i) THEN @[k] + 1 ELSE @[k]]]
    /\ task' = [task EXCEPT ![i] = [@ EXCEPT !.send = "called", !.late = IF task[i].cancel THEN task[i].late + 1 ELSE task[i].late]]
    /\ UNCHANGED outbox /\ Untouched

\* The transport returned True or False, or raised, perhaps before its effect.
Settle(i, st) ==
    /\ \/ task[i].send = "called" /\ st \in {"sent", "failed", "uncertain"}
       \/ task[i].send \in {"admitted", "entered"} /\ st = "uncertain"
    /\ Record(i, st)
    /\ UNCHANGED calls /\ Untouched

-----------------------------------------------------------------------------
\* A fault: a confirmed part makes up for one that was not.
VerdictFault(i, ok) == IF task[i].error THEN "failed" ELSE IF ok THEN "completed"
                       ELSE IF task[i].ready THEN "delivery_failed" ELSE "skipped"
\* The status _run() gives a handler that returned (ok: with a reply).
Verdict(i, ok) ==
    CASE task[i].bad = "blocked" -> "delivery_blocked"
      [] task[i].bad \in {"failed", "uncertain"} -> "delivery_failed"
      [] task[i].bad = "none" /\ task[i].error -> "failed"
      [] task[i].bad = "none" /\ ~task[i].error ->
           IF ok THEN "completed" ELSE IF task[i].ready THEN "delivery_failed" ELSE "skipped"

\* The handler returned or raised.
Finish(i) ==
    /\ task[i].at \in {"open", "loaded"} /\ task[i].send = "none"
    /\ \E st \in {Verdict(i, ok) : ok \in BOOLEAN}
               \cup {IF task[i].ready THEN "delivery_failed" ELSE "failed"}
               \cup {"delivery_blocked" : k \in {k \in Parts : outbox[i][k] = "blocked"}} :
         task' = [task EXCEPT ![i] = [@ EXCEPT !.at = "ended", !.status = st]]
    /\ UNCHANGED <<outbox, calls>> /\ Untouched

\* The finally of _run(): the task is done, then its slot is free.
Exit(i) ==
    /\ task[i].at = "ended"
    /\ task' = [task EXCEPT ![i] = Left(i, "leaving")]
    /\ UNCHANGED <<outbox, calls>> /\ Untouched
Release(i) ==
    /\ task[i].at = "leaving"
    /\ task' = [task EXCEPT ![i] = Left(i, "done")] /\ free' = free + 1
    /\ UNCHANGED <<outbox, calls, head, snapshot, door, waiting, leaked, closed, pool, restarts>>

\* The command that cancels a task with a turn (or its Codex job).
Cancel(i) ==
    /\ task[i].at \in Live /\ task[i].bound /\ ~task[i].cancel
    /\ task' = [task EXCEPT ![i] = [@ EXCEPT !.cancel = TRUE]]
    /\ UNCHANGED <<outbox, calls>> /\ Untouched

\* Time passes for a task: its execution deadline, and its delivery window
\* while there is a part to send.
Expire(i) ==
    /\ task[i].at \in {"loaded", "turn", "saved"} /\ ~task[i].over
    /\ task' = [task EXCEPT ![i] = [@ EXCEPT !.over = TRUE]]
    /\ UNCHANGED <<outbox, calls>> /\ Untouched
Lapse(i) ==
    /\ task[i].at \in {"loaded", "turn", "saved"} /\ task[i].gen # "none" /\ ~task[i].lapsed
    /\ \E k \in Parts : outbox[i][k] \in {"none", "sending"}
    /\ task' = [task EXCEPT ![i] = [@ EXCEPT !.lapsed = TRUE]]
    /\ UNCHANGED <<outbox, calls>> /\ Untouched

\* close(): nothing new is admitted, every active task is cancelled, the pool
\* takes no more tasks.
Close == Closing /\ ~closed /\ closed' = TRUE
         /\ UNCHANGED <<task, outbox, calls, head, snapshot, door, waiting, free, leaked, pool, restarts>>
Sweep ==
    /\ closed /\ pool = "open" /\ pool' = "swept"
    /\ task' = [i \in Ids |-> [task[i] EXCEPT !.cancel = @ \/ i \in Active]]
    /\ UNCHANGED <<outbox, calls, head, snapshot, door, waiting, free, leaked, closed, restarts>>
Shut == pool = "swept" /\ pool' = "shut"
        /\ UNCHANGED <<task, outbox, calls, head, snapshot, door, waiting, free, leaked, closed, restarts>>

\* recover(): a task of the previous process is interrupted.
Recovered(i) == IF task[i].status \in Progress THEN "interrupted" ELSE task[i].status

\* The process ends, or is stopped, and starts again.
Renewed ==
    /\ restarts < MaxRestarts /\ restarts' = restarts + 1
    /\ task' = [i \in Ids |-> [IF i \in Holding THEN Left(i, "lost") ELSE task[i] EXCEPT !.status = Recovered(i)]]
    /\ door' = [c \in Chats |-> "idle"] /\ waiting' = [c \in Chats |-> 0]
    /\ free' = Slots /\ leaked' = 0 /\ closed' = FALSE /\ pool' = "open"
    /\ UNCHANGED <<calls, head, snapshot>>

\* A fault: recover() leaves the parts that were being sent.
RestartFault == Renewed /\ outbox' = [i \in Ids |-> [k \in Parts |-> IF k \in Sending(i) THEN "none" ELSE outbox[i][k]]]
\* What was being sent is uncertain.
Restart == Renewed /\ outbox' = [i \in Ids |-> [k \in Parts |-> IF k \in Sending(i) THEN "uncertain" ELSE outbox[i][k]]]

\* What the task's own thread does next.
Step(i) == \/ Begin(i) \/ Load(i) \/ Bind(i) \/ Save(i) \/ Complete(i) \/ Fail(i) \/ Finish(i) \/ Exit(i) \/ Release(i)
           \/ Check(i) \/ Call(i) \/ \E st \in {"sent", "failed", "uncertain"} : Settle(i, st)
\* What the chat's worker does next in dispatch().
Enter(c) == \/ Acquire(c) \/ Recheck(c) \/ Refuse(c) \/ CreateFails(c)
            \/ \E m \in Messages, again \in BOOLEAN : Create(c, m, again)
HandOver(i) == Submit(i) \/ SubmitFails(i)
Next == \/ \E c \in Chats : Arrive(c) \/ Enter(c) \/ Return(c)
        \/ \E i \in Ids : \/ HandOver(i) \/ Step(i) \/ Network(i) \/ Detach(i) \/ Cancel(i) \/ Expire(i) \/ Lapse(i)
                          \/ \E k \in Parts : Reserve(i, k)
        \/ Close \/ Sweep \/ Shut \/ Restart
\* The pool runs every task, a turn and a call of the transport have timeouts,
\* and a handler returns; the execution deadline comes; a slot goes to a worker
\* that waits for one.
Spec == /\ Init /\ [][Next]_vars
        /\ \A i \in Ids : WF_vars(Step(i)) /\ WF_vars(Expire(i)) /\ WF_vars(HandOver(i))
        /\ \A c \in Chats : WF_vars(Enter(c)) /\ WF_vars(Return(c))

-----------------------------------------------------------------------------
\* Over every way out of dispatch() (closed while waiting, duplicate, pool that
\* takes no task), every early end of a task, close() and restart, a slot is
\* free, in the hands of a worker or of a task that has not given it back, or
\* lost to an error of the database until the restart.
SlotsKept == free + leaked + Cardinality(AtDoor) + Cardinality(Holding) = Slots

\* Two running turns never share a Codex thread: what a detached task works on
\* is never resumed by a later task of the chat.
DistinctThreads == \A i, j \in Ids :
    i # j /\ task[i].at = "turn" /\ task[j].at = "turn" => task[i].thread # task[j].thread

\* The snapshot of a chat is never replaced by that of an earlier task ("only
\* the current task may publish that snapshot as the chat head").
SnapshotNeverOlder == [][\A c \in Chats : snapshot'[c].by >= snapshot[c].by]_vars

\* A reply recorded as completed was confirmed in every part it tried.
CompletedDelivered == \A i \in Ids : task[i].status = "completed" =>
    \A k \in Parts : outbox[i][k] \in {"none", "sent"}

\* After a cancellation or the end of the assistant at most the part that was
\* already past both checks is sent.
OneLateSend == \A i \in Ids : task[i].late <= 1

\* "once delivery starts, all parts share one frozen window": a refusal is for
\* good, a corrected generation does not renew it.
WindowFrozen == [][\A i \in Ids : task[i].begun /\ ~Allowed(i) => ~Allowed(i)']_vars

\* The outbox of the tasks implements SendOnce: "Never replay side effects
\* after losing the local owner/acknowledgement".
Outbox == INSTANCE SendOnce WITH Effects <- Ids \X Parts,
    outcome <- [e \in Ids \X Parts |-> CASE outbox[e[1]][e[2]] = "failed" -> "uncertain"
                                         [] outbox[e[1]][e[2]] = "blocked" -> "refused"
                                         [] OTHER -> outbox[e[1]][e[2]]],
    sends <- [e \in Ids \X Parts |-> calls[e[1]][e[2]]]
OutboxSpec == Outbox!Spec

\* The chat's worker always gets back from dispatch(), to take the next message,
\* unless errors of the database have taken every slot.
WorkerFreed == \A c \in Chats : (door[c] # "idle" \/ waiting[c] # 0
                                ~> (door[c] = "idle" /\ waiting[c] = 0) \/ leaked = Slots)
=============================================================================
