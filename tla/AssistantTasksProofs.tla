------------------------- MODULE AssistantTasksProofs -------------------------
(***************************************************************************)
(* Theorems about AssistantTasks, for every set of chats and messages and  *)
(* every number of tasks, parts, slots and restarts.                       *)
(***************************************************************************)
EXTENDS AssistantTasks, FiniteSetTheorems, TLAPS

USE SupervisorAssumption

Task == [at : Live \cup {"absent", "leaving", "done", "lost"}, chat : Chats, msg : Messages,
         status : Progress \cup Final \cup {"none"}, fork : BOOLEAN, thread : 0..MaxTasks, kept : BOOLEAN,
         bound : BOOLEAN, background : BOOLEAN, ready : BOOLEAN, gen : {"none", "intime", "late"},
         begun : BOOLEAN, over : BOOLEAN, lapsed : BOOLEAN, cancel : BOOLEAN, error : BOOLEAN,
         bad : {"none", "failed", "uncertain", "blocked"},
         send : {"none", "reserved", "admitted", "entered", "called"}, late : Nat]
Marks == {"none", "sending", "sent", "failed", "uncertain", "blocked"}
Typed == /\ task \in [Ids -> Task]
         /\ outbox \in [Ids -> [Parts -> Marks]]
         /\ calls \in [Ids -> [Parts -> Nat]]
         /\ head \in [Chats -> 0..MaxTasks]
         /\ snapshot \in [Chats -> [thread : 0..MaxTasks, by : 0..MaxTasks]]
         /\ door \in [Chats -> {"idle", "asking", "slot", "checked"}] /\ waiting \in [Chats -> 0..MaxTasks]
         /\ free \in Nat /\ leaked \in Nat /\ closed \in BOOLEAN /\ pool \in {"open", "swept", "shut"}

\* What a task, its parts and their sends have to do with each other.
Known(i) ==
    /\ task[i].at = "absent" => task[i].status = "none" /\ task[i].send = "none" /\ \A k \in Parts : outbox[i][k] = "none"
    /\ task[i].send = "none" => Sending(i) = {}
    /\ task[i].send # "none" => task[i].at \in {"open", "loaded", "turn"} /\ \E k \in Parts : Sending(i) = {k}
    /\ task[i].at = "turn" => task[i].bound /\ task[i].thread # 0
    /\ task[i].ready \/ task[i].begun => task[i].gen # "none"
    /\ task[i].begun => task[i].at \in Live
    /\ task[i].late <= 1
    /\ task[i].late # 0 /\ task[i].at \in Live => task[i].cancel /\ task[i].send \notin {"admitted", "entered"}
    /\ task[i].status = "completed" => task[i].at \in {"ended", "leaving", "done", "lost"} /\ \A k \in Parts : outbox[i][k] \in {"none", "sent"}
    /\ task[i].at \in Live /\ task[i].bad = "none" => \A k \in Parts : outbox[i][k] \in {"none", "sending", "sent"}
    /\ \A k \in Parts : /\ outbox[i][k] \in {"none", "blocked"} => calls[i][k] = 0
                        /\ outbox[i][k] = "sending" => calls[i][k] = IF task[i].send = "called" THEN 1 ELSE 0

-----------------------------------------------------------------------------
(* Types.                                                                  *)

LEMMA BlankTask == Blank \in Task
  BY DEF Blank, Task, Live

LEMMA LeftTask ==
  ASSUME NEW i \in Ids, task[i] \in Task, NEW at \in {"leaving", "done", "lost"}
  PROVE  /\ Left(i, at) \in Task
         /\ Left(i, at).at = at /\ Left(i, at).chat = task[i].chat /\ Left(i, at).status = task[i].status
         /\ Left(i, at).bound = task[i].bound /\ Left(i, at).late = task[i].late
         /\ Left(i, at).send = "none" /\ Left(i, at).thread = 0
         /\ ~Left(i, at).ready /\ ~Left(i, at).begun /\ ~Left(i, at).background
<1>1. Left(i, at) = [Blank EXCEPT !.at = at, !.chat = task[i].chat, !.msg = task[i].msg,
          !.status = task[i].status, !.kept = task[i].kept, !.bound = task[i].bound, !.late = task[i].late]
  BY DEF Blank, Task, Left
<1>2. Left(i, at) \in Task BY <1>1, BlankTask DEF Task
<1> QED BY <1>2 DEF Left, Blank

\* What a task's own steps do to its row.
Advances(i) == \/ HandOver(i) \/ Step(i) \/ Network(i) \/ Detach(i) \/ Cancel(i) \/ Expire(i) \/ Lapse(i)
               \/ \E k \in Parts : Reserve(i, k)
Writes(i, r) == r \in Task /\ task' = [task EXCEPT ![i] = r]

LEMMA WritesRow == ASSUME Typed, NEW i \in Ids, NEW r \in Task, task' = [task EXCEPT ![i] = r]
  PROVE  Writes(i, r) /\ task'[i] = r
  BY DEF Typed, Writes

LEMMA SameParts == ASSUME NEW i \in Ids, outbox' = outbox, calls' = calls PROVE Sending(i)' = Sending(i)
  BY DEF Sending

LEMMA OwnStep ==
  ASSUME Typed, NEW i \in Ids, Advances(i), Known(i)
  PROVE  (\E w : Writes(i, w)) /\ Known(i)'
<1> DEFINE r == task[i]
<1>1. r \in Task BY DEF Typed
<1>2. CASE Begin(i)
  <2>1. /\ [r EXCEPT !.at = "ended", !.status = "interrupted"] \in Task
        /\ [r EXCEPT !.at = "ended", !.status = "skipped"] \in Task
        /\ [r EXCEPT !.at = "open"] \in Task
    BY <1>1 DEF Task, Live, Final, Handling
  <2>2. PICK s \in Task : /\ task' = [task EXCEPT ![i] = s]
                          /\ \/ s = [r EXCEPT !.at = "ended", !.status = "interrupted"]
                             \/ s = [r EXCEPT !.at = "ended", !.status = "skipped"]
                             \/ s = [r EXCEPT !.at = "open"]
    BY <1>2, <2>1 DEF Begin
  <2>3. Writes(i, s) /\ task'[i] = s BY <2>2, WritesRow
  <2>4. Sending(i)' = Sending(i) BY <1>2, SameParts DEF Begin
  <2>5. outbox' = outbox /\ calls' = calls /\ r.at = "queued" BY <1>2 DEF Begin
  <2>6. ASSUME NEW st \in {"interrupted", "skipped"}, s = [r EXCEPT !.at = "ended", !.status = st]
        PROVE  Known(i)'
    BY <1>1, <2>3, <2>4, <2>5, <2>6 DEF Known, Task, Live, Handling
  <2>7. ASSUME s = [r EXCEPT !.at = "open"] PROVE Known(i)'
    BY <1>1, <2>3, <2>4, <2>5, <2>7 DEF Known, Task, Live, Handling
  <2>8. Known(i)' BY <2>2, <2>6, <2>7
  <2> QED BY <2>3, <2>8
<1>3. CASE Load(i)
  <2> DEFINE t == IF r.fork THEN 0 ELSE snapshot[r.chat].thread
             s == [r EXCEPT !.at = "loaded", !.status = "running", !.fork = FALSE, !.thread = t]
  <2>1. t \in 0..MaxTasks BY <1>1 DEF Task, Typed
  <2>2. task' = [task EXCEPT ![i] = s] BY <1>3 DEF Load
  <2> HIDE DEF t
  <2>3. Writes(i, s) /\ task'[i] = s
    <3>1. s \in Task BY <1>1, <2>1, <2>2 DEF Task, Live, Handling, Progress
    <3>2. task' = [task EXCEPT ![i] = s] BY <1>1, <2>1, <2>2
    <3> QED BY <3>1, <3>2, WritesRow
  <2>4. Sending(i)' = Sending(i) BY <1>3, SameParts DEF Load
  <2>5. Known(i)' BY <1>1, <1>3, <2>3, <2>4 DEF Load, Known, Task, Live, Handling
  <2> QED BY <2>3, <2>5
<1>4. CASE Bind(i)
  <2>1. PICK t \in {i} \cup ({r.thread} \ {0}) : task' = [task EXCEPT ![i] =
            [r EXCEPT !.at = "turn", !.bound = TRUE, !.ready = FALSE, !.thread = t]]
    BY <1>4 DEF Bind
  <2> DEFINE s == [r EXCEPT !.at = "turn", !.bound = TRUE, !.ready = FALSE, !.thread = t]
  <2>2. t \in 0..MaxTasks /\ t # 0 BY <1>1 DEF Task, Ids
  <2>3. Writes(i, s) /\ task'[i] = s
    <3>1. s \in Task BY <1>1, <2>1, <2>2 DEF Task, Live, Handling
    <3>2. task' = [task EXCEPT ![i] = s] BY <1>1, <2>1, <2>2
    <3> QED BY <3>1, <3>2, WritesRow
  <2>4. Sending(i)' = Sending(i) BY <1>4, SameParts DEF Bind
  <2>5. outbox' = outbox /\ calls' = calls /\ r.at = "loaded" /\ r.send = "none" BY <1>4 DEF Bind
  <2>6. Known(i)' BY <1>1, <2>2, <2>3, <2>4, <2>5 DEF Known, Task, Live, Handling
  <2> QED BY <2>3, <2>6
<1>5. CASE Network(i)
  <2> DEFINE st == IF r.status # "network_wait" THEN "network_wait"
                   ELSE IF r.background THEN "background" ELSE "running"
             s == [r EXCEPT !.status = st]
  <2>1. st \in Progress \ {"completed"} BY DEF Progress
  <2>2. task' = [task EXCEPT ![i] = s] BY <1>5 DEF Network
  <2> HIDE DEF st
  <2>3. Writes(i, s) /\ task'[i] = s
    <3>1. s \in Task BY <1>1, <2>1, <2>2 DEF Task
    <3>2. task' = [task EXCEPT ![i] = s] BY <1>1, <2>1, <2>2
    <3> QED BY <3>1, <3>2, WritesRow
  <2>4. Sending(i)' = Sending(i) BY <1>5, SameParts DEF Network
  <2>5. Known(i)' BY <1>1, <1>5, <2>1, <2>3, <2>4 DEF Network, Known, Task, Live, Handling
  <2> QED BY <2>3, <2>5
<1>6. CASE Save(i)
  <2> DEFINE s == [r EXCEPT !.at = "saved", !.kept = TRUE]
  <2>1. Writes(i, s) /\ task'[i] = s
    <3>1. s \in Task BY <1>1, <1>6 DEF Task, Live, Handling
    <3>2. task' = [task EXCEPT ![i] = s] BY <1>1, <1>6 DEF Save
    <3> QED BY <3>1, <3>2, WritesRow
  <2>2. Sending(i)' = Sending(i) BY <1>6, SameParts DEF Save
  <2>3. Known(i)' BY <1>1, <1>6, <2>1, <2>2 DEF Save, Known, Task, Live, Handling
  <2> QED BY <2>1, <2>3
<1>7. CASE Complete(i)
  <2> DEFINE g == IF r.begun THEN r.gen ELSE IF r.over THEN "late" ELSE "intime"
             b == r.lapsed /\ r.begun
             s == [r EXCEPT !.at = "loaded", !.ready = TRUE, !.error = FALSE, !.status = "delivering",
                            !.lapsed = b, !.gen = g]
  <2>1. /\ g \in {"none", "intime", "late"} /\ b \in BOOLEAN
        /\ g = "none" => r.begun /\ r.gen = "none"
    BY <1>1 DEF Task
  <2>2. task' = [task EXCEPT ![i] = s] BY <1>7 DEF Complete
  <2> HIDE DEF g, b
  <2>3. Writes(i, s) /\ task'[i] = s
    <3>1. s \in Task BY <1>1, <2>1, <2>2 DEF Task, Live, Handling, Progress
    <3>2. task' = [task EXCEPT ![i] = s] BY <1>1, <2>1, <2>2
    <3> QED BY <3>1, <3>2, WritesRow
  <2>4. Sending(i)' = Sending(i) BY <1>7, SameParts DEF Complete
  <2>5. outbox' = outbox /\ calls' = calls /\ r.at = "saved" BY <1>7 DEF Complete
  <2>6. Known(i)' BY <1>1, <2>1, <2>3, <2>4, <2>5 DEF Known, Task, Live, Handling
  <2> QED BY <2>3, <2>6
<1>8. CASE Fail(i)
  <2> DEFINE s == [r EXCEPT !.at = "loaded", !.error = TRUE, !.thread = 0, !.kept = TRUE]
             u == [r EXCEPT !.at = "loaded", !.error = TRUE]
  <2>1. 0 \in 0..MaxTasks OBVIOUS
  <2>2. s \in Task /\ u \in Task BY <1>1, <2>1 DEF Task, Live, Handling
  <2>3. (Writes(i, s) /\ task'[i] = s) \/ (Writes(i, u) /\ task'[i] = u) BY <1>8, <2>2, WritesRow DEF Fail
  <2>4. Sending(i)' = Sending(i) BY <1>8, SameParts DEF Fail
  <2>5. outbox' = outbox /\ calls' = calls /\ r.at \in {"loaded", "turn"} /\ r.send = "none" BY <1>8 DEF Fail
  <2>6. ASSUME task'[i] = s PROVE Known(i)'
    BY <1>1, <2>4, <2>5, <2>6 DEF Known, Task, Live, Handling
  <2>7. ASSUME task'[i] = u PROVE Known(i)'
    BY <1>1, <2>4, <2>5, <2>7 DEF Known, Task, Live, Handling
  <2> HIDE DEF s, u
  <2> QED BY <2>3, <2>6, <2>7
<1>9. CASE Finish(i)
  <2>1. PICK st \in {Verdict(i, ok) : ok \in BOOLEAN} \cup {IF r.ready THEN "delivery_failed" ELSE "failed"}
                    \cup {"delivery_blocked" : k \in {k \in Parts : outbox[i][k] = "blocked"}} :
          task' = [task EXCEPT ![i] = [r EXCEPT !.at = "ended", !.status = st]]
    BY <1>9 DEF Finish
  <2> DEFINE s == [r EXCEPT !.at = "ended", !.status = st]
  <2>2. st \in Final /\ (st = "completed" => r.bad = "none") BY <1>1, <2>1 DEF Task, Verdict, Final
  <2>3. Writes(i, s) /\ task'[i] = s
    <3>1. s \in Task BY <1>1, <2>1, <2>2 DEF Task, Live
    <3>2. task' = [task EXCEPT ![i] = s] BY <1>1, <2>1, <2>2
    <3> QED BY <3>1, <3>2, WritesRow
  <2>4. Sending(i)' = Sending(i) BY <1>9, SameParts DEF Finish
  <2>5. outbox' = outbox /\ calls' = calls /\ r.at \in {"open", "loaded"} /\ r.send = "none"
    BY <1>9 DEF Finish
  <2>6. st = "completed" => \A k \in Parts : outbox[i][k] \in {"none", "sent"}
    BY <2>2, <2>5 DEF Known, Sending, Live, Handling
  <2> HIDE <2>1
  <2>7. Known(i)' BY <1>1, <2>3, <2>4, <2>5, <2>6 DEF Known, Task, Live, Handling
  <2> QED BY <2>3, <2>7
<1>10. ASSUME NEW at \in {"leaving", "done"}, task' = [task EXCEPT ![i] = Left(i, at)],
              r.at \in {"made", "ended", "leaving"}, outbox' = outbox, calls' = calls
       PROVE  (\E w : Writes(i, w)) /\ Known(i)'
  <2>1. Writes(i, Left(i, at)) /\ task'[i] = Left(i, at) BY <1>1, <1>10, LeftTask, WritesRow
  <2>2. /\ task'[i].at = at /\ task'[i].status = r.status /\ task'[i].late = r.late
        /\ task'[i].send = "none" /\ ~task'[i].ready /\ ~task'[i].begun
    BY <1>1, <2>1, LeftTask
  <2>3. Sending(i)' = Sending(i) BY <1>10, SameParts
  <2>4. outbox' = outbox /\ calls' = calls /\ r.at \in {"made", "ended", "leaving"} BY <1>10
  <2> HIDE <2>1
  <2>5. Known(i)' BY <2>2, <2>3, <2>4 DEF Known, Live, Handling
  <2> QED BY <2>1, <2>5
<1>18. CASE Exit(i) \/ Release(i) \/ SubmitFails(i)
  BY <1>10, <1>18 DEF Exit, Release, SubmitFails
<1>19. CASE Submit(i)
  <2> DEFINE s == [r EXCEPT !.at = "queued"]
  <2>1. Writes(i, s) /\ task'[i] = s
    <3>1. s \in Task BY <1>1 DEF Task, Live
    <3>2. task' = [task EXCEPT ![i] = s] BY <1>1, <1>19 DEF Submit
    <3> QED BY <3>1, <3>2, WritesRow
  <2>2. Sending(i)' = Sending(i) BY <1>19, SameParts DEF Submit
  <2>3. outbox' = outbox /\ calls' = calls /\ r.at = "made" BY <1>19 DEF Submit
  <2>4. Known(i)' BY <1>1, <2>1, <2>2, <2>3 DEF Known, Task, Live, Handling
  <2> QED BY <2>1, <2>4
<1>11. CASE Check(i)
  <2> DEFINE b == r.begun \/ (r.send = "reserved" /\ r.ready)
             e == IF r.send = "reserved" THEN "admitted" ELSE "entered"
             s == [r EXCEPT !.begun = b, !.send = e]
             u == [r EXCEPT !.begun = b, !.send = "none", !.bad = "blocked"]
  <2>1. /\ b \in BOOLEAN /\ e \in {"admitted", "entered"}
        /\ b => r.begun \/ r.ready
    OBVIOUS
  <2>2. \/ task' = [task EXCEPT ![i] = s] /\ outbox' = outbox /\ Allowed(i)
        \/ /\ task' = [task EXCEPT ![i] = u]
           /\ outbox' = [outbox EXCEPT ![i] = [k \in Parts |-> IF k \in Sending(i) THEN "blocked" ELSE @[k]]]
    BY <1>11 DEF Check
  <2>3. calls' = calls /\ r.send \in {"reserved", "admitted"} BY <1>11 DEF Check
  <2> HIDE DEF b, e
  <2>4. s \in Task /\ u \in Task
    <3>1. s \in Task BY <1>1, <2>1 DEF Task
    <3>2. u \in Task BY <1>1, <2>1 DEF Task
    <3> QED BY <3>1, <3>2
  <2>5. CASE task' = [task EXCEPT ![i] = s] /\ outbox' = outbox /\ Allowed(i)
    <3>1. Writes(i, s) /\ task'[i] = s BY <2>4, <2>5, WritesRow
    <3>2. Sending(i)' = Sending(i) BY <2>3, <2>5, SameParts
    <3>3. ~r.cancel BY <2>5 DEF Allowed
    <3>4. Known(i)' BY <1>1, <2>1, <2>3, <2>5, <3>1, <3>2, <3>3 DEF Known, Task, Live, Handling
    <3> QED BY <2>4, <3>1, <3>4
  <2>6. CASE /\ task' = [task EXCEPT ![i] = u]
             /\ outbox' = [outbox EXCEPT ![i] = [k \in Parts |-> IF k \in Sending(i) THEN "blocked" ELSE @[k]]]
    <3>1. Writes(i, u) /\ task'[i] = u BY <2>4, <2>6, WritesRow
    <3>2. \A k \in Parts : outbox'[i][k] = IF outbox[i][k] = "sending" THEN "blocked" ELSE outbox[i][k]
      BY <2>6 DEF Typed, Sending
    <3>3. Sending(i)' = {} BY <3>2 DEF Sending
    <3>4. Known(i)' BY <1>1, <2>1, <2>3, <3>1, <3>2, <3>3 DEF Known, Task, Live, Handling
    <3> QED BY <2>4, <3>1, <3>4
  <2> QED BY <2>2, <2>5, <2>6
<1>12. CASE Call(i)
  <2> DEFINE n == IF r.cancel THEN r.late + 1 ELSE r.late
             s == [r EXCEPT !.send = "called", !.late = n]
  <2>1. n \in Nat /\ (n = r.late \/ (r.cancel /\ n = r.late + 1)) BY <1>1 DEF Task
  <2>2. task' = [task EXCEPT ![i] = s] BY <1>12 DEF Call
  <2> HIDE DEF n
  <2>3. Writes(i, s) /\ task'[i] = s
    <3>1. s \in Task BY <1>1, <2>1, <2>2 DEF Task
    <3>2. task' = [task EXCEPT ![i] = s] BY <1>1, <2>1, <2>2
    <3> QED BY <3>1, <3>2, WritesRow
  <2>4. /\ \A k \in Parts : calls'[i][k] = IF outbox[i][k] = "sending" THEN calls[i][k] + 1 ELSE calls[i][k]
        /\ outbox' = outbox /\ r.send = "entered"
    BY <1>12 DEF Call, Typed, Sending
  <2>5. Sending(i)' = Sending(i) BY <2>4 DEF Sending
  <2>6. Known(i)' BY <1>1, <2>1, <2>3, <2>4, <2>5 DEF Known, Task, Live, Handling
  <2> QED BY <2>3, <2>6
<1>13. ASSUME NEW st \in {"sent", "failed", "uncertain"}, Settle(i, st)
       PROVE  (\E w : Writes(i, w)) /\ Known(i)'
  <2> DEFINE b == IF st = "sent" THEN r.bad ELSE st
             s == [r EXCEPT !.send = "none", !.bad = b]
  <2>1. b \in {"none", "failed", "uncertain", "blocked"} /\ (b = "none" => st = "sent" /\ r.bad = "none")
    BY <1>1 DEF Task
  <2>2. task' = [task EXCEPT ![i] = s] BY <1>13 DEF Settle, Record
  <2> HIDE DEF b
  <2>3. Writes(i, s) /\ task'[i] = s
    <3>1. s \in Task BY <1>1, <2>1, <2>2 DEF Task
    <3>2. task' = [task EXCEPT ![i] = s] BY <1>1, <2>1, <2>2
    <3> QED BY <3>1, <3>2, WritesRow
  <2>4. /\ \A k \in Parts : outbox'[i][k] = IF outbox[i][k] = "sending" THEN st ELSE outbox[i][k]
        /\ calls' = calls /\ r.send # "none"
    BY <1>13 DEF Settle, Record, Typed, Sending
  <2>5. Sending(i)' = {} BY <2>4 DEF Sending
  <2>6. Known(i)' BY <1>1, <2>1, <2>3, <2>4, <2>5 DEF Known, Task, Live, Handling
  <2> QED BY <2>3, <2>6
<1>14. CASE Detach(i)
  <2> DEFINE s == [r EXCEPT !.background = TRUE, !.status = "background"]
  <2>1. Writes(i, s) /\ task'[i] = s
    <3>1. s \in Task BY <1>1, <1>14 DEF Task, Progress
    <3>2. task' = [task EXCEPT ![i] = s] BY <1>1, <1>14 DEF Detach
    <3> QED BY <3>1, <3>2, WritesRow
  <2>2. Sending(i)' = Sending(i) BY <1>14, SameParts DEF Detach
  <2>3. outbox' = outbox /\ calls' = calls /\ r.at \in Live BY <1>14 DEF Detach
  <2>4. Known(i)' BY <1>1, <2>1, <2>2, <2>3 DEF Known, Task, Live, Handling
  <2> QED BY <2>1, <2>4
<1>15. ASSUME NEW s \in {[r EXCEPT !.cancel = TRUE], [r EXCEPT !.over = TRUE], [r EXCEPT !.lapsed = TRUE]},
              task' = [task EXCEPT ![i] = s], outbox' = outbox, calls' = calls
       PROVE  (\E w : Writes(i, w)) /\ Known(i)'
  <2>1. Writes(i, s) /\ task'[i] = s
    <3>1. /\ [r EXCEPT !.cancel = TRUE] \in Task
          /\ [r EXCEPT !.over = TRUE] \in Task
          /\ [r EXCEPT !.lapsed = TRUE] \in Task
      BY <1>1 DEF Task
    <3> QED BY <1>15, <3>1, WritesRow
  <2>2. Sending(i)' = Sending(i) BY <1>15, SameParts
  <2>3. Known(i)' BY <1>1, <1>15, <2>1, <2>2 DEF Known, Task
  <2> QED BY <2>1, <2>3
<1>16. CASE Cancel(i) \/ Expire(i) \/ Lapse(i)
  BY <1>15, <1>16 DEF Cancel, Expire, Lapse
<1>17. ASSUME NEW k \in Parts, Reserve(i, k) PROVE (\E w : Writes(i, w)) /\ Known(i)'
  <2> DEFINE s == [r EXCEPT !.send = "reserved"]
  <2>1. Writes(i, s) /\ task'[i] = s
    <3>1. s \in Task BY <1>1, <1>17 DEF Task
    <3>2. task' = [task EXCEPT ![i] = s] BY <1>1, <1>17 DEF Reserve
    <3> QED BY <3>1, <3>2, WritesRow
  <2>2. /\ \A j \in Parts : outbox'[i][j] = IF j = k THEN "sending" ELSE outbox[i][j]
        /\ calls' = calls /\ r.send = "none" /\ r.at \in Handling \ {"saved"} /\ outbox[i][k] = "none"
    BY <1>17 DEF Reserve, Typed
  <2>3. Sending(i)' = {k} BY <2>2 DEF Sending, Known
  <2>4. Known(i)' BY <1>1, <2>1, <2>2, <2>3 DEF Known, Task, Live, Handling
  <2> QED BY <2>1, <2>4
<1> QED
  BY <1>2, <1>3, <1>4, <1>5, <1>6, <1>7, <1>8, <1>9, <1>11, <1>12, <1>13, <1>14, <1>16, <1>17, <1>18, <1>19
  DEF Advances, Step, HandOver

LEMMA AdvanceTyped ==
  ASSUME Typed, NEW i \in Ids, Advances(i)
  PROVE  /\ outbox' \in [Ids -> [Parts -> Marks]] /\ calls' \in [Ids -> [Parts -> Nat]]
         /\ \A j \in Ids \ {i} : outbox'[j] = outbox[j] /\ calls'[j] = calls[j]
<1> USE DEF Typed, Marks
<1>1. CASE Check(i)
  <2>1. /\ calls' = calls
        /\ \/ outbox' = outbox
           \/ outbox' = [outbox EXCEPT ![i] = [k \in Parts |-> IF k \in Sending(i) THEN "blocked" ELSE @[k]]]
    BY <1>1 DEF Check
  <2> QED BY <2>1
<1>2. CASE Call(i)
  BY <1>2 DEF Call
<1>3. ASSUME NEW st \in {"sent", "failed", "uncertain"}, Settle(i, st)
      PROVE  /\ outbox' \in [Ids -> [Parts -> Marks]] /\ calls' = calls
             /\ \A j \in Ids \ {i} : outbox'[j] = outbox[j]
  BY <1>3 DEF Settle, Record
<1>4. ASSUME NEW k \in Parts, Reserve(i, k)
      PROVE  /\ outbox' \in [Ids -> [Parts -> Marks]] /\ calls' = calls
             /\ \A j \in Ids \ {i} : outbox'[j] = outbox[j]
  BY <1>4 DEF Reserve
<1>5. CASE Begin(i) \/ Load(i) \/ Bind(i) \/ Save(i) \/ Complete(i) \/ Fail(i) \/ Finish(i)
           \/ Network(i) \/ Detach(i) \/ Cancel(i) \/ Expire(i) \/ Lapse(i)
  BY <1>5 DEF Begin, Load, Bind, Save, Complete, Fail, Finish, Network, Detach, Cancel, Expire, Lapse
<1>6. CASE Exit(i) \/ Release(i) \/ Submit(i) \/ SubmitFails(i)
  BY <1>6 DEF Exit, Release, Submit, SubmitFails
<1> QED BY <1>1, <1>2, <1>3, <1>4, <1>5, <1>6 DEF Advances, Step, HandOver

LEMMA ChatsTyped ==
  ASSUME Typed, NEW i \in Ids, Advances(i)
  PROVE  /\ head' \in [Chats -> 0..MaxTasks] /\ waiting' \in [Chats -> 0..MaxTasks]
         /\ snapshot' \in [Chats -> [thread : 0..MaxTasks, by : 0..MaxTasks]]
         /\ free' \in Nat /\ UNCHANGED <<door, leaked, closed, pool>>
         /\ \A c \in Chats : waiting'[c] \in {0, waiting[c]}
<1> USE DEF Typed, Untouched, procVars
<1>1. /\ task[i].chat \in Chats /\ task[i].thread \in 0..MaxTasks
      /\ i \in 0..MaxTasks /\ 0 \in 0..MaxTasks
  <2>1. task[i] \in Task OBVIOUS
  <2> QED BY <2>1 DEF Task, Ids
<1>2. CASE Load(i)
  BY <1>1, <1>2 DEF Load
<1>3. ASSUME NEW t \in 0..MaxTasks, Write(i, t)
      PROVE  snapshot' \in [Chats -> [thread : 0..MaxTasks, by : 0..MaxTasks]]
  BY <1>1, <1>3 DEF Write
<1>4. CASE Save(i)
  BY <1>1, <1>3, <1>4 DEF Save
<1>5. CASE Fail(i)
  BY <1>1, <1>3, <1>5 DEF Fail
<1>6. CASE Begin(i) \/ Bind(i) \/ Complete(i) \/ Finish(i) \/ Network(i) \/ Cancel(i) \/ Expire(i) \/ Lapse(i)
  BY <1>6 DEF Begin, Bind, Complete, Finish, Network, Cancel, Expire, Lapse
<1>7. CASE Exit(i) \/ Release(i) \/ Submit(i) \/ SubmitFails(i) \/ Detach(i)
  BY <1>1, <1>7 DEF Exit, Release, Submit, SubmitFails, Detach
<1>8. CASE \/ Check(i) \/ Call(i) \/ \E st \in {"sent", "failed", "uncertain"} : Settle(i, st)
           \/ \E k \in Parts : Reserve(i, k)
  BY <1>8 DEF Check, Call, Settle, Reserve
<1> QED BY <1>2, <1>4, <1>5, <1>6, <1>7, <1>8 DEF Advances, Step, HandOver

-----------------------------------------------------------------------------
(* The tasks of a chat.                                                    *)

\* The rows in use are the first ones.
Created == \E n \in 0..MaxTasks : \A i \in Ids : task[i].at # "absent" <=> i <= n

\* A live task that is not left to itself is the one its chat's worker waits
\* for, and that is the newest of the chat.
Held == /\ \A i \in Active : task[i].background \/ waiting[task[i].chat] = i
        /\ \A c \in Chats : waiting[c] # 0 => waiting[c] \in Of(c) /\ \A i \in Of(c) : i <= waiting[c]

\* One task is detached at a time; it has a turn, unlike a task before Load.
Lone == /\ \A i, j \in Detached : i = j
        /\ \A i \in Detached : task[i].bound
        /\ \A i \in Ids : task[i].at \in {"made", "queued", "open"} => ~task[i].bound /\ task[i].thread = 0

\* The snapshot is that of the head or an earlier task; a task that is not left
\* to itself and was loaded is the head.
Heads == /\ \A c \in Chats : head[c] # 0 => head[c] \in Of(c)
         /\ \A c \in Chats : snapshot[c].by <= head[c]
         /\ \A i \in Active : task[i].at \in {"loaded", "turn", "saved"} \/ task[i].bound
              => task[i].background \/ head[task[i].chat] = i

\* A thread is that of a task of the same chat that had a turn.
Had(c) == {t \in Of(c) : task[t].bound} \cup {0}
Owned == /\ \A c \in Chats : snapshot[c].thread \in Had(c)
         /\ \A i \in Ids : task[i].thread \in Had(task[i].chat)

\* The threads a task works on or may start are not those of a detached task,
\* and the snapshot offers them to nobody once another task is the head; until
\* then the next task will branch.
Reach(i) == {i, task[i].thread} \ {0}
Apart == \A i \in Detached :
    /\ head[task[i].chat] # i => snapshot[task[i].chat].thread \notin Reach(i)
    /\ \A j \in Active \ {i} : task[j].chat = task[i].chat =>
         /\ task[j].at \in {"made", "queued", "open"} /\ head[task[i].chat] = i => task[j].fork
         /\ Reach(i) \cap Reach(j) = {}

Family == Created /\ Held /\ Lone /\ Heads /\ Owned /\ Apart

\* A worker that is still on its way into dispatch() waits for no task.
Waits == \A c \in Chats : door[c] # "idle" => waiting[c] = 0

\* Steps that leave the threads and the place of a task alone.
Keeps(i) == /\ task'[i].chat = task[i].chat /\ task'[i].thread = task[i].thread
            /\ task'[i].bound = task[i].bound /\ task'[i].background = task[i].background
            /\ task'[i].fork = task[i].fork
            /\ task'[i].at = "absent" <=> task[i].at = "absent"
            /\ task'[i].at \in Live <=> task[i].at \in Live
            /\ task'[i].at = "leaving" <=> task[i].at = "leaving"
            /\ task'[i].at \in {"made", "queued", "open"} => task[i].at \in {"made", "queued", "open"}
            /\ task'[i].at \in {"loaded", "turn", "saved"} => task[i].at \in {"loaded", "turn", "saved"}

LEMMA SameSets ==
  ASSUME \A i \in Ids : Keeps(i)
  PROVE  /\ Active' = Active /\ Detached' = Detached /\ Holding' = Holding
         /\ \A c \in Chats : Of(c)' = Of(c)
         /\ \A i \in Ids : Reach(i)' = Reach(i)
  BY DEF Keeps, Active, Detached, Holding, Of, Reach

LEMMA KeptFamily ==
  ASSUME Typed, Family, \A i \in Ids : Keeps(i), UNCHANGED <<head, snapshot, waiting>>
  PROVE  Family'
<1>1. /\ Active' = Active /\ Detached' = Detached /\ \A c \in Chats : Of(c)' = Of(c)
      /\ \A i \in Ids : Reach(i)' = Reach(i)
  BY SameSets
<1>2. Active \subseteq Ids /\ Detached \subseteq Ids /\ \A c \in Chats : Of(c) \subseteq Ids
  BY DEF Active, Detached, Of
<1>3. \A i \in Ids : task[i].chat \in Chats
  <2>1. \A i \in Ids : task[i] \in Task BY DEF Typed
  <2> QED BY <2>1 DEF Task
<1> USE DEF Family
<1>4. Created' BY DEF Created, Keeps
<1>5. Held' BY <1>1, <1>2, <1>3 DEF Held, Keeps
<1>6. Lone' BY <1>1, <1>2 DEF Lone, Keeps
<1>7. Heads' BY <1>1, <1>2 DEF Heads, Keeps
<1>8. Owned'
  <2>1. \A c \in Chats : Had(c) \subseteq Had(c)' BY <1>1, <1>2 DEF Had, Keeps
  <2> QED BY <1>3, <2>1 DEF Owned, Keeps
<1>9. Apart' BY <1>1, <1>2 DEF Apart, Keeps
<1> QED BY <1>4, <1>5, <1>6, <1>7, <1>8, <1>9

LEMMA KeepingSteps ==
  ASSUME Typed, NEW i \in Ids,
         \/ Submit(i) \/ Begin(i) \/ Network(i) \/ Complete(i) \/ Finish(i) \/ Check(i) \/ Call(i)
         \/ \E st \in {"sent", "failed", "uncertain"} : Settle(i, st)
         \/ Cancel(i) \/ Expire(i) \/ Lapse(i) \/ \E k \in Parts : Reserve(i, k)
  PROVE  (\A j \in Ids : Keeps(j)) /\ UNCHANGED <<head, snapshot, waiting, free>>
<1>1. \A j \in Ids : task[j] \in Task BY DEF Typed
<1> USE DEF Untouched, procVars
<1>13. CASE Submit(i) BY <1>1, <1>13 DEF Submit, Keeps, Task, Typed, Live, Handling
<1>2. CASE Begin(i)
  <2>1. task[i].at = "queued" /\ UNCHANGED <<head, snapshot, waiting, free>> BY <1>2 DEF Begin
  <2>2. ASSUME NEW st \in {"interrupted", "skipped"},
               task' = [task EXCEPT ![i] = [task[i] EXCEPT !.at = "ended", !.status = st]]
        PROVE  \A j \in Ids : Keeps(j)
    BY <1>1, <2>1, <2>2 DEF Keeps, Task, Typed, Live, Handling
  <2>3. ASSUME task' = [task EXCEPT ![i] = [task[i] EXCEPT !.at = "open"]]
        PROVE  \A j \in Ids : Keeps(j)
    BY <1>1, <2>1, <2>3 DEF Keeps, Task, Typed, Live, Handling
  <2> QED BY <1>2, <2>1, <2>2, <2>3 DEF Begin
<1>3. CASE Network(i) BY <1>1, <1>3 DEF Network, Keeps, Task, Typed
<1>4. CASE Complete(i) BY <1>1, <1>4 DEF Complete, Keeps, Task, Typed, Live, Handling
<1>5. CASE Finish(i)
  <2>1. PICK st : task' = [task EXCEPT ![i] = [task[i] EXCEPT !.at = "ended", !.status = st]]
    BY <1>5 DEF Finish
  <2>2. task[i].at \in {"open", "loaded"} /\ UNCHANGED <<head, snapshot, waiting, free>>
    BY <1>5 DEF Finish
  <2> QED BY <1>1, <2>1, <2>2 DEF Keeps, Task, Typed, Live, Handling
<1>6. CASE Check(i)
  <2>1. UNCHANGED <<head, snapshot, waiting, free>> BY <1>6 DEF Check
  <2>2. ASSUME NEW b, NEW e, task' = [task EXCEPT ![i] = [task[i] EXCEPT !.begun = b, !.send = e]]
        PROVE  \A j \in Ids : Keeps(j)
    BY <1>1, <2>2 DEF Keeps, Task, Typed
  <2>3. ASSUME NEW b, task' = [task EXCEPT ![i] = [task[i] EXCEPT !.begun = b, !.send = "none", !.bad = "blocked"]]
        PROVE  \A j \in Ids : Keeps(j)
    BY <1>1, <2>3 DEF Keeps, Task, Typed
  <2> QED BY <1>6, <2>1, <2>2, <2>3 DEF Check
<1>7. CASE Call(i) BY <1>1, <1>7 DEF Call, Keeps, Task, Typed
<1>8. ASSUME NEW st \in {"sent", "failed", "uncertain"}, Settle(i, st)
      PROVE  (\A j \in Ids : Keeps(j)) /\ UNCHANGED <<head, snapshot, waiting, free>>
  BY <1>1, <1>8 DEF Settle, Record, Keeps, Task, Typed
<1>9. CASE Cancel(i) BY <1>1, <1>9 DEF Cancel, Keeps, Task, Typed
<1>10. CASE Expire(i) BY <1>1, <1>10 DEF Expire, Keeps, Task, Typed
<1>11. CASE Lapse(i) BY <1>1, <1>11 DEF Lapse, Keeps, Task, Typed
<1>12. ASSUME NEW k \in Parts, Reserve(i, k)
       PROVE  (\A j \in Ids : Keeps(j)) /\ UNCHANGED <<head, snapshot, waiting, free>>
  BY <1>1, <1>12 DEF Reserve, Keeps, Task, Typed
<1> QED BY <1>13, <1>2, <1>3, <1>4, <1>5, <1>6, <1>7, <1>8, <1>9, <1>10, <1>11, <1>12

\* A task works on a thread: a turn begins, ends or fails, and the head may
\* publish what it works on.
Works(i) ==
    /\ \A j \in Ids \ {i} : task'[j] = task[j]
    /\ task'[i].chat = task[i].chat /\ task'[i].background = task[i].background
    /\ task[i].at \in {"loaded", "turn", "saved"} /\ task'[i].at \in {"loaded", "turn", "saved"}
    /\ task'[i].thread \in Reach(i) \cup {0}
    /\ task[i].bound => task'[i].bound
    /\ task'[i].thread = i => task'[i].bound \/ task[i].thread = i
    /\ UNCHANGED <<head, waiting>>
    /\ \/ UNCHANGED snapshot
       \/ /\ head[task[i].chat] = i
          /\ \E t \in {0, task[i].thread} :
               snapshot' = [snapshot EXCEPT ![task[i].chat] = [thread |-> t, by |-> i]]

LEMMA WorkFamily ==
  ASSUME Typed, Family, NEW i \in Ids, Works(i)
  PROVE  Family'
<1>1. /\ Active' = Active /\ Detached' = Detached /\ \A c \in Chats : Of(c)' = Of(c)
      /\ i \in Active
  BY DEF Works, Active, Detached, Of, Live, Handling
<1>2. /\ Active \subseteq Ids /\ Detached \subseteq Active /\ \A c \in Chats : Of(c) \subseteq Ids
      /\ i \in Nat
  BY DEF Active, Detached, Of, Ids
<1>3. /\ \A j \in Ids : task[j].chat \in Chats /\ task'[j].chat = task[j].chat
      /\ \A j \in Ids : task[j].thread \in 0..MaxTasks
  <2>1. \A j \in Ids : task[j] \in Task BY DEF Typed
  <2> QED BY <2>1 DEF Task, Works
<1>4. \A j \in Ids : Reach(j)' \subseteq Reach(j) BY DEF Reach, Works
<1>5. /\ \A c \in Chats : snapshot'[c] = snapshot[c] \/ /\ c = task[i].chat /\ head[c] = i
                                                        /\ snapshot'[c].thread \in {0, task[i].thread}
                                                        /\ snapshot'[c].by = i
      /\ \A c \in Chats : snapshot[c].by <= head[c] /\ head'[c] = head[c] /\ head[c] \in Nat
  BY <1>3 DEF Works, Typed, Family, Heads
<1> USE DEF Family
<1>6. Created'
  <2>1. \A j \in Ids : task'[j].at # "absent" <=> task[j].at # "absent" BY DEF Works
  <2> QED BY <2>1 DEF Created
<1>7. Held' BY <1>1, <1>2, <1>3 DEF Held, Works
<1>8. Lone' BY <1>1, <1>2 DEF Lone, Works
<1>9. Heads'
  <2>1. \A c \in Chats : head'[c] # 0 => head'[c] \in Of(c)' BY <1>1 DEF Heads, Works
  <2>2. \A c \in Chats : snapshot'[c].by <= head'[c] BY <1>2, <1>5
  <2>3. \A j \in Active : task'[j].at \in {"loaded", "turn", "saved"} \/ task'[j].bound
          => task'[j].background \/ head[task[j].chat] = j
    BY <1>2 DEF Heads, Works
  <2> QED BY <1>1, <1>2, <1>3, <2>1, <2>2, <2>3 DEF Heads, Works
<1>10. \A c \in Chats : Had(c) \subseteq Had(c)'
  BY <1>1, <1>2 DEF Had, Works
<1>11. i \in Of(task[i].chat) BY <1>1 DEF Of, Active, Live, Handling
<1>12. Owned'
  <2>1. task'[i].thread \in Had(task[i].chat)'
    <3>1. CASE task'[i].thread = i /\ task'[i].bound BY <1>1, <1>3, <1>11, <3>1 DEF Had
    <3>2. CASE task'[i].thread \in {0, task[i].thread}
      <4>1. {0, task[i].thread} \subseteq Had(task[i].chat) BY DEF Had, Owned
      <4> QED BY <1>3, <1>10, <3>2, <4>1
    <3> QED BY <3>1, <3>2 DEF Works, Reach
  <2>2. \A c \in Chats : snapshot'[c].thread \in Had(c)'
    <3>1. ASSUME NEW c \in Chats PROVE snapshot'[c].thread \in Had(c)
      BY <1>3, <1>5 DEF Had, Owned
    <3> QED BY <1>10, <3>1
  <2>3. \A j \in Ids : task'[j].thread \in Had(task[j].chat)'
    <3>1. \A j \in Ids \ {i} : task'[j].thread \in Had(task[j].chat) BY DEF Owned, Works
    <3> QED BY <1>3, <1>10, <2>1, <3>1
  <2> QED BY <1>3, <2>2, <2>3 DEF Owned
<1>13. Apart'
  <2> SUFFICES ASSUME NEW d \in Detached
               PROVE  /\ head'[task'[d].chat] # d => snapshot'[task'[d].chat].thread \notin Reach(d)'
                      /\ \A j \in Active \ {d} : task'[j].chat = task'[d].chat =>
                           /\ task'[j].at \in {"made", "queued", "open"} /\ head'[task'[d].chat] = d => task'[j].fork
                           /\ Reach(d)' \cap Reach(j)' = {}
    BY <1>1 DEF Apart
  <2>1. ASSUME head[task[d].chat] # d PROVE snapshot'[task[d].chat].thread \notin Reach(d)'
    <3>1. snapshot[task[d].chat].thread \notin Reach(d) BY <2>1 DEF Apart
    <3>2. CASE snapshot'[task[d].chat] = snapshot[task[d].chat] BY <1>2, <1>4, <3>1, <3>2
    <3>3. CASE snapshot'[task[d].chat] # snapshot[task[d].chat]
      <4>1. /\ task[d].chat = task[i].chat /\ head[task[d].chat] = i
            /\ snapshot'[task[d].chat].thread \in {0, task[i].thread}
        BY <1>2, <1>3, <1>5, <3>3
      <4>2. Reach(d) \cap Reach(i) = {} BY <1>1, <2>1, <4>1 DEF Apart
      <4>3. 0 \notin Reach(d) /\ task[i].thread \in Reach(i) \cup {0} BY DEF Reach
      <4> QED BY <1>2, <1>4, <4>1, <4>2, <4>3
    <3> QED BY <3>2, <3>3
  <2>2. ASSUME NEW j \in Active \ {d}, task[j].chat = task[d].chat
        PROVE  /\ task'[j].at \in {"made", "queued", "open"} /\ head[task[d].chat] = d => task'[j].fork
               /\ Reach(d)' \cap Reach(j)' = {}
    <3>1. /\ task[j].at \in {"made", "queued", "open"} /\ head[task[d].chat] = d => task[j].fork
          /\ Reach(d) \cap Reach(j) = {}
      BY <2>2 DEF Apart
    <3> QED BY <1>2, <1>4, <3>1 DEF Works
  <2>3. task'[d].chat = task[d].chat /\ head' = head /\ d \in Ids BY <1>2, <1>3 DEF Works
  <2>4. \A j \in Active : task'[j].chat = task[j].chat BY <1>2, <1>3
  <2> HIDE <1>3
  <2> QED BY <2>1, <2>2, <2>3, <2>4
<1> QED BY <1>6, <1>7, <1>8, <1>9, <1>12, <1>13

LEMMA WorkingSteps ==
  ASSUME Typed, NEW i \in Ids, Known(i), Bind(i) \/ Save(i) \/ Fail(i)
  PROVE  Works(i) /\ free' = free /\ Holding' = Holding
<1> SUFFICES Works(i) /\ free' = free BY DEF Works, Holding, Live, Handling
<1>1. task[i] \in Task BY DEF Typed
<1> USE DEF Untouched, procVars
<1>2. CASE Bind(i)
  <2>1. PICK t \in {i} \cup ({task[i].thread} \ {0}) : task' = [task EXCEPT ![i] =
            [task[i] EXCEPT !.at = "turn", !.bound = TRUE, !.ready = FALSE, !.thread = t]]
    BY <1>2 DEF Bind
  <2>2. task[i].at = "loaded" /\ UNCHANGED <<head, snapshot, waiting, free>> BY <1>2 DEF Bind
  <2>3. t \in Reach(i) BY DEF Reach, Ids
  <2> QED BY <1>1, <2>1, <2>2, <2>3 DEF Works, Task, Typed
<1>3. ASSUME NEW t \in {0, task[i].thread}, Write(i, t)
      PROVE  \/ UNCHANGED snapshot
             \/ /\ head[task[i].chat] = i
                /\ \E u \in {0, task[i].thread} :
                     snapshot' = [snapshot EXCEPT ![task[i].chat] = [thread |-> u, by |-> i]]
  BY <1>3 DEF Write
<1>4. task[i].thread \in Reach(i) \cup {0} BY DEF Reach
<1>5. CASE Save(i)
  <2>1. /\ task' = [task EXCEPT ![i] = [task[i] EXCEPT !.at = "saved", !.kept = TRUE]]
        /\ task[i].at = "turn" /\ UNCHANGED <<head, waiting, free>>
    BY <1>5 DEF Save
  <2>2. /\ \A j \in Ids \ {i} : task'[j] = task[j]
        /\ task'[i].chat = task[i].chat /\ task'[i].background = task[i].background
        /\ task'[i].at = "saved" /\ task'[i].thread = task[i].thread /\ task'[i].bound = task[i].bound
    BY <1>1, <2>1 DEF Task, Typed
  <2>3. PICK t \in {0, task[i].thread} : Write(i, t) BY <1>5 DEF Save
  <2> QED BY <1>3, <1>4, <2>1, <2>2, <2>3 DEF Works
<1>6. CASE Fail(i)
  <2>1. /\ \/ /\ task' = [task EXCEPT ![i] = [task[i] EXCEPT !.at = "loaded", !.error = TRUE, !.thread = 0, !.kept = TRUE]]
              /\ Write(i, 0)
           \/ task' = [task EXCEPT ![i] = [task[i] EXCEPT !.at = "loaded", !.error = TRUE]] /\ UNCHANGED snapshot
        /\ task[i].at \in {"loaded", "turn"} /\ UNCHANGED <<head, waiting, free>>
    BY <1>6 DEF Fail
  <2> DEFINE Row == /\ \A j \in Ids \ {i} : task'[j] = task[j]
                    /\ task'[i].chat = task[i].chat /\ task'[i].background = task[i].background
                    /\ task'[i].at = "loaded" /\ task'[i].thread \in {0, task[i].thread}
                    /\ task'[i].bound = task[i].bound
  <2>2. ASSUME task' = [task EXCEPT ![i] = [task[i] EXCEPT !.at = "loaded", !.error = TRUE, !.thread = 0, !.kept = TRUE]]
        PROVE  Row
    BY <1>1, <2>2 DEF Task, Typed
  <2>3. ASSUME task' = [task EXCEPT ![i] = [task[i] EXCEPT !.at = "loaded", !.error = TRUE]]
        PROVE  Row
    BY <1>1, <2>3 DEF Task, Typed
  <2>4. Row BY <2>1, <2>2, <2>3
  <2>5. UNCHANGED snapshot \/ Write(i, 0) BY <2>1
  <2>6. /\ task[i].at \in {"loaded", "turn"} /\ UNCHANGED <<head, waiting, free>> BY <2>1
  <2> HIDE <2>1
  <2>7. \/ UNCHANGED snapshot
        \/ /\ head[task[i].chat] = i
           /\ \E u \in {0, task[i].thread} :
                snapshot' = [snapshot EXCEPT ![task[i].chat] = [thread |-> u, by |-> i]]
    BY <1>3, <2>5
  <2>8. task'[i].thread \in Reach(i) \cup {0} /\ (task'[i].thread = i => task[i].thread = i)
    BY <1>4, <2>4 DEF Ids
  <2> QED BY <2>4, <2>6, <2>7, <2>8 DEF Works
<1> QED BY <1>2, <1>5, <1>6

LEMMA ChatTyped == ASSUME Typed, NEW i \in Ids PROVE task[i] \in Task /\ task[i].chat \in Chats /\ i \in Nat
<1>1. task[i] \in Task BY DEF Typed
<1> QED BY <1>1 DEF Task, Ids

\* A task before Load is not left to itself: the worker waits for it.
LEMMA OpenHeld ==
  ASSUME Typed, Family, NEW i \in Ids, task[i].at \in {"made", "queued", "open"}
  PROVE  /\ i \in Active /\ i \notin Detached /\ ~task[i].background /\ waiting[task[i].chat] = i
         /\ ~task[i].bound /\ task[i].thread = 0
         /\ \A j \in Of(task[i].chat) : j <= i
<1>1. i \in Active BY DEF Active, Live, Handling
<1>2. ~task[i].bound /\ task[i].thread = 0 /\ i \notin Detached BY DEF Family, Lone
<1>3. ~task[i].background BY <1>1, <1>2 DEF Detached
<1>4. waiting[task[i].chat] = i BY <1>1, <1>3 DEF Family, Held
<1> QED BY <1>1, <1>2, <1>3, <1>4, ChatTyped DEF Family, Held, Ids

LEMMA LoadFamily ==
  ASSUME Typed, Family, NEW i \in Ids, Load(i)
  PROVE  Family' /\ Active' = Active /\ Holding' = Holding
<1> DEFINE c == task[i].chat
           t == IF task[i].fork THEN 0 ELSE snapshot[c].thread
<1>1. task[i] \in Task /\ c \in Chats /\ i \in Nat /\ i # 0 BY ChatTyped DEF Ids
<1>2. /\ i \in Active /\ i \notin Detached /\ ~task[i].background /\ waiting[c] = i
      /\ ~task[i].bound /\ task[i].thread = 0 /\ \A j \in Of(c) : j <= i
  BY OpenHeld DEF Load
<1>3. /\ task' = [task EXCEPT ![i] =
            [task[i] EXCEPT !.at = "loaded", !.status = "running", !.fork = FALSE, !.thread = t]]
      /\ head' = [head EXCEPT ![c] = i] /\ waiting' = waiting /\ task[i].at = "open"
      /\ snapshot' = IF task[i].fork THEN [snapshot EXCEPT ![c] = [thread |-> 0, by |-> i]] ELSE snapshot
  BY DEF Load, procVars
<1>4. /\ \A j \in Ids \ {i} : task'[j] = task[j]
      /\ task'[i].at = "loaded" /\ task'[i].chat = c /\ task'[i].thread = t
      /\ ~task'[i].bound /\ ~task'[i].background /\ task'[i].background = task[i].background
  BY <1>1, <1>2, <1>3 DEF Task, Typed
<1>5. /\ Active' = Active /\ Detached' = Detached /\ \A e \in Chats : Of(e)' = Of(e) /\ Had(e)' = Had(e)
      /\ \A j \in Ids \ {i} : Reach(j)' = Reach(j)
      /\ i \in Of(c)
  BY <1>2, <1>3, <1>4 DEF Active, Detached, Of, Had, Reach, Live, Handling
<1>6. Active \subseteq Ids /\ Detached \subseteq Active /\ \A e \in Chats : Of(e) \subseteq Ids
  BY DEF Active, Detached, Of
<1>7. \A j \in Ids : task[j].chat \in Chats /\ j \in Nat BY ChatTyped
<1>8. /\ \A e \in Chats : head'[e] = IF e = c THEN i ELSE head[e]
      /\ \A e \in Chats : head[e] \in Nat /\ snapshot[e].by <= head[e] /\ snapshot[e].by \in Nat
  BY <1>3 DEF Typed, Family, Heads
<1>9. /\ \A e \in Chats : e # c => snapshot'[e] = snapshot[e]
      /\ snapshot'[c].by = IF task[i].fork THEN i ELSE snapshot[c].by
      /\ snapshot'[c].thread = t
  BY <1>1, <1>3 DEF Typed
<1> HIDE DEF c, t
<1> USE DEF Family
<1>10. Created'
  <2>1. \A j \in Ids : task'[j].at # "absent" <=> task[j].at # "absent" BY <1>3, <1>4
  <2> QED BY <2>1 DEF Created
<1>11. Held'
  <2>1. \A j \in Ids : task'[j].background = task[j].background /\ task'[j].chat = task[j].chat
    BY <1>2, <1>4 DEF c
  <2> HIDE <1>4, <1>8, <1>9
  <2> QED BY <1>3, <1>5, <1>6, <2>1 DEF Held
<1>12. Lone'
  <2>1. \A d \in Detached : d # i /\ d \in Ids BY <1>2, <1>6
  <2> QED BY <1>4, <1>5, <2>1 DEF Lone
<1>13. Heads'
  <2>1. head[c] <= i BY <1>1, <1>2, <1>8 DEF Heads
  <2>2. \A e \in Chats : head'[e] # 0 => head'[e] \in Of(e)' BY <1>5, <1>8 DEF Heads
  <2>3. \A e \in Chats : snapshot'[e].by <= head'[e] BY <1>1, <1>8, <1>9, <2>1
  <2>4. ASSUME NEW j \in Active, task'[j].at \in {"loaded", "turn", "saved"} \/ task'[j].bound
        PROVE  task'[j].background \/ head'[task'[j].chat] = j
    <3>1. CASE j = i BY <1>1, <1>4, <1>8, <3>1
    <3>2. CASE j # i
      <4>1. task'[j] = task[j] /\ (task[j].background \/ head[task[j].chat] = j)
        BY <1>4, <1>6, <2>4, <3>2 DEF Heads
      <4>2. task[j].background \/ waiting[task[j].chat] = j BY DEF Held
      <4>3. task[j].chat = c => task[j].background BY <1>2, <3>2, <4>2
      <4> QED BY <1>6, <1>7, <1>8, <4>1, <4>3
    <3> QED BY <3>1, <3>2
  <2> QED BY <1>5, <2>2, <2>3, <2>4 DEF Heads
<1>14. t \in Had(c) BY <1>1 DEF t, Owned, Had
<1>15. Owned'
  <2>1. \A e \in Chats : snapshot'[e].thread \in Had(e)' BY <1>5, <1>9, <1>14 DEF Owned
  <2>2. \A j \in Ids : task'[j].thread \in Had(task[j].chat)'
    <3>1. \A j \in Ids : task'[j].chat = task[j].chat BY <1>4 DEF c
    <3>2. \A j \in Ids : task'[j].thread \in Had(task[j].chat) BY <1>4, <1>14 DEF Owned, c
    <3>3. \A j \in Ids : Had(task[j].chat)' = Had(task[j].chat) BY <1>5, <1>7, <3>1 DEF Had, Of
    <3> QED BY <3>2, <3>3
  <2> QED BY <2>1, <2>2 DEF Owned
<1>16. Apart'
  <2> SUFFICES ASSUME NEW d \in Detached
               PROVE  /\ head'[task'[d].chat] # d => snapshot'[task'[d].chat].thread \notin Reach(d)'
                      /\ \A j \in Active \ {d} : task'[j].chat = task'[d].chat =>
                           /\ task'[j].at \in {"made", "queued", "open"} /\ head'[task'[d].chat] = d => task'[j].fork
                           /\ Reach(d)' \cap Reach(j)' = {}
    BY <1>5 DEF Apart
  <2>1. /\ d # i /\ d \in Ids /\ task'[d] = task[d] /\ Reach(d)' = Reach(d) /\ task[d].chat \in Chats
        /\ 0 \notin Reach(d)
    BY <1>2, <1>4, <1>5, <1>6, <1>7 DEF Reach
  <2>2. CASE task[d].chat = c
    <3>1. t \notin Reach(d)
      <4>1. CASE head[c] = d
        <5>1. task[i].fork BY <1>2, <1>3, <2>1, <2>2, <4>1 DEF Apart, c
        <5> QED BY <2>1, <5>1 DEF t
      <4>2. CASE head[c] # d BY <2>1, <2>2, <4>2 DEF Apart, t
      <4> QED BY <4>1, <4>2
    <3>2. i \notin Reach(d)
      <4>1. Reach(d) \cap Reach(i) = {} BY <1>2, <2>1, <2>2 DEF Apart, c
      <4>2. i \in Reach(i) BY <1>1 DEF Reach
      <4> QED BY <4>1, <4>2
    <3>3. Reach(i)' \subseteq {i, t} BY <1>4 DEF Reach
    <3>4. \A j \in Active \ {d} : task'[j].chat = c => Reach(d) \cap Reach(j)' = {}
      <4>1. ASSUME NEW j \in Active \ {d}, j # i, task'[j].chat = c PROVE Reach(d) \cap Reach(j)' = {}
        <5>1. task[j].chat = c /\ Reach(j)' = Reach(j) BY <1>4, <1>5, <1>6, <4>1
        <5> QED BY <2>2, <5>1 DEF Apart
      <4> QED BY <3>1, <3>2, <3>3, <4>1
    <3>5. head'[c] = i /\ snapshot'[c].thread = t BY <1>1, <1>8, <1>9
    <3> QED BY <2>1, <2>2, <3>1, <3>4, <3>5
  <2>3. CASE task[d].chat # c
    <3>1. head'[task[d].chat] = head[task[d].chat] /\ snapshot'[task[d].chat] = snapshot[task[d].chat]
      BY <1>8, <1>9, <2>1, <2>3
    <3>2. ASSUME NEW j \in Active \ {d}, task'[j].chat = task[d].chat
          PROVE  task'[j] = task[j] /\ Reach(j)' = Reach(j)
      BY <1>4, <1>5, <1>6, <2>3, <3>2
    <3> QED BY <2>1, <3>1, <3>2 DEF Apart
  <2> QED BY <2>2, <2>3
<1>17. Holding' = Holding BY <1>3, <1>4 DEF Holding, Live, Handling
<1> QED BY <1>17, <1>5, <1>10, <1>11, <1>12, <1>13, <1>15, <1>16

LEMMA DetachFamily ==
  ASSUME Typed, Family, NEW i \in Ids, Detach(i)
  PROVE  Family' /\ Active' = Active /\ Holding' = Holding
<1> DEFINE c == task[i].chat
<1>1. task[i] \in Task /\ c \in Chats /\ i \in Nat /\ i # 0 BY ChatTyped DEF Ids
<1>2. /\ task' = [task EXCEPT ![i] = [task[i] EXCEPT !.background = TRUE, !.status = "background"]]
      /\ waiting' = [waiting EXCEPT ![c] = 0] /\ waiting[c] = i
      /\ UNCHANGED <<head, snapshot>> /\ task[i].at \in Live /\ task[i].bound /\ Detached = {}
  BY DEF Detach
<1>3. /\ \A j \in Ids \ {i} : task'[j] = task[j]
      /\ task'[i].background /\ task'[i].at = task[i].at /\ task'[i].chat = c
      /\ task'[i].thread = task[i].thread /\ task'[i].bound = task[i].bound
  BY <1>1, <1>2 DEF Task, Typed
<1>4. /\ \A j \in Ids : /\ task'[j].at = task[j].at /\ task'[j].chat = task[j].chat
                        /\ task'[j].thread = task[j].thread /\ task'[j].bound = task[j].bound
      /\ i \in Active /\ Active \subseteq Ids
  BY <1>2, <1>3 DEF Active
<1>5. /\ Active' = Active /\ \A e \in Chats : Of(e)' = Of(e) /\ Had(e)' = Had(e) /\ Of(e) \subseteq Ids
      /\ \A j \in Ids : Reach(j)' = Reach(j)
  BY <1>4 DEF Active, Of, Had, Reach
<1>6. Detached' = {i} BY <1>2, <1>3, <1>5 DEF Detached, Active
<1>7. \A e \in Chats : waiting'[e] = IF e = c THEN 0 ELSE waiting[e] BY <1>2 DEF Typed
<1>8. \A j \in Active \ {i} : /\ ~task[j].background /\ waiting[task[j].chat] = j /\ task[j].chat # c
                              /\ task[j].chat \in Chats /\ task'[j] = task[j]
  BY <1>2, <1>3, <1>4, ChatTyped DEF Detached, Family, Held
<1> HIDE DEF c
<1> USE DEF Family
<1>9. Created' BY <1>4 DEF Created
<1>10. Held'
  <2>1. \A j \in Active : task'[j].background \/ waiting'[task[j].chat] = j
    BY <1>3, <1>7, <1>8
  <2>2. \A e \in Chats : waiting'[e] # 0 => waiting'[e] \in Of(e)' /\ \A j \in Of(e)' : j <= waiting'[e]
    BY <1>5, <1>7 DEF Held
  <2> QED BY <1>4, <1>5, <2>1, <2>2 DEF Held
<1>11. Lone' BY <1>2, <1>4, <1>6 DEF Lone
<1>12. Heads' BY <1>2, <1>3, <1>4, <1>5 DEF Heads
<1>13. Owned'
  <2>1. \A e \in Chats : snapshot'[e].thread \in Had(e)' BY <1>2, <1>5 DEF Owned
  <2>2. \A j \in Ids : task'[j].thread \in Had(task[j].chat)'
    <3>1. \A j \in Ids : Had(task[j].chat)' = Had(task[j].chat) BY <1>4, <1>5, ChatTyped DEF Had, Of
    <3> QED BY <1>4, <3>1 DEF Owned
  <2> QED BY <2>1, <2>2 DEF Owned
<1>14. Apart'
  <2>1. i \notin Detached BY <1>2
  <2>2. head[c] = i BY <1>2, <1>4, <2>1 DEF Heads, Detached, c
  <2>3. head'[task'[i].chat] = i BY <1>2, <1>3, <2>2
  <2>4. \A j \in Active \ {i} : task'[j].chat # task'[i].chat BY <1>3, <1>8
  <2> QED BY <1>5, <1>6, <2>3, <2>4 DEF Apart
<1>15. Holding' = Holding BY <1>4 DEF Holding
<1> QED BY <1>15, <1>5, <1>9, <1>10, <1>11, <1>12, <1>13, <1>14

\* Tasks end: what they leave behind still names their chat.
Ends(E) == /\ \A i \in Ids : /\ task'[i].chat = task[i].chat /\ task'[i].bound = task[i].bound
                             /\ task'[i].at = "absent" <=> task[i].at = "absent"
                             /\ task'[i].thread \in {0, task[i].thread}
           /\ \A i \in Ids : i \in E \/ i \notin Active => task'[i].at \notin Live
           /\ \A i \in Active \ E : /\ task'[i].at = task[i].at /\ task'[i].thread = task[i].thread
                                    /\ task'[i].background = task[i].background /\ task'[i].fork = task[i].fork

LEMMA EndFamily ==
  ASSUME Typed, Family, NEW E \in SUBSET Active, Ends(E), UNCHANGED <<head, snapshot>>,
         \A c \in Chats : waiting'[c] \in {0, waiting[c]},
         \A c \in Chats : waiting'[c] = 0 /\ waiting[c] \in Active => waiting[c] \in E
  PROVE  Family' /\ Active' = Active \ E
<1>1. Active \subseteq Ids /\ Detached \subseteq Active /\ \A c \in Chats : Of(c) \subseteq Ids
  BY DEF Active, Detached, Of
<1>2. \A j \in Ids : task[j].chat \in Chats /\ j \in Nat /\ j # 0 BY ChatTyped DEF Ids
<1>3. /\ Active' = Active \ E /\ Detached' = Detached \ E
      /\ \A e \in Chats : Of(e)' = Of(e) /\ Had(e)' = Had(e)
      /\ \A j \in Active \ E : Reach(j)' = Reach(j)
  <2>1. Active' = Active \ E
    <3>1. \A i \in Active \ E : task'[i].at \in Live BY DEF Ends, Active
    <3>2. \A i \in Ids : i \notin Active \ E => task'[i].at \notin Live BY DEF Ends
    <3> QED BY <1>1, <3>1, <3>2 DEF Active
  <2>2. Detached' = Detached \ E BY <1>1, <2>1 DEF Ends, Detached
  <2>3. \A e \in Chats : Of(e)' = Of(e) /\ Had(e)' = Had(e) BY DEF Ends, Of, Had
  <2>4. \A j \in Active \ E : Reach(j)' = Reach(j) BY DEF Ends, Reach
  <2> QED BY <2>1, <2>2, <2>3, <2>4
<1> USE DEF Family
<1>4. Created' BY DEF Created, Ends
<1>5. Held'
  <2>1. ASSUME NEW j \in Active \ E PROVE task'[j].background \/ waiting'[task'[j].chat] = j
    <3>1. task'[j].background = task[j].background /\ task'[j].chat = task[j].chat BY <1>1 DEF Ends
    <3>2. task[j].background \/ waiting[task[j].chat] = j BY DEF Held
    <3>3. waiting[task[j].chat] = j => waiting'[task[j].chat] = j BY <1>1, <1>2
    <3> QED BY <3>1, <3>2, <3>3
  <2>2. \A e \in Chats : waiting'[e] # 0 => waiting'[e] \in Of(e)' /\ \A j \in Of(e)' : j <= waiting'[e]
    BY <1>3 DEF Held
  <2> QED BY <1>3, <2>1, <2>2 DEF Held
<1>6. Lone'
  <2>1. \A i \in Ids : task'[i].at \in {"made", "queued", "open"} => i \in Active \ E
    BY DEF Ends, Live, Handling
  <2> QED BY <1>1, <1>3, <2>1 DEF Lone, Ends
<1>7. Heads' BY <1>1, <1>3 DEF Heads, Ends
<1>8. Owned'
  <2>1. \A e \in Chats : snapshot'[e].thread \in Had(e)' BY <1>3 DEF Owned
  <2>2. ASSUME NEW j \in Ids PROVE task'[j].thread \in Had(task[j].chat)'
    <3>1. Had(task[j].chat)' = Had(task[j].chat) BY <1>2, <1>3 DEF Had, Of, Ends
    <3>2. task'[j].thread \in {0, task[j].thread} BY <1>1 DEF Ends
    <3> QED BY <3>1, <3>2 DEF Owned, Had
  <2> QED BY <2>1, <2>2 DEF Owned
<1>9. Apart'
  <2> SUFFICES ASSUME NEW d \in Detached \ E
               PROVE  /\ head'[task'[d].chat] # d => snapshot'[task'[d].chat].thread \notin Reach(d)'
                      /\ \A j \in (Active \ E) \ {d} : task'[j].chat = task'[d].chat =>
                           /\ task'[j].at \in {"made", "queued", "open"} /\ head'[task'[d].chat] = d => task'[j].fork
                           /\ Reach(d)' \cap Reach(j)' = {}
    BY <1>3 DEF Apart
  <2>1. /\ task'[d].chat = task[d].chat /\ Reach(d)' = Reach(d)
        /\ \A j \in Active \ E : /\ task'[j].chat = task[j].chat /\ task'[j].at = task[j].at
                                 /\ task'[j].fork = task[j].fork /\ Reach(j)' = Reach(j)
    BY <1>1, <1>3 DEF Ends
  <2> QED BY <2>1 DEF Apart
<1> QED BY <1>3, <1>4, <1>5, <1>6, <1>7, <1>8, <1>9

\* A task that ends (Exit, SubmitFails), or gives its slot back after it did.
LEMMA LeaveFamily ==
  ASSUME Typed, Family, NEW i \in Ids, Exit(i) \/ Release(i) \/ SubmitFails(i)
  PROVE  /\ Family'
         /\ \/ Exit(i) /\ Holding' = Holding /\ free' = free
            \/ ~Exit(i) /\ i \in Holding /\ Holding' = Holding \ {i} /\ free' = free + 1
<1>1. PICK at \in {"leaving", "done"} :
        /\ task' = [task EXCEPT ![i] = Left(i, at)] /\ UNCHANGED <<head, snapshot>>
        /\ at = "leaving" <=> task[i].at = "ended"
        /\ task[i].at \in {"made", "ended", "leaving"}
  BY DEF Exit, Release, SubmitFails, Untouched
<1>2. /\ task'[i].at = at /\ task'[i].chat = task[i].chat /\ task'[i].bound = task[i].bound
      /\ task'[i].thread = 0 /\ \A j \in Ids \ {i} : task'[j] = task[j]
  <2>1. task'[i] = Left(i, at) /\ \A j \in Ids \ {i} : task'[j] = task[j] BY <1>1 DEF Typed
  <2> QED BY <2>1, LeftTask, ChatTyped
<1>3. /\ \A c \in Chats : waiting'[c] \in {0, waiting[c]}
      /\ \A c \in Chats : waiting'[c] = 0 /\ waiting[c] \in Active => waiting[c] \in Active \cap {i}
  <2>1. CASE Exit(i) \/ Release(i) BY <2>1 DEF Exit, Release, Untouched, procVars, Active, Ids
  <2>2. CASE SubmitFails(i)
    <3>1. waiting[task[i].chat] = i /\ i \in Active BY <2>2, OpenHeld DEF SubmitFails
    <3>2. \A c \in Chats : waiting'[c] = IF c = task[i].chat THEN 0 ELSE waiting[c]
      BY <2>2 DEF SubmitFails, Typed
    <3>3. 0 \notin Active BY DEF Active, Ids
    <3> QED BY <3>1, <3>2, <3>3
  <2> QED BY <2>1, <2>2
<1>4. Ends(Active \cap {i}) BY <1>1, <1>2 DEF Ends, Active, Live, Handling
<1>5. Family' BY <1>1, <1>3, <1>4, EndFamily
<1>6. CASE Exit(i)
  <2>1. task[i].at = "ended" /\ free' = free BY <1>6 DEF Exit, Untouched, procVars
  <2> QED BY <1>1, <1>2, <1>5, <1>6, <2>1 DEF Holding, Live
<1>7. CASE Release(i) \/ SubmitFails(i)
  <2>1. task[i].at \in {"made", "leaving"} /\ free' = free + 1 BY <1>7 DEF Release, SubmitFails
  <2>2. ~Exit(i) BY <2>1 DEF Exit
  <2> QED BY <1>1, <1>2, <1>5, <2>1, <2>2 DEF Holding, Live, Handling
<1> QED BY <1>6, <1>7

LEMMA ReturnFamily ==
  ASSUME Typed, Family, NEW c \in Chats, Return(c)
  PROVE  Family' /\ Active' = Active
<1>1. /\ waiting' = [waiting EXCEPT ![c] = 0] /\ task' = task /\ UNCHANGED <<head, snapshot>>
      /\ waiting[c] \notin Active
  BY DEF Return, Active, Live, Handling
<1>2. Ends({}) BY <1>1 DEF Ends, Active
<1>3. \A e \in Chats : waiting'[e] \in {0, waiting[e]} BY <1>1 DEF Typed
<1>4. \A e \in Chats : waiting'[e] = 0 /\ waiting[e] \in Active => waiting[e] \in {}
  BY <1>1 DEF Typed, Active, Ids
<1>5. {} \in SUBSET Active OBVIOUS
<1> QED BY <1>1, <1>2, <1>3, <1>4, <1>5, EndFamily

\* recover(): the rows after a restart.
LEMMA RestartRows ==
  ASSUME Typed, Restart, NEW i \in Ids
  PROVE  /\ task'[i] \in Task
         /\ task'[i].at = IF i \in Holding THEN "lost" ELSE task[i].at
         /\ task'[i].chat = task[i].chat /\ task'[i].bound = task[i].bound /\ task'[i].late = task[i].late
         /\ task'[i].status = IF task[i].status \in Progress THEN "interrupted" ELSE task[i].status
         /\ i \in Holding => /\ task'[i].thread = 0 /\ task'[i].send = "none" /\ ~task'[i].ready /\ ~task'[i].begun
         /\ i \notin Holding => /\ task'[i].thread = task[i].thread /\ task'[i].background = task[i].background
                               /\ task'[i].fork = task[i].fork /\ task'[i].send = task[i].send
                               /\ task'[i].ready = task[i].ready /\ task'[i].begun = task[i].begun
                               /\ task'[i].gen = task[i].gen
<1> DEFINE st == Recovered(i)
           r == IF i \in Holding THEN Left(i, "lost") ELSE task[i]
<1>1. task[i] \in Task BY ChatTyped
<1>2. st = (IF task[i].status \in Progress THEN "interrupted" ELSE task[i].status)
      /\ st \in Progress \cup Final \cup {"none"}
  BY <1>1 DEF Recovered, Task, Final
<1>3. task'[i] = [r EXCEPT !.status = st] BY DEF Restart, Renewed
<1>4. r \in Task BY <1>1, LeftTask
<1> HIDE DEF st
<1>5. task'[i] \in Task
  <2> HIDE DEF r
  <2> QED BY <1>2, <1>3, <1>4 DEF Task
<1>6. CASE i \in Holding
  <2>1. task'[i] = [Left(i, "lost") EXCEPT !.status = st] /\ Left(i, "lost") \in Task
    BY <1>1, <1>3, <1>6, LeftTask
  <2>2. /\ task'[i].at = Left(i, "lost").at /\ task'[i].chat = Left(i, "lost").chat
        /\ task'[i].bound = Left(i, "lost").bound /\ task'[i].late = Left(i, "lost").late
        /\ task'[i].thread = Left(i, "lost").thread /\ task'[i].send = Left(i, "lost").send
        /\ task'[i].ready = Left(i, "lost").ready /\ task'[i].begun = Left(i, "lost").begun
        /\ task'[i].status = st
    BY <2>1 DEF Task
  <2> HIDE <1>3, <2>1
  <2> QED BY <1>1, <1>2, <1>5, <1>6, <2>2, LeftTask
<1>7. CASE i \notin Holding
  <2>1. task'[i] = [task[i] EXCEPT !.status = st] BY <1>3, <1>7
  <2> QED BY <1>1, <1>2, <1>5, <1>7, <2>1 DEF Task
<1> QED BY <1>6, <1>7

LEMMA RestartFamily ==
  ASSUME Typed, Family, Restart
  PROVE  Family' /\ Holding' = {}
<1>1. Active \subseteq Holding /\ Holding \subseteq Ids BY DEF Active, Holding
<1>2. \A i \in Holding : task[i].at # "absent" BY DEF Holding, Live, Handling
<1>3. \A i \in Ids : task'[i].at \notin Live \cup {"leaving"}
  BY RestartRows DEF Holding, Live, Handling
<1>4. Ends(Active) BY <1>1, <1>2, <1>3, RestartRows DEF Ends
<1>5. /\ UNCHANGED <<head, snapshot>> /\ Active \in SUBSET Active
      /\ \A c \in Chats : waiting'[c] = 0
  BY DEF Restart, Renewed
<1>6. Family' BY <1>4, <1>5, EndFamily
<1> QED BY <1>3, <1>6 DEF Holding

\* create() numbers the new task after the rows in use.
LEMMA NextFresh ==
  ASSUME Created, Next1 \in Ids
  PROVE  task[Next1].at = "absent" /\ \A i \in Ids : task[i].at # "absent" <=> i < Next1
<1>1. PICK n \in 0..MaxTasks : \A i \in Ids : task[i].at # "absent" <=> i <= n BY DEF Created
<1>2. {i \in Ids : task[i].at # "absent"} = 1..n BY <1>1 DEF Ids
<1>3. Cardinality(1..n) = n BY FS_Interval
<1>4. Next1 = n + 1 BY <1>2, <1>3 DEF Next1
<1> QED BY <1>1, <1>4 DEF Ids

\* A fresh row of create().
New(c, m, f) == [Blank EXCEPT !.at = "made", !.status = "queued", !.chat = c, !.msg = m, !.fork = f]

LEMMA NewRow ==
  ASSUME NEW c \in Chats, NEW m \in Messages, NEW f \in BOOLEAN
  PROVE  /\ New(c, m, f) \in Task
         /\ New(c, m, f).at = "made" /\ New(c, m, f).status = "queued" /\ New(c, m, f).chat = c
         /\ New(c, m, f).fork = f /\ New(c, m, f).thread = 0 /\ New(c, m, f).late = 0
         /\ New(c, m, f).send = "none" /\ New(c, m, f).bad = "none"
         /\ ~New(c, m, f).bound /\ ~New(c, m, f).background
         /\ ~New(c, m, f).ready /\ ~New(c, m, f).begun
<1>1. Blank \in Task BY BlankTask
<1>2. New(c, m, f) \in Task BY <1>1 DEF New, Task, Live, Progress
<1> QED BY <1>2 DEF New, Blank

LEMMA CreateRow ==
  ASSUME Typed, Created, NEW c \in Chats, NEW m \in Messages, NEW again \in BOOLEAN, Create(c, m, again)
  PROVE  \E f \in BOOLEAN :
           /\ Next1 \in Ids /\ task'[Next1] = New(c, m, f) /\ task' \in [Ids -> Task]
           /\ \A j \in Ids \ {Next1} : task'[j] = task[j]
           /\ (\E d \in Detached : task[d].chat = c /\ head[c] = d) => f
<1> DEFINE f == again \/ \E d \in Detached : task[d].chat = c /\ head[c] = d
<1>1. Next1 \in Ids /\ task' = [task EXCEPT ![Next1] = New(c, m, f)] BY DEF Create, New
<1>2. f \in BOOLEAN /\ ((\E d \in Detached : task[d].chat = c /\ head[c] = d) => f) OBVIOUS
<1> HIDE DEF f
<1>3. New(c, m, f) \in Task BY <1>2, NewRow
<1>4. Writes(Next1, New(c, m, f)) /\ task'[Next1] = New(c, m, f) BY <1>1, <1>3, WritesRow
<1> QED BY <1>1, <1>2, <1>3, <1>4 DEF Typed

LEMMA CreateKnown ==
  ASSUME Typed, Created, \A i \in Ids : Known(i),
         NEW c \in Chats, NEW m \in Messages, NEW again \in BOOLEAN, Create(c, m, again)
  PROVE  Typed' /\ \A i \in Ids : Known(i)'
<1>1. PICK f \in BOOLEAN :
        /\ Next1 \in Ids /\ task'[Next1] = New(c, m, f) /\ task' \in [Ids -> Task]
        /\ \A j \in Ids \ {Next1} : task'[j] = task[j]
  BY CreateRow
<1>2. /\ UNCHANGED <<outbox, calls, head, snapshot, free, leaked, closed, pool>>
      /\ door' = [door EXCEPT ![c] = "idle"] /\ waiting' = [waiting EXCEPT ![c] = Next1]
  BY DEF Create
<1>3. Typed'
  <2>1. Next1 \in 0..MaxTasks BY <1>1 DEF Ids
  <2> QED BY <1>1, <1>2, <2>1 DEF Typed
<1>4. \A i \in Ids : Sending(i)' = Sending(i) BY <1>2, SameParts
<1>5. ASSUME NEW n \in Ids, n = Next1 PROVE Known(n)'
  <2>1. task[n].at = "absent" BY <1>5, NextFresh
  <2>2. Sending(n) = {} /\ (\A k \in Parts : outbox[n][k] = "none" /\ calls[n][k] = 0)
    BY <2>1 DEF Known
  <2>3. /\ task'[n].at = "made" /\ task'[n].status = "queued" /\ task'[n].late = 0
        /\ task'[n].send = "none" /\ ~task'[n].ready /\ ~task'[n].begun
    BY <1>1, <1>5, NewRow
  <2> HIDE <1>1
  <2> QED BY <1>2, <1>4, <2>2, <2>3 DEF Known, Live, Handling
<1>6. ASSUME NEW i \in Ids \ {Next1} PROVE Known(i)'
  <2>1. task'[i] = task[i] BY <1>1
  <2> QED BY <1>2, <1>4, <2>1 DEF Known
<1> QED BY <1>1, <1>3, <1>5, <1>6

LEMMA CreateFamily ==
  ASSUME Typed, Family, Waits, NEW c \in Chats, NEW m \in Messages, NEW again \in BOOLEAN, Create(c, m, again)
  PROVE  /\ Family' /\ Next1 \in Ids \ Active
         /\ Holding' = Holding \cup {Next1} /\ Next1 \notin Holding
<1>0. PICK n \in Ids : n = Next1 BY CreateRow DEF Family
<1>1. PICK f \in BOOLEAN :
        /\ n \in Ids /\ task'[n] = New(c, m, f)
        /\ \A j \in Ids \ {n} : task'[j] = task[j]
        /\ (\E d \in Detached : task[d].chat = c /\ head[c] = d) => f
  BY <1>0, CreateRow DEF Family
<1>2. /\ task'[n].at = "made" /\ task'[n].chat = c /\ task'[n].fork = f /\ task'[n].thread = 0
      /\ ~task'[n].bound /\ ~task'[n].background
  BY <1>1, NewRow
<1>3. task[n].at = "absent" /\ \A i \in Ids : task[i].at # "absent" <=> i < n
  BY <1>0, NextFresh DEF Family
<1>4. UNCHANGED <<head, snapshot>> /\ waiting' = [waiting EXCEPT ![c] = n] /\ waiting[c] = 0
  BY <1>0 DEF Create, Waits
<1>5. \A j \in Ids : task[j].chat \in Chats /\ j \in Nat /\ j # 0 BY ChatTyped DEF Ids
<1>6. /\ Active \subseteq Ids \ {n} /\ Detached \subseteq Active
      /\ \A e \in Chats : Of(e) \subseteq Ids \ {n}
  BY <1>3 DEF Active, Detached, Of, Live, Handling
<1>7. /\ Active' = Active \cup {n} /\ Detached' = Detached
      /\ \A e \in Chats : Of(e)' = IF e = c THEN Of(e) \cup {n} ELSE Of(e)
      /\ \A j \in Ids \ {n} : Reach(j)' = Reach(j)
      /\ Reach(n)' = {n}
  <2>1. n \in Active' BY <1>1, <1>2 DEF Active, Live
  <2>2. n \notin Detached' BY <1>2 DEF Detached
  <2>3. Active' = Active \cup {n} BY <1>1, <1>6, <2>1 DEF Active
  <2>4. Detached' = Detached BY <1>1, <1>6, <2>2, <2>3 DEF Detached
  <2>5. \A e \in Chats : Of(e)' = IF e = c THEN Of(e) \cup {n} ELSE Of(e) BY <1>1, <1>2, <1>3 DEF Of
  <2>6. \A j \in Ids \ {n} : Reach(j)' = Reach(j) BY <1>1 DEF Reach
  <2>7. Reach(n)' = {n} BY <1>1, <1>2, <1>5 DEF Reach
  <2> QED BY <2>3, <2>4, <2>5, <2>6, <2>7
<1>8. \A e \in Chats : Had(e)' = Had(e) BY <1>1, <1>2, <1>6, <1>7 DEF Had
<1> USE DEF Family
<1>9. Created'
  <2>1. n \in 0..MaxTasks /\ n \in Nat BY <1>1 DEF Ids
  <2>2. \A i \in Ids : task'[i].at # "absent" <=> i <= n BY <1>1, <1>2, <1>3 DEF Ids
  <2> QED BY <2>1, <2>2 DEF Created
<1>10. Held'
  <2>1. \A e \in Chats : waiting'[e] = IF e = c THEN n ELSE waiting[e] BY <1>4 DEF Typed
  <2>2. ASSUME NEW j \in Active PROVE task'[j].background \/ waiting'[task'[j].chat] = j
    <3>1. task'[j] = task[j] /\ j \in Ids /\ j # 0 /\ task[j].chat \in Chats BY <1>1, <1>5, <1>6
    <3>2. task[j].background \/ waiting[task[j].chat] = j BY DEF Held
    <3> QED BY <1>4, <2>1, <3>1, <3>2
  <2>3. waiting'[task'[n].chat] = n BY <1>2, <2>1
  <2>4. \A e \in Chats : waiting'[e] # 0 => waiting'[e] \in Of(e)' /\ \A j \in Of(e)' : j <= waiting'[e]
    <3>1. \A j \in Ids \ {n} : task[j].at # "absent" => j <= n BY <1>1, <1>3 DEF Ids
    <3>2. n <= n BY <1>1, <1>5
    <3>3. \A j \in Of(c) : j <= n BY <1>6, <3>1 DEF Of
    <3> QED BY <1>7, <2>1, <3>2, <3>3 DEF Held
  <2> QED BY <1>7, <2>2, <2>3, <2>4 DEF Held
<1>11. Lone'
  <2>1. \A d \in Detached : task'[d] = task[d] BY <1>1, <1>6
  <2> QED BY <1>1, <1>2, <1>7, <2>1 DEF Lone
<1>12. Heads'
  <2>1. \A e \in Chats : head'[e] # 0 => head'[e] \in Of(e)' BY <1>4, <1>7 DEF Heads
  <2>2. \A e \in Chats : snapshot'[e].by <= head'[e] BY <1>4 DEF Heads
  <2>3. \A j \in Active : task'[j] = task[j] BY <1>1, <1>6
  <2> QED BY <1>2, <1>4, <1>7, <2>1, <2>2, <2>3 DEF Heads
<1>13. Owned'
  <2>1. \A e \in Chats : snapshot'[e].thread \in Had(e)' BY <1>4, <1>8 DEF Owned
  <2>2. 0 \in Had(c)' BY DEF Had
  <2>3. \A j \in Ids \ {n} : task'[j].thread \in Had(task[j].chat) /\ task'[j].chat = task[j].chat BY <1>1 DEF Owned
  <2>4. \A j \in Ids \ {n} : Had(task[j].chat) = Had(task[j].chat)' BY <1>5, <1>8, <2>3 DEF Had, Of
  <2> QED BY <1>2, <2>1, <2>2, <2>3, <2>4 DEF Owned
<1>14. Apart'
  <2> SUFFICES ASSUME NEW d \in Detached
               PROVE  /\ head'[task'[d].chat] # d => snapshot'[task'[d].chat].thread \notin Reach(d)'
                      /\ \A j \in (Active \cup {n}) \ {d} : task'[j].chat = task'[d].chat =>
                           /\ task'[j].at \in {"made", "queued", "open"} /\ head'[task'[d].chat] = d => task'[j].fork
                           /\ Reach(d)' \cap Reach(j)' = {}
    BY <1>7 DEF Apart
  <2>1. d # n /\ d \in Ids /\ task'[d] = task[d] /\ Reach(d)' = Reach(d) BY <1>1, <1>6, <1>7
  <2>2. ASSUME NEW j \in Active PROVE task'[j] = task[j] /\ Reach(j)' = Reach(j)
    BY <1>1, <1>6, <1>7
  <2>3. n \notin Reach(d)
    <3>1. task[d].thread \in Had(task[d].chat) BY <2>1 DEF Owned
    <3>2. task[d].thread # n BY <1>1, <1>3, <1>5, <3>1 DEF Had, Of
    <3> QED BY <2>1, <3>2 DEF Reach
  <2>4. task'[n].chat = task[d].chat /\ head'[task[d].chat] = d => task'[n].fork
    BY <1>1, <1>2, <1>4
  <2> QED BY <1>4, <1>7, <2>1, <2>2, <2>3, <2>4 DEF Apart
<1>15. Holding' = Holding \cup {n} /\ n \notin Holding
  <2>1. n \notin Holding BY <1>3 DEF Holding, Live, Handling
  <2>2. n \in Holding' BY <1>1, <1>2 DEF Holding, Live
  <2> QED BY <1>1, <2>1, <2>2 DEF Holding
<1> QED BY <1>0, <1>6, <1>7, <1>9, <1>10, <1>11, <1>12, <1>13, <1>14, <1>15

\* close(): every active task is cancelled.
LEMMA SweepStep ==
  ASSUME Typed, \A i \in Ids : Known(i), Sweep
  PROVE  /\ Typed' /\ \A i \in Ids : Known(i)'
         /\ (\A i \in Ids : Keeps(i)) /\ UNCHANGED <<head, snapshot, door, waiting, free, leaked>>
<1>1. \A i \in Ids : task[i] \in Task BY ChatTyped
<1>2. ASSUME NEW i \in Ids
      PROVE  \E b \in BOOLEAN : task'[i] = [task[i] EXCEPT !.cancel = b] /\ (i \in Active => b)
  <2>1. task'[i] = [task[i] EXCEPT !.cancel = task[i].cancel \/ i \in Active] BY <1>1 DEF Sweep
  <2>2. (task[i].cancel \/ i \in Active) \in BOOLEAN OBVIOUS
  <2> QED BY <2>1, <2>2
<1>3. ASSUME NEW i \in Ids PROVE task'[i] \in Task
  <2>1. PICK b \in BOOLEAN : task'[i] = [task[i] EXCEPT !.cancel = b] BY <1>2
  <2> QED BY <1>1, <2>1 DEF Task
<1>4. UNCHANGED <<outbox, calls, head, snapshot, door, waiting, free, leaked, closed>> /\ pool' = "swept" BY DEF Sweep
<1>5. Typed'
  <2>1. task' = [i \in Ids |-> task'[i]] BY DEF Sweep
  <2>2. task' \in [Ids -> Task] BY <1>3, <2>1
  <2> QED BY <1>4, <2>2 DEF Typed
<1>6. ASSUME NEW i \in Ids PROVE Known(i)' /\ Keeps(i)
  <2>1. PICK b \in BOOLEAN : task'[i] = [task[i] EXCEPT !.cancel = b] /\ (i \in Active => b) BY <1>2
  <2>2. /\ task'[i].at = task[i].at /\ task'[i].chat = task[i].chat /\ task'[i].thread = task[i].thread
        /\ task'[i].bound = task[i].bound /\ task'[i].background = task[i].background
        /\ task'[i].fork = task[i].fork /\ task'[i].status = task[i].status /\ task'[i].send = task[i].send
        /\ task'[i].ready = task[i].ready /\ task'[i].begun = task[i].begun /\ task'[i].gen = task[i].gen
        /\ task'[i].late = task[i].late /\ task'[i].bad = task[i].bad
        /\ task[i].at \in Live => task'[i].cancel
    BY <1>1, <2>1 DEF Task, Active
  <2>3. Sending(i)' = Sending(i) BY <1>4, SameParts
  <2> HIDE <2>1
  <2> QED BY <1>4, <2>2, <2>3 DEF Known, Keeps
<1> QED BY <1>4, <1>5, <1>6

LEMMA ReturnKnown ==
  ASSUME Typed, \A i \in Ids : Known(i), NEW c \in Chats, Return(c)
  PROVE  /\ Typed' /\ (\A i \in Ids : Known(i)') /\ UNCHANGED <<door, free, leaked>> /\ Holding' = Holding
         /\ \A e \in Chats : waiting'[e] \in {0, waiting[e]}
<1>1. UNCHANGED <<task, outbox, calls, head, snapshot, door, free, leaked, closed, pool>> /\ waiting' = [waiting EXCEPT ![c] = 0]
  BY DEF Return
<1>2. Typed'
  <2>1. waiting' \in [Chats -> 0..MaxTasks] BY <1>1 DEF Typed
  <2> QED BY <1>1, <2>1 DEF Typed
<1>3. \A e \in Chats : waiting'[e] \in {0, waiting[e]} BY <1>1 DEF Typed
<1> QED BY <1>1, <1>2, <1>3 DEF Known, Sending, Holding

LEMMA RestartKnown ==
  ASSUME Typed, \A i \in Ids : Known(i), Restart
  PROVE  Typed' /\ \A i \in Ids : Known(i)'
<1>1. \A i \in Ids : /\ outbox'[i] \in [Parts -> Marks]
                     /\ \A k \in Parts : outbox'[i][k] = IF outbox[i][k] = "sending" THEN "uncertain" ELSE outbox[i][k]
  BY DEF Restart, Renewed, Sending, Typed, Marks
<1>2. /\ UNCHANGED <<calls, head, snapshot>> /\ free' = Slots /\ leaked' = 0 /\ closed' = FALSE /\ pool' = "open"
      /\ waiting' = [c \in Chats |-> 0] /\ door' = [c \in Chats |-> "idle"]
  BY DEF Restart, Renewed
<1>3. Typed'
  <2>1. task' = [i \in Ids |-> task'[i]] /\ outbox' = [i \in Ids |-> outbox'[i]] BY DEF Restart, Renewed
  <2>2. task' \in [Ids -> Task] BY <2>1, RestartRows
  <2>3. outbox' \in [Ids -> [Parts -> Marks]] BY <1>1, <2>1
  <2>4. Slots \in Nat OBVIOUS
  <2>5. waiting' \in [Chats -> 0..MaxTasks] BY <1>2
  <2>6. /\ free' \in Nat /\ leaked' \in Nat /\ closed' \in BOOLEAN /\ pool' \in {"open", "swept", "shut"}
        /\ door' \in [Chats -> {"idle", "asking", "slot", "checked"}]
    BY <1>2, <2>4
  <2>7. /\ calls' \in [Ids -> [Parts -> Nat]] /\ head' \in [Chats -> 0..MaxTasks]
        /\ snapshot' \in [Chats -> [thread : 0..MaxTasks, by : 0..MaxTasks]]
    BY <1>2 DEF Typed
  <2> QED BY <2>2, <2>3, <2>5, <2>6, <2>7 DEF Typed
<1>4. ASSUME NEW i \in Ids PROVE Known(i)'
  <2>1. Sending(i)' = {} BY <1>1 DEF Sending
  <2>2. i \in Holding <=> task[i].at \in Live \cup {"leaving"} BY DEF Holding
  <2>3. CASE i \in Holding
    <3>1. task'[i].at = "lost" /\ task'[i].late = task[i].late /\ task'[i].send = "none"
          /\ ~task'[i].ready /\ ~task'[i].begun
          /\ task'[i].status = IF task[i].status \in Progress THEN "interrupted" ELSE task[i].status
      BY <2>3, RestartRows
    <3> QED BY <1>1, <1>2, <2>1, <3>1 DEF Known, Live, Handling
  <2>4. CASE i \notin Holding
    <3>1. /\ task'[i].at = task[i].at /\ task'[i].late = task[i].late /\ task'[i].send = task[i].send
          /\ task'[i].ready = task[i].ready /\ task'[i].begun = task[i].begun /\ task'[i].gen = task[i].gen
          /\ task'[i].status = IF task[i].status \in Progress THEN "interrupted" ELSE task[i].status
      BY <2>4, RestartRows
    <3>2. task[i].at = "absent" => task'[i].status = "none"
      <4>1. "none" \notin Progress BY DEF Progress
      <4> QED BY <3>1, <4>1 DEF Known
    <3>3. task'[i].thread = task[i].thread /\ task'[i].bound = task[i].bound BY <2>4, RestartRows
    <3> QED BY <1>1, <1>2, <2>1, <2>2, <2>4, <3>1, <3>2, <3>3 DEF Known, Live, Handling
  <2> QED BY <2>3, <2>4
<1> QED BY <1>3, <1>4

\* What one step of a task does to the chats and to the slots.
LEMMA AdvanceStep ==
  ASSUME Typed, \A i \in Ids : Known(i), Family, NEW i \in Ids, Advances(i)
  PROVE  /\ Typed' /\ (\A j \in Ids : Known(j)') /\ Family'
         /\ \/ Holding' = Holding /\ free' = free
            \/ i \in Holding /\ Holding' = Holding \ {i} /\ free' = free + 1
<1>1. PICK r : Writes(i, r) /\ Known(i)' BY OwnStep
<1>2. /\ task' \in [Ids -> Task] /\ \A j \in Ids \ {i} : task'[j] = task[j] BY <1>1 DEF Writes, Typed
<1>3. /\ outbox' \in [Ids -> [Parts -> Marks]] /\ calls' \in [Ids -> [Parts -> Nat]]
      /\ \A j \in Ids \ {i} : outbox'[j] = outbox[j] /\ calls'[j] = calls[j]
  BY AdvanceTyped
<1>4. Typed' BY <1>2, <1>3, ChatsTyped DEF Typed
<1>5. ASSUME NEW j \in Ids \ {i} PROVE Known(j)'
  <2>1. task'[j] = task[j] /\ outbox'[j] = outbox[j] /\ calls'[j] = calls[j] BY <1>2, <1>3
  <2>2. Sending(j)' = Sending(j) BY <2>1 DEF Sending
  <2> QED BY <2>1, <2>2 DEF Known
<1>6. CASE \/ Submit(i) \/ Begin(i) \/ Network(i) \/ Complete(i) \/ Finish(i) \/ Check(i) \/ Call(i)
           \/ \E st \in {"sent", "failed", "uncertain"} : Settle(i, st)
           \/ Cancel(i) \/ Expire(i) \/ Lapse(i) \/ \E k \in Parts : Reserve(i, k)
  BY <1>1, <1>4, <1>5, <1>6, KeepingSteps, KeptFamily, SameSets
<1>7. CASE Bind(i) \/ Save(i) \/ Fail(i)
  <2>1. Works(i) /\ free' = free /\ Holding' = Holding BY <1>7, WorkingSteps
  <2> QED BY <1>1, <1>4, <1>5, <2>1, WorkFamily
<1>8. CASE Load(i)
  BY <1>1, <1>4, <1>5, <1>8, LoadFamily DEF Load, procVars
<1>9. CASE Detach(i)
  BY <1>1, <1>4, <1>5, <1>9, DetachFamily DEF Detach
<1>10. CASE Exit(i) \/ Release(i) \/ SubmitFails(i)
  BY <1>1, <1>4, <1>5, <1>10, LeaveFamily
<1> QED BY <1>6, <1>7, <1>8, <1>9, <1>10 DEF Advances, Step, HandOver

-----------------------------------------------------------------------------
(* The invariant.                                                          *)

\* The inductive invariant: the types, what is known of each row and its
\* parts, the tasks of a chat with their threads, and the slots.
IInv == Typed /\ (\A i \in Ids : Known(i)) /\ Family /\ Waits /\ SlotsKept

LEMMA InitHolds == ASSUME Init PROVE IInv
<1>1. Typed
  <2>1. Blank \in Task BY BlankTask
  <2>2. 0 \in 0..MaxTasks /\ Slots \in Nat OBVIOUS
  <2> QED BY <2>1, <2>2 DEF Init, Typed, Marks
<1>2. \A i \in Ids : /\ task[i].at = "absent" /\ task[i].status = "none" /\ task[i].send = "none"
                     /\ task[i].late = 0 /\ ~task[i].ready /\ ~task[i].begun /\ ~task[i].bound
                     /\ task[i].thread = 0
  BY DEF Init, Blank
<1>3. \A i \in Ids : Known(i) BY <1>2 DEF Known, Init, Sending, Live, Handling
<1>4. Active = {} /\ Detached = {} /\ (\A c \in Chats : Of(c) = {}) /\ Holding = {}
  BY <1>2 DEF Active, Detached, Of, Holding, Live, Handling
<1>5. Family
  <2>1. Created
    <3>1. 0 \in 0..MaxTasks /\ \A i \in Ids : ~(i <= 0) BY DEF Ids
    <3> QED BY <1>2, <3>1 DEF Created
  <2>2. Held BY <1>4 DEF Held, Init
  <2>3. Lone BY <1>2, <1>4 DEF Lone
  <2>4. Heads BY <1>4 DEF Heads, Init
  <2>5. Owned BY <1>2 DEF Owned, Had, Init
  <2>6. Apart BY <1>4 DEF Apart
  <2> QED BY <2>1, <2>2, <2>3, <2>4, <2>5, <2>6 DEF Family
<1>6. SlotsKept
  <2>1. AtDoor = {} /\ free = Slots /\ leaked = 0 BY DEF Init, AtDoor
  <2> QED BY <1>4, <2>1, FS_EmptySet DEF SlotsKept
<1>7. Waits BY DEF Init, Waits
<1> QED BY <1>1, <1>3, <1>5, <1>6, <1>7 DEF IInv

LEMMA Finite == /\ IsFiniteSet(Holding) /\ Cardinality(Holding) \in Nat
                /\ IsFiniteSet(AtDoor) /\ Cardinality(AtDoor) \in Nat
<1>1. IsFiniteSet(1..MaxTasks) BY FS_Interval
<1>2. Holding \subseteq 1..MaxTasks /\ AtDoor \subseteq Chats BY DEF Holding, AtDoor, Ids
<1>3. IsFiniteSet(Holding) /\ IsFiniteSet(AtDoor) BY <1>1, <1>2, FS_Subset
<1> QED BY <1>3, FS_CardinalityType

\* The ways a slot changes hands.
LEMMA SlotsStep ==
  ASSUME SlotsKept, free \in Nat, leaked \in Nat, NEW c, NEW i,
         \/ AtDoor' = AtDoor /\ Holding' = Holding /\ free' = free /\ leaked' = leaked
         \/ c \notin AtDoor /\ AtDoor' = AtDoor \cup {c} /\ Holding' = Holding /\ free' = free - 1 /\ leaked' = leaked
         \/ c \in AtDoor /\ AtDoor' = AtDoor \ {c} /\ Holding' = Holding /\ free' = free + 1 /\ leaked' = leaked
         \/ c \in AtDoor /\ AtDoor' = AtDoor \ {c} /\ Holding' = Holding /\ free' = free /\ leaked' = leaked + 1
         \/ /\ c \in AtDoor /\ AtDoor' = AtDoor \ {c} /\ i \notin Holding /\ Holding' = Holding \cup {i}
            /\ free' = free /\ leaked' = leaked
         \/ AtDoor' = AtDoor /\ i \in Holding /\ Holding' = Holding \ {i} /\ free' = free + 1 /\ leaked' = leaked
         \/ AtDoor' = {} /\ Holding' = {} /\ free' = Slots /\ leaked' = 0
  PROVE  SlotsKept'
<1> DEFINE a == Cardinality(AtDoor)
           h == Cardinality(Holding)
           x == Cardinality(AtDoor')
           y == Cardinality(Holding')
<1>1. a \in Nat /\ h \in Nat /\ free + leaked + a + h = Slots BY Finite DEF SlotsKept
<1>2. c \in AtDoor /\ AtDoor' = AtDoor \ {c} => x = a - 1 BY Finite, FS_RemoveElement
<1>3. c \notin AtDoor /\ AtDoor' = AtDoor \cup {c} => x = a + 1 BY Finite, FS_AddElement
<1>4. i \in Holding /\ Holding' = Holding \ {i} => y = h - 1 BY Finite, FS_RemoveElement
<1>5. i \notin Holding /\ Holding' = Holding \cup {i} => y = h + 1 BY Finite, FS_AddElement
<1>6. (AtDoor' = AtDoor => x = a) /\ (Holding' = Holding => y = h) OBVIOUS
<1>7. (AtDoor' = {} => x = 0) /\ (Holding' = {} => y = 0) BY FS_EmptySet
<1> HIDE DEF a, h, x, y
<1>8. free' + leaked' + x + y = Slots BY <1>1, <1>2, <1>3, <1>4, <1>5, <1>6, <1>7
<1> QED BY <1>8 DEF SlotsKept, x, y

\* A worker in dispatch() before there is a task.
LEMMA DoorHolds ==
  ASSUME IInv, NEW c \in Chats, Arrive(c) \/ Acquire(c) \/ Recheck(c) \/ Refuse(c) \/ CreateFails(c)
  PROVE  IInv'
<1> USE DEF IInv
<1>1. /\ UNCHANGED <<task, outbox, calls, head, snapshot, waiting, closed, pool>>
      /\ door' = [door EXCEPT ![c] = door'[c]] /\ door'[c] \in {"idle", "asking", "slot", "checked"}
      /\ door[c] # "idle" \/ waiting[c] = 0
  BY DEF Typed, Arrive, Acquire, Recheck, Refuse, CreateFails, TurnAway
<1>2. \/ door[c] = "idle" /\ door'[c] = "asking" /\ free' = free /\ leaked' = leaked
      \/ door[c] = "asking" /\ door'[c] = "slot" /\ free > 0 /\ free' = free - 1 /\ leaked' = leaked
      \/ door[c] \in {"slot", "checked"} /\ door'[c] = "idle" /\ free' = free + 1 /\ leaked' = leaked
      \/ door[c] = "slot" /\ door'[c] = "checked" /\ free' = free /\ leaked' = leaked
      \/ door[c] = "checked" /\ door'[c] = "idle" /\ free' = free /\ leaked' = leaked + 1
  BY DEF Typed, Arrive, Acquire, Recheck, Refuse, CreateFails, TurnAway
<1>3. \A e \in Chats \ {c} : door'[e] = door[e] BY <1>1 DEF Typed
<1>4. Typed'
  <2>1. free' \in Nat /\ leaked' \in Nat BY <1>2 DEF Typed
  <2>2. door' \in [Chats -> {"idle", "asking", "slot", "checked"}] BY <1>1 DEF Typed
  <2> QED BY <1>1, <2>1, <2>2 DEF Typed
<1>5. /\ \A i \in Ids : Keeps(i)
      /\ \A i \in Ids : Known(i)'
  BY <1>1 DEF Keeps, Known, Sending
<1>6. Family' /\ Holding' = Holding BY <1>1, <1>5, KeptFamily, SameSets
<1>7. Waits' BY <1>1, <1>3 DEF Waits
<1>8. \/ door[c] \in {"slot", "checked"} /\ c \in AtDoor
      \/ door[c] \notin {"slot", "checked"} /\ c \notin AtDoor
  BY DEF AtDoor
<1>9. AtDoor' = IF door'[c] \in {"slot", "checked"} THEN AtDoor \cup {c} ELSE AtDoor \ {c}
  BY <1>3 DEF AtDoor
<1>10. \/ AtDoor' = AtDoor /\ free' = free /\ leaked' = leaked
       \/ c \notin AtDoor /\ AtDoor' = AtDoor \cup {c} /\ free' = free - 1 /\ leaked' = leaked
       \/ c \in AtDoor /\ AtDoor' = AtDoor \ {c} /\ free' = free + 1 /\ leaked' = leaked
       \/ c \in AtDoor /\ AtDoor' = AtDoor \ {c} /\ free' = free /\ leaked' = leaked + 1
  BY <1>2, <1>8, <1>9
<1>11. SlotsKept' BY <1>6, <1>10, SlotsStep DEF Typed
<1> QED BY <1>4, <1>5, <1>6, <1>7, <1>11

LEMMA StepHolds == ASSUME IInv, [Next]_vars PROVE IInv'
<1> USE DEF IInv
<1>1. ASSUME NEW c \in Chats, NEW m \in Messages, NEW again \in BOOLEAN, Create(c, m, again) PROVE IInv'
  <2>1. Typed' /\ \A i \in Ids : Known(i)' BY <1>1, CreateKnown DEF Family
  <2>2. PICK n : n = Next1 OBVIOUS
  <2>3. Family' /\ Holding' = Holding \cup {n} /\ n \notin Holding BY <1>1, <2>2, CreateFamily
  <2>4. /\ UNCHANGED <<free, leaked>> /\ door[c] = "checked"
        /\ \A e \in Chats : door'[e] = IF e = c THEN "idle" ELSE door[e]
        /\ \A e \in Chats \ {c} : waiting'[e] = waiting[e]
    BY <1>1 DEF Create, Typed
  <2>5. c \in AtDoor /\ AtDoor' = AtDoor \ {c} BY <2>4 DEF AtDoor
  <2>6. SlotsKept' BY <2>3, <2>4, <2>5, SlotsStep DEF Typed
  <2>7. Waits' BY <2>4 DEF Waits
  <2> QED BY <2>1, <2>3, <2>6, <2>7
<1>2. ASSUME NEW c \in Chats, Return(c) PROVE IInv'
  <2>1. /\ Typed' /\ (\A i \in Ids : Known(i)') /\ UNCHANGED <<door, free, leaked>> /\ Holding' = Holding
        /\ \A e \in Chats : waiting'[e] \in {0, waiting[e]}
    BY <1>2, ReturnKnown
  <2>2. Family' BY <1>2, ReturnFamily
  <2>3. SlotsKept' BY <2>1, SlotsStep DEF Typed, AtDoor
  <2>4. Waits' BY <2>1 DEF Waits
  <2> QED BY <2>1, <2>2, <2>3, <2>4
<1>3. ASSUME NEW i \in Ids, Advances(i) PROVE IInv'
  <2>1. /\ Typed' /\ (\A j \in Ids : Known(j)') /\ Family'
        /\ \/ Holding' = Holding /\ free' = free
           \/ i \in Holding /\ Holding' = Holding \ {i} /\ free' = free + 1
    BY <1>3, AdvanceStep
  <2>2. UNCHANGED <<door, leaked>> /\ \A c \in Chats : waiting'[c] \in {0, waiting[c]} BY <1>3, ChatsTyped
  <2>3. AtDoor' = AtDoor BY <2>2 DEF AtDoor
  <2>4. SlotsKept' BY <2>1, <2>2, <2>3, SlotsStep DEF Typed
  <2>5. Waits' BY <2>2 DEF Waits
  <2> QED BY <2>1, <2>4, <2>5
<1>4. CASE Sweep
  <2>1. /\ Typed' /\ \A i \in Ids : Known(i)'
        /\ (\A i \in Ids : Keeps(i)) /\ UNCHANGED <<head, snapshot, door, waiting, free, leaked>>
    BY <1>4, SweepStep
  <2>2. Family' /\ Holding' = Holding BY <2>1, KeptFamily, SameSets
  <2>3. SlotsKept' BY <2>1, <2>2, SlotsStep DEF Typed, AtDoor
  <2>4. Waits' BY <2>1 DEF Waits
  <2> QED BY <2>1, <2>2, <2>3, <2>4
<1>5. CASE Restart
  <2>1. Typed' /\ \A i \in Ids : Known(i)' BY <1>5, RestartKnown
  <2>2. Family' /\ Holding' = {} BY <1>5, RestartFamily
  <2>3. /\ free' = Slots /\ leaked' = 0 /\ \A c \in Chats : door'[c] = "idle" /\ waiting'[c] = 0
    BY <1>5 DEF Restart, Renewed
  <2>4. AtDoor' = {} BY <2>3 DEF AtDoor
  <2>5. SlotsKept' BY <2>2, <2>3, <2>4, SlotsStep DEF Typed
  <2>6. Waits' BY <2>3 DEF Waits
  <2> QED BY <2>1, <2>2, <2>5, <2>6
<1>6. CASE Close \/ Shut \/ UNCHANGED vars
  <2>1. /\ UNCHANGED <<task, outbox, calls, head, snapshot, door, waiting, free, leaked>>
        /\ closed' \in BOOLEAN /\ pool' \in {"open", "swept", "shut"}
    BY <1>6 DEF Close, Shut, vars, Typed
  <2>2. \A i \in Ids : Keeps(i) BY <2>1 DEF Keeps
  <2>3. Family' /\ Holding' = Holding BY <2>1, <2>2, KeptFamily, SameSets
  <2>4. Typed' BY <2>1 DEF Typed
  <2>5. \A i \in Ids : Known(i)' BY <2>1 DEF Known, Sending
  <2>6. SlotsKept' BY <2>1, <2>3, SlotsStep DEF Typed, AtDoor
  <2>7. Waits' BY <2>1 DEF Waits
  <2> QED BY <2>3, <2>4, <2>5, <2>6, <2>7
<1> QED BY <1>1, <1>2, <1>3, <1>4, <1>5, <1>6, DoorHolds DEF Next, Enter, Advances

\* The rows, the outbox, the chats and the slots agree with each other in every
\* state, over every early end, cancellation and restart (_run(), dispatch(),
\* TaskStore.recover()).
THEOREM TasksInvariant == Spec => []IInv
<1> QED BY InitHolds, StepHolds, PTL DEF Spec

-----------------------------------------------------------------------------
(* What follows from it.                                                   *)

LEMMA TypesHold == ASSUME IInv PROVE TypeOK
<1> USE DEF IInv, Typed
<1>1. ASSUME NEW i \in Ids
      PROVE  /\ DOMAIN task[i] = DOMAIN Blank /\ task[i].at \in Live \cup {"absent", "leaving", "done", "lost"}
             /\ task[i].chat \in Chats /\ task[i].msg \in Messages /\ task[i].thread \in 0..MaxTasks
             /\ task[i].status \in Progress \cup Final \cup {"none"}
             /\ task[i].gen \in {"none", "intime", "late"} /\ task[i].late \in Nat
             /\ task[i].send \in {"none", "reserved", "admitted", "entered", "called"}
  <2>1. task[i] \in Task /\ Blank \in Task BY BlankTask
  <2>2. DOMAIN task[i] = DOMAIN Blank BY <2>1 DEF Task
  <2> QED BY <2>1, <2>2 DEF Task
<1>2. ASSUME NEW i \in Ids
      PROVE  /\ task[i].send # "none" <=> task[i].at \in Live /\ \E k \in Parts : outbox[i][k] = "sending"
             /\ task[i].at = "turn" => task[i].bound /\ task[i].thread # 0
  <2>1. Known(i) OBVIOUS
  <2> QED BY <2>1 DEF Known, Sending, Live, Handling
<1>3. \A c \in Chats : snapshot[c].thread \in 0..MaxTasks OBVIOUS
<1>4. free \in 0..Slots /\ leaked \in 0..Slots BY Finite DEF SlotsKept
<1> QED BY <1>1, <1>2, <1>3, <1>4 DEF TypeOK, Marks

\* Every field keeps its type; a part is being sent exactly while its task is in
\* delivery(), and a turn runs on a thread.
THEOREM TypesKept == Spec => []TypeOK
<1> QED BY TasksInvariant, TypesHold, PTL

\* Every way out of dispatch() (closed while it waited, duplicate, pool that takes
\* no task) and the finally of _run() give a slot back, once; only an error of the
\* database between the slot and the task loses it, until the next restart.
THEOREM SlotsAreKept == Spec => []SlotsKept
<1>1. IInv => SlotsKept BY DEF IInv
<1> QED BY <1>1, TasksInvariant, PTL

\* A task recorded as completed confirmed every part it tried: a part that was
\* refused, failed or left uncertain is remembered until the verdict of _run().
THEOREM CompletedIsDelivered == Spec => []CompletedDelivered
<1>1. IInv => CompletedDelivered BY DEF IInv, Known, CompletedDelivered
<1> QED BY <1>1, TasksInvariant, PTL

\* At most one part is sent after a cancellation or close(): the one that was
\* past both checks of delivery().
THEOREM LateSendIsOne == Spec => []OneLateSend
<1>1. IInv => OneLateSend BY DEF IInv, Known, OneLateSend
<1> QED BY <1>1, TasksInvariant, PTL

\* Two live tasks of a chat: one is detached, and nothing offers its thread to
\* the other; two chats never hold the same thread.
LEMMA TurnsApart == ASSUME IInv PROVE DistinctThreads
<1> USE DEF IInv, Family
<1> SUFFICES ASSUME NEW i \in Ids, NEW j \in Ids, i # j, task[i].at = "turn", task[j].at = "turn"
             PROVE  task[i].thread # task[j].thread
  BY DEF DistinctThreads
<1>1. /\ i \in Active /\ j \in Active /\ task[i].thread # 0 /\ task[j].thread # 0
      /\ task[i].thread \in Reach(i) /\ task[j].thread \in Reach(j)
  BY DEF Active, Live, Handling, Known, Reach
<1>2. task[i].chat \in Chats /\ task[j].chat \in Chats BY ChatTyped
<1>3. CASE task[i].chat # task[j].chat
  <2>1. task[i].thread \in Of(task[i].chat) /\ task[j].thread \in Of(task[j].chat)
    BY <1>1 DEF Owned, Had
  <2> QED BY <1>3, <2>1 DEF Of
<1>4. CASE task[i].chat = task[j].chat
  <2>1. task[i].background \/ task[j].background BY <1>1, <1>4 DEF Held
  <2>2. i \in Detached \/ j \in Detached BY <1>1, <2>1 DEF Detached
  <2>3. Reach(i) \cap Reach(j) = {} BY <1>1, <1>4, <2>2 DEF Apart
  <2> QED BY <1>1, <2>3
<1> QED BY <1>3, <1>4

\* No two running turns share a Codex thread: load_state() gives a task that
\* branches off a detached one a snapshot without its thread.
THEOREM TurnsNeverShareThreads == Spec => []DistinctThreads
<1> QED BY TasksInvariant, TurnsApart, PTL

\* What a task publishes comes after what its chat's head published.
LEMMA OwnSnapshot ==
  ASSUME IInv, NEW i \in Ids, Advances(i), NEW c \in Chats
  PROVE  snapshot'[c].by >= snapshot[c].by
<1> USE DEF IInv, Family
<1>1. /\ snapshot[c].by \in Nat /\ head[c] \in Nat /\ i \in Nat /\ task[i].chat \in Chats
      /\ \A e \in Chats : snapshot[e].by <= head[e]
  BY ChatTyped DEF Typed, Heads
<1>2. CASE Load(i)
  <2>1. \A j \in Of(task[i].chat) : j <= i BY <1>2, OpenHeld DEF Load
  <2>2. head[task[i].chat] <= i BY <1>1, <2>1 DEF Heads
  <2>3. snapshot' = IF task[i].fork THEN [snapshot EXCEPT ![task[i].chat] = [thread |-> 0, by |-> i]] ELSE snapshot
    BY <1>2 DEF Load
  <2>4. snapshot'[c].by = snapshot[c].by \/ (c = task[i].chat /\ snapshot'[c].by = i)
    BY <2>3 DEF Typed
  <2> QED BY <1>1, <2>2, <2>4
<1>3. CASE Bind(i) \/ Save(i) \/ Fail(i)
  <2>1. Works(i) BY <1>3, WorkingSteps
  <2>2. snapshot'[c].by = snapshot[c].by \/ (c = task[i].chat /\ head[c] = i /\ snapshot'[c].by = i)
    BY <1>1, <2>1 DEF Works, Typed
  <2> QED BY <1>1, <2>2
<1>4. CASE Detach(i) \/ Exit(i) \/ Release(i) \/ SubmitFails(i)
  BY <1>1, <1>4 DEF Detach, Exit, Release, SubmitFails, Untouched
<1>5. CASE \/ Submit(i) \/ Begin(i) \/ Network(i) \/ Complete(i) \/ Finish(i) \/ Check(i) \/ Call(i)
           \/ \E st \in {"sent", "failed", "uncertain"} : Settle(i, st)
           \/ Cancel(i) \/ Expire(i) \/ Lapse(i) \/ \E k \in Parts : Reserve(i, k)
  BY <1>1, <1>5, KeepingSteps
<1> QED BY <1>2, <1>3, <1>4, <1>5 DEF Advances, Step, HandOver

\* A chat's snapshot is never replaced by that of an earlier task: save_state()
\* publishes for the head only, and heads are taken in the order of creation.
THEOREM SnapshotsNeverOlder == Spec => SnapshotNeverOlder
<1>1. IInv /\ [Next]_vars => [\A c \in Chats : snapshot'[c].by >= snapshot[c].by]_vars
  <2> SUFFICES ASSUME IInv, Next, NEW c \in Chats PROVE snapshot'[c].by >= snapshot[c].by
    OBVIOUS
  <2>1. snapshot[c].by \in Nat BY DEF IInv, Typed
  <2>2. CASE UNCHANGED snapshot BY <2>1, <2>2
  <2>3. ASSUME NEW i \in Ids, Advances(i) PROVE snapshot'[c].by >= snapshot[c].by BY <2>3, OwnSnapshot
  <2>4. CASE \/ \E e \in Chats : Arrive(e) \/ Enter(e) \/ Return(e)
             \/ Close \/ Sweep \/ Shut \/ Restart
    BY <2>2, <2>4 DEF Arrive, Enter, Acquire, Recheck, Refuse, CreateFails, TurnAway, Create, Return,
                      Close, Sweep, Shut, Restart, Renewed
  <2> QED BY <2>3, <2>4 DEF Next, Advances
<1> QED BY <1>1, TasksInvariant, PTL DEF Spec, SnapshotNeverOlder

-----------------------------------------------------------------------------
\* The window of a task whose delivery began stays shut.
Refused(i) == task[i].begun /\ ~Allowed(i)

LEMMA OwnWindow ==
  ASSUME IInv, NEW i \in Ids, Advances(i), Refused(i)
  PROVE  ~Allowed(i)'
<1> USE DEF IInv
<1> DEFINE r == task[i]
<1>1. r \in Task /\ Known(i) BY ChatTyped
<1>2. /\ r.begun /\ r.gen # "none" /\ r.at \in Live
      /\ r.cancel \/ ~(r.gen = "intime" /\ ~r.lapsed)
  BY <1>1 DEF Refused, Allowed, Known
<1> DEFINE Frozen == task'[i].at \in Live => /\ task'[i].gen = r.gen
                                            /\ (r.cancel => task'[i].cancel) /\ (r.lapsed => task'[i].lapsed)
<1>3. Frozen => ~Allowed(i)' BY <1>2 DEF Allowed
<1>4. ASSUME NEW s \in Task, task' = [task EXCEPT ![i] = s], s.gen = r.gen,
             r.cancel => s.cancel, r.lapsed => s.lapsed
      PROVE  Frozen
  BY <1>4 DEF Typed
<1> HIDE DEF Frozen
<1>5. Frozen
  <2>1. CASE Begin(i)
    <3>1. ASSUME NEW st, task' = [task EXCEPT ![i] = [r EXCEPT !.at = "ended", !.status = st]]
          PROVE  Frozen
      BY <1>1, <3>1 DEF Frozen, Typed, Task
    <3>2. ASSUME task' = [task EXCEPT ![i] = [r EXCEPT !.at = "open"]] PROVE Frozen
      BY <1>1, <3>2 DEF Frozen, Typed, Task
    <3> QED BY <2>1, <3>1, <3>2 DEF Begin
  <2>2. CASE Load(i)
    <3>1. PICK t : task' = [task EXCEPT ![i] = [r EXCEPT !.at = "loaded", !.status = "running", !.fork = FALSE, !.thread = t]]
      BY <2>2 DEF Load
    <3> QED BY <1>1, <3>1 DEF Frozen, Typed, Task
  <2>3. CASE Bind(i)
    <3>1. PICK t : task' = [task EXCEPT ![i] = [r EXCEPT !.at = "turn", !.bound = TRUE, !.ready = FALSE, !.thread = t]]
      BY <2>3 DEF Bind
    <3> QED BY <1>1, <3>1 DEF Frozen, Typed, Task
  <2>4. CASE Network(i)
    <3>1. PICK st : task' = [task EXCEPT ![i] = [r EXCEPT !.status = st]] BY <2>4 DEF Network
    <3> QED BY <1>1, <3>1 DEF Frozen, Typed, Task
  <2>5. CASE Save(i)
    <3>1. task' = [task EXCEPT ![i] = [r EXCEPT !.at = "saved", !.kept = TRUE]] BY <2>5 DEF Save
    <3> QED BY <1>1, <3>1 DEF Frozen, Typed, Task
  <2>6. CASE Complete(i)
    <3>1. task' = [task EXCEPT ![i] = [r EXCEPT !.at = "loaded", !.ready = TRUE, !.error = FALSE, !.status = "delivering",
             !.lapsed = r.lapsed /\ r.begun, !.gen = IF r.begun THEN r.gen ELSE IF r.over THEN "late" ELSE "intime"]]
      BY <2>6 DEF Complete
    <3>2. (r.lapsed /\ r.begun) = r.lapsed BY <1>1, <1>2 DEF Task
    <3>3. (IF r.begun THEN r.gen ELSE IF r.over THEN "late" ELSE "intime") = r.gen BY <1>2
    <3>4. task' = [task EXCEPT ![i] = [r EXCEPT !.at = "loaded", !.ready = TRUE, !.error = FALSE, !.status = "delivering",
             !.lapsed = r.lapsed, !.gen = r.gen]]
      BY <3>1, <3>2, <3>3
    <3> QED BY <1>1, <3>4 DEF Frozen, Typed, Task
  <2>7. CASE Fail(i)
    <3>1. ASSUME task' = [task EXCEPT ![i] = [r EXCEPT !.at = "loaded", !.error = TRUE, !.thread = 0, !.kept = TRUE]]
          PROVE  Frozen
      BY <1>1, <3>1 DEF Frozen, Typed, Task
    <3>2. ASSUME task' = [task EXCEPT ![i] = [r EXCEPT !.at = "loaded", !.error = TRUE]] PROVE Frozen
      BY <1>1, <3>2 DEF Frozen, Typed, Task
    <3> QED BY <2>7, <3>1, <3>2 DEF Fail
  <2>8. CASE Finish(i)
    <3>1. PICK st : task' = [task EXCEPT ![i] = [r EXCEPT !.at = "ended", !.status = st]] BY <2>8 DEF Finish
    <3> QED BY <1>1, <3>1 DEF Frozen, Typed, Task
  <2>9. CASE Exit(i) \/ Release(i) \/ SubmitFails(i)
    <3>1. task'[i].at \in {"leaving", "done"} BY <1>1, <2>9, LeftTask DEF Exit, Release, SubmitFails, Typed
    <3> QED BY <3>1 DEF Frozen, Live, Handling
  <2>18. CASE Submit(i)
    <3>1. task' = [task EXCEPT ![i] = [r EXCEPT !.at = "queued"]] BY <2>18 DEF Submit
    <3> QED BY <1>1, <3>1 DEF Frozen, Typed, Task
  <2>10. CASE Check(i)
    <3>1. ASSUME NEW b, NEW e, task' = [task EXCEPT ![i] = [r EXCEPT !.begun = b, !.send = e]] PROVE Frozen
      BY <1>1, <3>1 DEF Frozen, Typed, Task
    <3>2. ASSUME NEW b, task' = [task EXCEPT ![i] = [r EXCEPT !.begun = b, !.send = "none", !.bad = "blocked"]]
          PROVE  Frozen
      BY <1>1, <3>2 DEF Frozen, Typed, Task
    <3> QED BY <2>10, <3>1, <3>2 DEF Check
  <2>11. CASE Call(i)
    <3>1. PICK n : task' = [task EXCEPT ![i] = [r EXCEPT !.send = "called", !.late = n]] BY <2>11 DEF Call
    <3> QED BY <1>1, <3>1 DEF Frozen, Typed, Task
  <2>12. ASSUME NEW st \in {"sent", "failed", "uncertain"}, Settle(i, st) PROVE Frozen
    <3>1. PICK b : task' = [task EXCEPT ![i] = [r EXCEPT !.send = "none", !.bad = b]] BY <2>12 DEF Settle, Record
    <3> QED BY <1>1, <3>1 DEF Frozen, Typed, Task
  <2>13. CASE Detach(i)
    <3>1. task' = [task EXCEPT ![i] = [r EXCEPT !.background = TRUE, !.status = "background"]] BY <2>13 DEF Detach
    <3> QED BY <1>1, <3>1 DEF Frozen, Typed, Task
  <2>14. CASE Cancel(i) BY <1>1, <2>14 DEF Cancel, Frozen, Typed, Task
  <2>15. CASE Expire(i) BY <1>1, <2>15 DEF Expire, Frozen, Typed, Task
  <2>16. CASE Lapse(i) BY <1>1, <2>16 DEF Lapse, Frozen, Typed, Task
  <2>17. ASSUME NEW k \in Parts, Reserve(i, k) PROVE Frozen
    <3>1. task' = [task EXCEPT ![i] = [r EXCEPT !.send = "reserved"]] BY <2>17 DEF Reserve
    <3> QED BY <1>1, <3>1 DEF Frozen, Typed, Task
  <2> QED
    BY <2>1, <2>2, <2>3, <2>4, <2>5, <2>6, <2>7, <2>8, <2>9, <2>10, <2>11, <2>12, <2>13, <2>14, <2>15, <2>16, <2>17, <2>18
    DEF Advances, Step, HandOver
<1> QED BY <1>3, <1>5

LEMMA StepWindow ==
  ASSUME IInv, Next, NEW i \in Ids, Refused(i)
  PROVE  ~Allowed(i)'
<1> USE DEF IInv
<1>1. task[i] \in Task /\ Known(i) BY ChatTyped
<1>2. /\ task[i].begun /\ task[i].gen # "none" /\ task[i].at \in Live
      /\ task[i].cancel \/ ~(task[i].gen = "intime" /\ ~task[i].lapsed)
  BY <1>1 DEF Refused, Allowed, Known
<1>3. ASSUME task'[i] = task[i] PROVE ~Allowed(i)' BY <1>2, <1>3 DEF Allowed
<1>4. ASSUME NEW j \in Ids, Advances(j) PROVE ~Allowed(i)'
  <2>1. CASE j = i BY <1>4, <2>1, OwnWindow
  <2>2. CASE j # i
    <3>1. PICK r : Writes(j, r) BY <1>4, OwnStep
    <3>2. task'[i] = task[i] BY <2>2, <3>1 DEF Writes, Typed
    <3> QED BY <1>3, <3>2
  <2> QED BY <2>1, <2>2
<1>5. ASSUME NEW c \in Chats, NEW m \in Messages, NEW again \in BOOLEAN, Create(c, m, again)
      PROVE  ~Allowed(i)'
  <2>1. i \in Active BY <1>2 DEF Active
  <2>2. i # Next1 BY <1>5, <2>1, CreateFamily
  <2>3. task'[i] = task[i] BY <1>5, <2>2, CreateRow DEF Family
  <2> QED BY <1>3, <2>3
<1>6. CASE \/ \E c \in Chats : Arrive(c) \/ Acquire(c) \/ Recheck(c) \/ Refuse(c) \/ CreateFails(c) \/ Return(c)
           \/ Close \/ Shut
  BY <1>3, <1>6 DEF Arrive, Acquire, Recheck, Refuse, CreateFails, TurnAway, Return, Close, Shut
<1>7. CASE Sweep
  <2>1. i \in Active BY <1>2 DEF Active
  <2>2. task'[i] = [task[i] EXCEPT !.cancel = task[i].cancel \/ i \in Active] BY <1>7 DEF Sweep
  <2>3. task'[i].cancel BY <1>1, <2>1, <2>2 DEF Task
  <2> QED BY <2>3 DEF Allowed
<1>8. CASE Restart
  <2>1. task'[i].at = "lost" BY <1>2, <1>8, RestartRows DEF Holding
  <2> QED BY <2>1 DEF Allowed, Live, Handling
<1> QED BY <1>4, <1>5, <1>6, <1>7, <1>8 DEF Next, Enter, Advances

\* Once delivery began a refusal is for good: completed_result() does not renew
\* the window, and a cancellation is not taken back.
THEOREM WindowsFrozen == Spec => WindowFrozen
<1>1. IInv /\ [Next]_vars => [\A i \in Ids : Refused(i) => ~Allowed(i)']_vars
  BY StepWindow
<1>2. (\A i \in Ids : Refused(i) => ~Allowed(i)') => \A i \in Ids : task[i].begun /\ ~Allowed(i) => ~Allowed(i)'
  BY DEF Refused
<1> QED BY <1>1, <1>2, TasksInvariant, PTL DEF Spec, WindowFrozen

-----------------------------------------------------------------------------
(* The outbox of the tasks implements SendOnce.                            *)

Effects == Ids \X Parts
Tells(o) == CASE o = "failed" -> "uncertain" [] o = "blocked" -> "refused" [] OTHER -> o
Told == [e \in Effects |-> Tells(outbox[e[1]][e[2]])]
Sent == [e \in Effects |-> calls[e[1]][e[2]]]

LEMMA ToldIs ==
  ASSUME NEW i \in Ids, NEW k \in Parts
  PROVE  /\ <<i, k>> \in Effects /\ Sent[<<i, k>>] = calls[i][k]
         /\ Told[<<i, k>>] = Tells(outbox[i][k])
  BY DEF Effects, Told, Sent

\* The part of a task that is being sent.
Sends(i, k) == task[i].send # "none" /\ Sending(i) = {k} /\ outbox[i][k] = "sending"
               /\ calls[i][k] = IF task[i].send = "called" THEN 1 ELSE 0

LEMMA SendsOne ==
  ASSUME NEW i \in Ids, Known(i), task[i].send # "none"
  PROVE  \E k \in Parts : Sends(i, k)
<1>1. PICK k \in Parts : Sending(i) = {k} BY DEF Known
<1>2. outbox[i][k] = "sending" BY <1>1 DEF Sending
<1> QED BY <1>1, <1>2 DEF Known, Sends

\* A step that writes one part writes one effect.
PartWrites(i, k, o, n) == \A j \in Ids, l \in Parts :
    /\ outbox'[j][l] = IF j = i /\ l = k THEN o ELSE outbox[j][l]
    /\ calls'[j][l] = IF j = i /\ l = k THEN n ELSE calls[j][l]

LEMMA EffectWrites ==
  ASSUME NEW i \in Ids, NEW k \in Parts, NEW o, NEW n, PartWrites(i, k, o, n)
  PROVE  /\ Told' = [Told EXCEPT ![<<i, k>>] = Tells(o)]
         /\ Sent' = [Sent EXCEPT ![<<i, k>>] = n]
<1>1. <<i, k>> \in Effects BY DEF Effects
<1>2. \A e \in Effects : e[1] \in Ids /\ e[2] \in Parts /\ (e = <<i, k>> <=> e[1] = i /\ e[2] = k)
  BY DEF Effects
<1>3. \A e \in Effects : /\ outbox'[e[1]][e[2]] = IF e = <<i, k>> THEN o ELSE outbox[e[1]][e[2]]
                         /\ calls'[e[1]][e[2]] = IF e = <<i, k>> THEN n ELSE calls[e[1]][e[2]]
  BY <1>2 DEF PartWrites
<1>4. \A e \in Effects : Told'[e] = IF e = <<i, k>> THEN Tells(o) ELSE Told[e]
  BY <1>3 DEF Told
<1>5. \A e \in Effects : Sent'[e] = IF e = <<i, k>> THEN n ELSE Sent[e]
  BY <1>3 DEF Sent
<1>6. Told' = [e \in Effects |-> Told'[e]] /\ Sent' = [e \in Effects |-> Sent'[e]] BY DEF Told, Sent
<1>7. Told = [e \in Effects |-> Told[e]] /\ Sent = [e \in Effects |-> Sent[e]] BY DEF Told, Sent
<1> HIDE DEF Told, Sent
<1> QED BY <1>1, <1>4, <1>5, <1>6, <1>7

LEMMA PartsSame == ASSUME outbox' = outbox, calls' = calls PROVE Told' = Told /\ Sent' = Sent
  BY DEF Told, Sent

\* The steps of SendOnce, in terms of the parts.
LEMMA OutboxSteps ==
  ASSUME NEW e \in Effects,
         \/ Told[e] = "none" /\ Told' = [Told EXCEPT ![e] = "sending"] /\ Sent' = Sent
         \/ Told[e] = "sending" /\ Sent[e] = 0 /\ Sent' = [Sent EXCEPT ![e] = 1] /\ Told' = Told
         \/ Told[e] = "sending" /\ Sent[e] = 1 /\ Told' = [Told EXCEPT ![e] = "sent"] /\ Sent' = Sent
         \/ Told[e] = "sending" /\ Sent[e] = 0 /\ Told' = [Told EXCEPT ![e] = "refused"] /\ Sent' = Sent
         \/ Told[e] = "sending" /\ Told' = [Told EXCEPT ![e] = "uncertain"] /\ Sent' = Sent
  PROVE  Outbox!Next
<1>1. CASE Told[e] = "none" /\ Told' = [Told EXCEPT ![e] = "sending"] /\ Sent' = Sent
  <2>1. Outbox!Reserve(e) BY <1>1 DEF Outbox!Reserve, Told, Sent, Tells, Effects
  <2> QED BY <2>1 DEF Outbox!Next, Effects
<1>2. CASE Told[e] = "sending" /\ Sent[e] = 0 /\ Sent' = [Sent EXCEPT ![e] = 1] /\ Told' = Told
  <2>1. Outbox!Call(e) BY <1>2 DEF Outbox!Call, Told, Sent, Tells, Effects
  <2> QED BY <2>1 DEF Outbox!Next, Effects
<1>3. CASE Told[e] = "sending" /\ Sent[e] = 1 /\ Told' = [Told EXCEPT ![e] = "sent"] /\ Sent' = Sent
  <2>1. Outbox!Confirm(e) BY <1>3 DEF Outbox!Confirm, Told, Sent, Tells, Effects
  <2> QED BY <2>1 DEF Outbox!Next, Effects
<1>4. CASE Told[e] = "sending" /\ Sent[e] = 0 /\ Told' = [Told EXCEPT ![e] = "refused"] /\ Sent' = Sent
  <2>1. Outbox!Refuse(e) BY <1>4 DEF Outbox!Refuse, Told, Sent, Tells, Effects
  <2> QED BY <2>1 DEF Outbox!Next, Effects
<1>5. CASE Told[e] = "sending" /\ Told' = [Told EXCEPT ![e] = "uncertain"] /\ Sent' = Sent
  <2>1. Told' = [f \in Effects |-> IF f \in {e} THEN "uncertain" ELSE Told[f]] BY <1>5 DEF Told
  <2>2. Outbox!Doubt({e}) BY <1>5, <2>1 DEF Outbox!Doubt, Told, Sent, Tells, Effects
  <2>3. {e} \in SUBSET (Ids \X Parts) BY DEF Effects
  <2> QED BY <2>2, <2>3 DEF Outbox!Next
<1> QED BY <1>1, <1>2, <1>3, <1>4, <1>5

LEMMA AdvanceOutbox ==
  ASSUME IInv, NEW i \in Ids, Advances(i)
  PROVE  Outbox!Next \/ (Told' = Told /\ Sent' = Sent)
<1> USE DEF IInv
<1>1. \A k \in Parts : outbox[i][k] \in Marks /\ calls[i][k] \in Nat BY DEF Typed
<1>2. ASSUME NEW k \in Parts, Reserve(i, k) PROVE Outbox!Next
  <2>1. outbox[i][k] = "none" /\ outbox' = [outbox EXCEPT ![i][k] = "sending"] /\ calls' = calls
    BY <1>2 DEF Reserve
  <2>2. PartWrites(i, k, "sending", calls[i][k]) BY <2>1 DEF PartWrites, Typed
  <2>3. Told' = [Told EXCEPT ![<<i, k>>] = Tells("sending")] BY <2>2, EffectWrites
  <2>4. Told[<<i, k>>] = "none" /\ <<i, k>> \in Effects BY <2>1, ToldIs DEF Tells
  <2>5. Sent' = Sent BY <2>1 DEF Sent
  <2>6. Tells("sending") = "sending" BY DEF Tells
  <2> QED BY <2>3, <2>4, <2>5, <2>6, OutboxSteps
<1>3. ASSUME NEW o \in {"sent", "failed", "uncertain", "blocked"}, task[i].send # "none",
             o = "sent" => task[i].send = "called", o = "blocked" => task[i].send # "called",
             outbox' = [outbox EXCEPT ![i] = [k \in Parts |-> IF k \in Sending(i) THEN o ELSE outbox[i][k]]],
             calls' = calls
      PROVE  Outbox!Next
  <2>1. PICK k \in Parts : Sends(i, k) BY <1>3, SendsOne
  <2>2. PartWrites(i, k, o, calls[i][k]) BY <1>3, <2>1 DEF Sends, PartWrites, Typed
  <2>3. Told' = [Told EXCEPT ![<<i, k>>] = Tells(o)] BY <2>2, EffectWrites
  <2>4. Sent' = Sent BY <1>3 DEF Sent
  <2>5. /\ <<i, k>> \in Effects /\ Told[<<i, k>>] = "sending"
        /\ Sent[<<i, k>>] = IF task[i].send = "called" THEN 1 ELSE 0
    BY <2>1, ToldIs DEF Sends, Tells
  <2>6. CASE o = "sent"
    <3>1. Tells(o) = "sent" BY <2>6 DEF Tells
    <3> QED BY <1>3, <2>3, <2>4, <2>5, <2>6, <3>1, OutboxSteps
  <2>7. CASE o = "blocked"
    <3>1. Tells(o) = "refused" BY <2>7 DEF Tells
    <3> QED BY <1>3, <2>3, <2>4, <2>5, <2>7, <3>1, OutboxSteps
  <2>8. CASE o \in {"failed", "uncertain"}
    <3>1. Tells(o) = "uncertain" BY <2>8 DEF Tells
    <3> QED BY <2>3, <2>4, <2>5, <3>1, OutboxSteps
  <2> QED BY <2>6, <2>7, <2>8
<1>4. ASSUME outbox' = outbox, calls' = calls PROVE Told' = Told /\ Sent' = Sent BY <1>4, PartsSame
<1>5. CASE Check(i)
  <2>1. CASE Allowed(i) BY <1>4, <1>5, <2>1 DEF Check
  <2>2. CASE ~Allowed(i)
    <3>1. /\ task[i].send \in {"reserved", "admitted"} /\ calls' = calls
          /\ outbox' = [outbox EXCEPT ![i] = [k \in Parts |-> IF k \in Sending(i) THEN "blocked" ELSE outbox[i][k]]]
      BY <1>5, <2>2 DEF Check, Typed
    <3> QED BY <1>3, <3>1
  <2> QED BY <2>1, <2>2
<1>6. CASE Call(i)
  <2>1. /\ task[i].send = "entered" /\ outbox' = outbox
        /\ calls' = [calls EXCEPT ![i] = [k \in Parts |-> IF k \in Sending(i) THEN calls[i][k] + 1 ELSE calls[i][k]]]
    BY <1>6 DEF Call, Typed
  <2>2. PICK k \in Parts : Sends(i, k) BY <2>1, SendsOne
  <2>3. PartWrites(i, k, "sending", 1) BY <1>1, <2>1, <2>2 DEF Sends, PartWrites, Typed
  <2>4. Sent' = [Sent EXCEPT ![<<i, k>>] = 1] BY <2>3, EffectWrites
  <2>5. Told' = Told BY <2>1 DEF Told
  <2>6. <<i, k>> \in Effects /\ Told[<<i, k>>] = "sending" /\ Sent[<<i, k>>] = 0
    BY <2>1, <2>2, ToldIs DEF Sends, Tells
  <2> QED BY <2>4, <2>5, <2>6, OutboxSteps
<1>7. ASSUME NEW st \in {"sent", "failed", "uncertain"}, Settle(i, st) PROVE Outbox!Next
  <2>1. /\ outbox' = [outbox EXCEPT ![i] = [k \in Parts |-> IF k \in Sending(i) THEN st ELSE outbox[i][k]]]
        /\ calls' = calls
    BY <1>7 DEF Settle, Record, Typed
  <2>2. task[i].send # "none" /\ (st = "sent" => task[i].send = "called") BY <1>7 DEF Settle
  <2> QED BY <1>3, <2>1, <2>2
<1>8. CASE Begin(i) \/ Load(i) \/ Bind(i) \/ Save(i) \/ Complete(i) \/ Fail(i) \/ Finish(i) \/ Exit(i)
           \/ Release(i) \/ Submit(i) \/ SubmitFails(i)
           \/ Network(i) \/ Detach(i) \/ Cancel(i) \/ Expire(i) \/ Lapse(i)
  BY <1>4, <1>8 DEF Begin, Load, Bind, Save, Complete, Fail, Finish, Exit, Release, Submit, SubmitFails, Network, Detach, Cancel, Expire, Lapse
<1> QED BY <1>2, <1>5, <1>6, <1>7, <1>8 DEF Advances, Step, HandOver

LEMMA RestartOutbox == ASSUME IInv, Restart PROVE Outbox!Next
<1> PICK E : E = {e \in Effects : Told[e] = "sending"} OBVIOUS
<1>1. outbox' = [i \in Ids |-> [k \in Parts |-> IF k \in Sending(i) THEN "uncertain" ELSE outbox[i][k]]] /\ calls' = calls
  BY DEF Restart, Renewed
<1>2. ASSUME NEW e \in Effects PROVE Told'[e] = IF e \in E THEN "uncertain" ELSE Told[e]
  <2>1. PICK i \in Ids, k \in Parts : e = <<i, k>> BY DEF Effects
  <2>2. outbox'[i][k] = IF outbox[i][k] = "sending" THEN "uncertain" ELSE outbox[i][k] BY <1>1 DEF Sending
  <2>3. outbox[i][k] \in Marks BY DEF IInv, Typed
  <2>4. Told[e] = Tells(outbox[i][k]) /\ Told'[e] = Tells(outbox'[i][k]) BY <2>1 DEF Told
  <2>5. e \in E <=> outbox[i][k] = "sending" BY <2>3, <2>4 DEF Tells, Marks
  <2> QED BY <2>2, <2>4, <2>5 DEF Tells
<1>3. Told' = [e \in Effects |-> IF e \in E THEN "uncertain" ELSE Told[e]]
  <2>1. Told' = [e \in Effects |-> Told'[e]] BY DEF Told
  <2> QED BY <1>2, <2>1
<1>4. Sent' = Sent BY <1>1 DEF Sent
<1>5. \A e \in E : Told[e] = "sending" OBVIOUS
<1>6. E \in SUBSET Effects OBVIOUS
<1>7. Outbox!Doubt(E) BY <1>3, <1>4, <1>5 DEF Outbox!Doubt, Told, Sent, Tells, Effects
<1>8. E \in SUBSET (Ids \X Parts) BY <1>6 DEF Effects
<1> QED BY <1>7, <1>8 DEF Outbox!Next

\* TaskStore.delivery() and recover() implement SendOnce: reservations, calls,
\* refusals and results of the parts are its steps, and a restart puts every
\* part that was being sent in doubt.
THEOREM TasksImplementOutbox == Spec => OutboxSpec
<1>1. Init => Outbox!Init
  <2> SUFFICES ASSUME Init PROVE Outbox!Init OBVIOUS
  <2>1. \A e \in Ids \X Parts : outbox[e[1]][e[2]] = "none" /\ calls[e[1]][e[2]] = 0 BY DEF Init
  <2> QED BY <2>1 DEF Outbox!Init
<1>2. IInv /\ [Next]_vars => [Outbox!Next]_<<Told, Sent>>
  <2> SUFFICES ASSUME IInv, [Next]_vars PROVE Outbox!Next \/ (Told' = Told /\ Sent' = Sent)
    OBVIOUS
  <2>1. ASSUME outbox' = outbox, calls' = calls PROVE Told' = Told /\ Sent' = Sent BY <2>1, PartsSame
  <2>2. CASE \/ \E c \in Chats : Arrive(c) \/ Enter(c) \/ Return(c)
             \/ Close \/ Sweep \/ Shut \/ UNCHANGED vars
    BY <2>1, <2>2 DEF Arrive, Enter, Acquire, Recheck, Refuse, CreateFails, TurnAway, Create, Return,
                      Close, Sweep, Shut, vars
  <2> QED BY <2>2, AdvanceOutbox, RestartOutbox DEF Next, Advances
<1>3. IInv /\ [Next]_vars => [Outbox!Next]_<<[e \in Ids \X Parts |-> CASE outbox[e[1]][e[2]] = "failed" -> "uncertain"
                                                [] outbox[e[1]][e[2]] = "blocked" -> "refused"
                                                [] OTHER -> outbox[e[1]][e[2]]],
                                             [e \in Ids \X Parts |-> calls[e[1]][e[2]]]>>
  BY <1>2 DEF Told, Sent, Tells, Effects
<1> QED BY <1>1, <1>3, TasksInvariant, PTL DEF Spec, OutboxSpec, Outbox!Spec

\* The transport is never called twice for a part of a task, and never for one
\* that was refused.
THEOREM TasksSendOnce == Spec => []Outbox!AtMostOnce
<1>1. Outbox!Spec => []Outbox!AtMostOnce BY Outbox!SendsOnce
<1> QED BY <1>1, TasksImplementOutbox, PTL DEF OutboxSpec
==============================================================================
