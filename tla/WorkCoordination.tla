-------------------------- MODULE WorkCoordination --------------------------
(***************************************************************************)
(* Shared work of a chat (src/app/services/work_coordination.py): claims   *)
(* of an identity (chat, capability, subject, parameters), leases, the end *)
(* of an execution and the operation around it, reclassification, and the  *)
(* delivery slots of a row.  One action is one database transaction, or    *)
(* the one call of the transport between two of them.                      *)
(*                                                                         *)
(* Rows are numbered in the order of their creation, so "ORDER BY created  *)
(* DESC LIMIT 1" is the largest number.  Time is two facts of a row: live  *)
(* (lease_until is ahead) and fresh (it completed, and its reusable_until  *)
(* is ahead; no claim looks at that of a row in another status).           *)
(***************************************************************************)
EXTENDS Naturals, FiniteSets, FiniteSetsExt

CONSTANTS Workers,   \* threads that execute work or send for it
          Tasks,     \* identities claimed for an execution
          Replies,   \* identities of tracked_send: one reply to one message
          Slots,     \* logical effects of a row
          MaxRows,   \* bound on the rows of shared_work
          None

ASSUME CoordinationAssumption ==
    /\ MaxRows \in Nat /\ Tasks \cap Replies = {}
    /\ None \notin Slots /\ None \notin Tasks \cup Replies

Identities == Tasks \cup Replies
Rows == 1..MaxRows
Ends == {"completed", "failed", "cancelled"}

VARIABLES work,      \* shared_work
          delivery,  \* shared_deliveries: the status of each slot of each row
          calls,     \* history: calls of the transport for each slot
          job,       \* what each worker is doing
          moved      \* history: the rows reclassify() changed
vars == <<work, delivery, calls, job, moved>>

Absent == [identity |-> None, status |-> "none", live |-> FALSE, fresh |-> FALSE]
Idle == [at |-> "idle", row |-> 0, slot |-> None, role |-> "none"]
Entry == [identity : Identities \cup {None}, live : BOOLEAN, fresh : BOOLEAN,
          status : Ends \cup {"none", "running", "interrupted"}]
Job == [at : Ends \cup {"idle", "working", "sending", "called"}, row : Rows \cup {0},
        slot : Slots \cup {None}, role : {"none", "owner", "reply", "courier"}]

TypeOK == /\ work \in [Rows -> Entry] /\ job \in [Workers -> Job] /\ moved \in SUBSET Rows
          /\ delivery \in [Rows -> [Slots -> {"none", "sending", "sent", "uncertain"}]]
          /\ calls \in [Rows -> [Slots -> Nat]]
          /\ \A p \in Workers : job[p] # Idle => job[p].row # 0 /\ work[job[p].row].status # "none"

Init == /\ work = [w \in Rows |-> Absent]
        /\ delivery = [w \in Rows |-> [s \in Slots |-> "none"]]
        /\ calls = [w \in Rows |-> [s \in Slots |-> 0]]
        /\ job = [p \in Workers |-> Idle] /\ moved = {}

-----------------------------------------------------------------------------
Used == {w \in Rows : work[w].status # "none"}
Of(i) == {w \in Rows : work[w].identity = i}
Newest(i) == Max(Of(i) \cup {0})
Unresolved(w) == w # 0 /\ \E s \in Slots : delivery[w][s] \in {"sending", "uncertain"}

\* What claim() finds: the newest row, a lapsed lease already marked.
Found(i) == LET w == Newest(i) IN
    IF w = 0 THEN "none"
    ELSE IF work[w].status = "running" /\ ~work[w].live THEN "interrupted" ELSE work[w].status

\* A fault: an uncertain send no longer keeps the identity.
NotReusableFault(i, force) == LET w == Newest(i) IN
    /\ Found(i) # "running"
    /\ force \/ ~(Found(i) = "interrupted" \/ (Found(i) = "completed" /\ work[w].fresh))
\* A fault: a running row is joined only when no new attempt was asked for.
StealingFault(i, force) == LET w == Newest(i) IN
    /\ ~Unresolved(w)
    /\ force \/ ~(Found(i) \in {"running", "interrupted"} \/ (Found(i) = "completed" /\ work[w].fresh))
\* The caller executes the work: nobody owns it, no send of it is uncertain,
\* and there is no result to reuse (or a new attempt was asked for).
Acquires(i, force) == LET w == Newest(i) IN
    /\ Found(i) # "running" /\ ~Unresolved(w)
    /\ force \/ ~(Found(i) = "interrupted" \/ (Found(i) = "completed" /\ work[w].fresh))

\* A failed or cancelled row is executed again, with its confirmed deliveries.
Target(i, force) == IF ~Acquires(i, force) \/ (Found(i) \in {"failed", "cancelled"} /\ ~force)
                    THEN Newest(i) ELSE Cardinality(Used) + 1

\* claim(): the caller's row is Target, in one transaction.
Admit(i, force) ==
    /\ Target(i, force) \in Rows
    /\ work' = [w \in Rows |->
         IF w = Target(i, force) /\ Acquires(i, force)
         THEN [identity |-> i, status |-> "running", live |-> TRUE, fresh |-> work[w].fresh]
         ELSE IF w = Newest(i) THEN [work[w] EXCEPT !.status = Found(i)] ELSE work[w]]

\* update(): not fenced by owner; every call renews the lease.
Status(w, st) == [work EXCEPT ![w].status = st, ![w].live = TRUE,
                              ![w].fresh = @ \/ (st = "completed" /\ work[w].status # "completed")]

-----------------------------------------------------------------------------
\* claim() and the start of run(); a caller that joins goes away.
Claim(p, i, force) ==
    /\ job[p] = Idle /\ i \in Tasks /\ Admit(i, force)
    /\ job' = IF Acquires(i, force)
              THEN [job EXCEPT ![p] = [Idle EXCEPT !.at = "working", !.row = Target(i, force), !.role = "owner"]]
              ELSE job
    /\ UNCHANGED <<delivery, calls, moved>>

\* tracked_send() without a scope claims the reply and sends whoever owns it.
Observe(p, i) ==
    /\ job[p] = Idle /\ i \in Replies /\ Admit(i, FALSE)
    /\ job' = [job EXCEPT ![p] = [Idle EXCEPT !.at = "working", !.row = Target(i, FALSE), !.role = "reply"]]
    /\ UNCHANGED <<delivery, calls, moved>>

\* A fault: the row of a redelivery is used without looking whether it exists.
FetchFault(p, w) ==
    /\ job[p] = Idle /\ work[w].identity \notin Replies /\ work[w].status # "running"
    /\ job' = [job EXCEPT ![p] = [Idle EXCEPT !.at = "working", !.row = w, !.role = "courier"]]
    /\ UNCHANGED <<work, delivery, calls, moved>>
\* A kept result is sent again in the scope of its row.
Fetch(p, w) ==
    /\ job[p] = Idle /\ w \in Used /\ work[w].identity \in Tasks /\ work[w].status # "running"
    /\ job' = [job EXCEPT ![p] = [Idle EXCEPT !.at = "working", !.row = w, !.role = "courier"]]
    /\ UNCHANGED <<work, delivery, calls, moved>>

\* The heartbeat of run().
Beat(p) ==
    /\ job[p].role = "owner" /\ job[p].at \in {"working", "sending", "called"} /\ ~work[job[p].row].live
    /\ work' = [work EXCEPT ![job[p].row].live = TRUE]
    /\ UNCHANGED <<delivery, calls, job, moved>>

\* deliver() came back: a reply closes its row, a courier is done.
Resume(p) ==
    /\ job' = [job EXCEPT ![p] = IF @.role = "owner" THEN [@ EXCEPT !.at = "working", !.slot = None] ELSE Idle]
    /\ work' = IF job[p].role = "reply" THEN Status(job[p].row, "completed") ELSE work

\* A fault: an uncertain slot is reserved again.
RetryFault(p, s) ==
    /\ job[p].at = "working" /\ delivery[job[p].row][s] \in {"none", "uncertain"}
    /\ delivery' = [delivery EXCEPT ![job[p].row][s] = "sending"]
    /\ job' = [job EXCEPT ![p].at = "sending", ![p].slot = s]
    /\ UNCHANGED <<work, calls, moved>>
\* deliver(): the slot is reserved before the transport is called.
Reserve(p, s) ==
    /\ job[p].at = "working" /\ delivery[job[p].row][s] = "none"
    /\ delivery' = [delivery EXCEPT ![job[p].row][s] = "sending"]
    /\ job' = [job EXCEPT ![p].at = "sending", ![p].slot = s]
    /\ UNCHANGED <<work, calls, moved>>

\* deliver(): a slot that was reserved before is not sent again.
Reuse(p, s) ==
    /\ job[p].at = "working" /\ delivery[job[p].row][s] # "none" /\ Resume(p)
    /\ UNCHANGED <<delivery, calls, moved>>

Call(p) ==
    /\ job[p].at = "sending"
    /\ calls' = [calls EXCEPT ![job[p].row][job[p].slot] = @ + 1]
    /\ job' = [job EXCEPT ![p].at = "called"]
    /\ UNCHANGED <<work, delivery, moved>>

\* send() returned: True is a confirmation, False is not proof of failure.
Settle(p, st) ==
    /\ job[p].at = "called" /\ st \in {"sent", "uncertain"} /\ Resume(p)
    /\ delivery' = [delivery EXCEPT ![job[p].row][job[p].slot] = st]
    /\ UNCHANGED <<calls, moved>>

\* send() raised, before or after its effect.
Raise(p) ==
    /\ job[p].at \in {"sending", "called"}
    /\ delivery' = [delivery EXCEPT ![job[p].row][job[p].slot] = "uncertain"]
    /\ job' = [job EXCEPT ![p] = IF @.role = "owner" THEN [@ EXCEPT !.at = "working", !.slot = None] ELSE Idle]
    /\ UNCHANGED <<work, calls, moved>>

\* The target returned or raised: run() writes the status.
End(p, st) ==
    /\ job[p].at = "working" /\ job[p].role = "owner" /\ st \in Ends
    /\ work' = Status(job[p].row, st)
    /\ job' = [job EXCEPT ![p].at = st]
    /\ UNCHANGED <<delivery, calls, moved>>

\* The operation around run() ends: it writes its own status again unless it
\* completed (a cancellation may arrive after the target returned).
Close(p) ==
    /\ job[p].at \in Ends
    /\ \/ job[p].at = "completed" /\ work' = work
       \/ \E st \in {"failed", "cancelled"} : /\ job[p].at \in {"completed", st}
                                              /\ work' = Status(job[p].row, st)
    /\ job' = [job EXCEPT ![p] = Idle]
    /\ UNCHANGED <<delivery, calls, moved>>

\* A resolver discovers that the work has another identity.
Reclassify(p, i) ==
    /\ job[p].at = "working" /\ job[p].role = "owner" /\ i \in Tasks \ {work[job[p].row].identity}
    /\ \A w \in Of(i) : work[w].status # "running"
    /\ work' = [work EXCEPT ![job[p].row].identity = i]
    /\ moved' = moved \cup {job[p].row}
    /\ UNCHANGED <<delivery, calls, job>>

-----------------------------------------------------------------------------
\* Time: thirty minutes without a heartbeat (a sleeping machine, a stopped
\* process), and the end of the time a result is reused.
Lapse(w) == /\ work[w].status = "running" /\ work[w].live
            /\ work' = [work EXCEPT ![w].live = FALSE]
            /\ UNCHANGED <<delivery, calls, job, moved>>
Age(w) == /\ work[w].fresh /\ work' = [work EXCEPT ![w].fresh = FALSE]
          /\ UNCHANGED <<delivery, calls, job, moved>>
\* The process ends; the rows stay as they are.
Crash == /\ \E p \in Workers : job[p] # Idle
         /\ job' = [p \in Workers |-> Idle]
         /\ UNCHANGED <<work, delivery, calls, moved>>

Send(p) == \/ \E s \in Slots : Reserve(p, s) \/ Reuse(p, s)
           \/ Call(p) \/ Raise(p) \/ \E st \in {"sent", "uncertain"} : Settle(p, st)
Next == \/ \E p \in Workers, i \in Identities, force \in BOOLEAN : Claim(p, i, force)
        \/ \E p \in Workers, i \in Identities : Observe(p, i) \/ Reclassify(p, i)
        \/ \E p \in Workers, w \in Rows : Fetch(p, w)
        \/ \E p \in Workers : Send(p) \/ Beat(p) \/ Close(p) \/ \E st \in Ends : End(p, st)
        \/ \E w \in Rows : Lapse(w) \/ Age(w)
        \/ Crash
Spec == Init /\ [][Next]_vars

-----------------------------------------------------------------------------
\* The docstring of deliver(): "Reserve a logical effect; never retry a send
\* whose outcome is unknown": the slots of the rows implement SendOnce.
Outbox == INSTANCE SendOnce WITH Effects <- Rows \X Slots,
              outcome <- [e \in Rows \X Slots |-> delivery[e[1]][e[2]]],
              sends <- [e \in Rows \X Slots |-> calls[e[1]][e[2]]]
OutboxSpec == Outbox!Spec

\* Claims alone never give an identity two running rows, whatever lapses,
\* crashes, late updates and forced attempts come between; reclassify() is
\* the only way to a second one.
OneRunningRow == \A v, w \in Used \ moved :
    v # w /\ work[v].identity = work[w].identity => "running" \notin {work[v].status} \cap {work[w].status}

\* While a send of an identity's newest row is unresolved, no claim starts the
\* work again, neither in that row nor in a newer one.
UncertainHolds == [][\A i \in Identities :
    Unresolved(Newest(i)) /\ (\A w \in Used : work'[w].identity = work[w].identity)
      => /\ Newest(i)' = Newest(i)
         /\ work'[Newest(i)].status = "running" => work[Newest(i)].status = "running"]_vars

\* "An active owner or an uncertain send must never be stolen by force": two
\* workers never execute one identity while both rows say running.
ActiveOwnerKept == \A p, q \in Workers :
    LET Executes(x) == job[x].role = "owner" /\ job[x].at \in {"working", "sending", "called"}
                       /\ work[job[x].row].status = "running"
    IN  p # q /\ Executes(p) /\ Executes(q) => work[job[p].row].identity # work[job[q].row].identity
=============================================================================
