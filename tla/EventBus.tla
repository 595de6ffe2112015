------------------------------ MODULE EventBus ------------------------------
(***************************************************************************)
(* The per-chat queues and workers of the event bus                        *)
(* (src/app/core/event_bus.py): the ingress numbers, the creation of a     *)
(* queue with its worker, the enqueueing by the processor and by other     *)
(* threads, the worker loop, its own cleanup when idle, the cleanup of     *)
(* idle workers when there are too many, and stop().                       *)
(*                                                                         *)
(* Queues are numbered in the order of their creation and a worker has the *)
(* number of the queue it was created with; it looks the chat's queue up   *)
(* again every time round.  Events are numbered in the order of their      *)
(* publication.  Time is one fact of a chat: quiet (no activity for five   *)
(* minutes).                                                               *)
(***************************************************************************)
EXTENDS Naturals, Sequences, FiniteSets, Functions

CONSTANTS Chats,
          Processor,   \* the task that publishes what the bot received
          Timers,      \* threads that publish approved follow-ups
          MaxReceived, MaxFollowups,   \* bounds on what they publish
          MaxUsers,    \* _max_concurrent_users
          QueueSize,   \* _user_queue_maxsize
          None

ASSUME BusAssumption == /\ {MaxReceived, MaxFollowups, MaxUsers, QueueSize} \subseteq Nat
                        /\ Processor \notin Timers /\ None \notin Chats /\ IsFiniteSet(Timers)

Publishers == Timers \cup {Processor}
\* An event creates at most one queue.
Queues == 1..(MaxReceived + Cardinality(Timers) * MaxFollowups)

VARIABLES events,      \* history: what was published, and what became of it
          box,         \* _user_queues: the chat's queue, 0 for none
          queue,       \* the content of each queue
          unfinished,  \* its count of unfinished tasks
          worker,      \* the worker created with each queue
          quiet,       \* the chats without activity for the idle timeout
          publisher,   \* what each publisher is doing
          bus, joined, \* stop(): its phase, and the queues still to join
          order,       \* history: the events that were put, in that order
          mark,        \* history: the events published before stop()
          reaped,      \* history: the chats whose worker was cleaned up by another thread
          spoiled      \* history: a task was never marked as done
vars == <<events, box, queue, unfinished, worker, quiet, publisher, bus, joined, order, mark, reaped, spoiled>>

Idle == [at |-> "idle", event |-> 0]
Unborn == [at |-> "unborn", chat |-> None, queue |-> 0, event |-> 0]
Ids == 1..Len(events)

TypeOK == /\ \A e \in Ids : events[e] \in [chat : Chats, by : Publishers,
                 state : {"published", "queued", "handling", "handled", "dropped", "lost", "stranded", "late"}]
          /\ box \in [Chats -> {0} \cup Queues] /\ unfinished \in [Queues -> Nat] /\ quiet \subseteq Chats
          /\ \A q \in Queues : Len(queue[q]) <= QueueSize /\ Range(queue[q]) \subseteq Ids
          /\ \A w \in Queues : /\ worker[w].at \in {"unborn", "poll", "get", "busy", "expired", "gone"}
                               /\ worker[w].at # "unborn" <=> worker[w].chat # None
                               /\ worker[w].at = "busy" => events[worker[w].event].chat = worker[w].chat
          /\ \A p \in Publishers : publisher[p].at \in {"idle", "create", "put"}
          /\ bus \in {"running", "draining", "joining", "stopped"} /\ joined \subseteq Queues
          /\ \A c \in Chats : box[c] # 0 => worker[box[c]].chat = c

Init == /\ events = <<>> /\ box = [c \in Chats |-> 0] /\ queue = [q \in Queues |-> <<>>]
        /\ unfinished = [q \in Queues |-> 0] /\ worker = [w \in Queues |-> Unborn] /\ quiet = {}
        /\ publisher = [p \in Publishers |-> Idle] /\ bus = "running" /\ joined = {}
        /\ order = <<>> /\ mark = 0 /\ reaped = {} /\ spoiled = FALSE

-----------------------------------------------------------------------------
Chat(p) == events[publisher[p].event].chat
Mark(e, st) == [events EXCEPT ![e].state = st]
Open == {c \in Chats : box[c] # 0}
Created == Cardinality({w \in Queues : worker[w].at # "unborn"})
BusKept == UNCHANGED <<bus, joined, mark>>
Stopping == UNCHANGED order /\ BusKept
\* A new worker begins its loop unless the bus has stopped.
Born(c, q) == [at |-> IF bus = "stopped" THEN "gone" ELSE "get", chat |-> c, queue |-> q, event |-> 0]

\* publish() and _enqueue_user_event(): the event gets its number, the queue is
\* looked up without the lock (the processor takes its next event when the
\* last one is published; a follow-up comes of a message that was handled).
Publish(p, c) ==
    /\ publisher[p] = Idle /\ (p = Processor => bus # "stopped")
    /\ p \in Timers => \E e \in Ids : events[e].chat = c /\ events[e].by = Processor /\ events[e].state = "handled"
    /\ Cardinality({e \in Ids : events[e].by = p}) < IF p = Processor THEN MaxReceived ELSE MaxFollowups
    /\ events' = Append(events, [chat |-> c, by |-> p, state |-> "published"])
    /\ publisher' = [publisher EXCEPT
           ![p] = [at |-> IF c \in Open THEN "put" ELSE "create", event |-> Len(events) + 1]]
    /\ quiet' = quiet \ {c}
    /\ UNCHANGED <<box, queue, unfinished, worker, reaped, spoiled>> /\ Stopping

\* A fault: a queue is created whether or not the chat has one.
CreateFault(p) ==
    /\ publisher[p].at = "create"
    /\ publisher' = [publisher EXCEPT ![p].at = "put"] /\ quiet' = quiet \ {Chat(p)}
    /\ box' = [box EXCEPT ![Chat(p)] = Created + 1]
    /\ worker' = [worker EXCEPT ![Created + 1] = Born(Chat(p), Created + 1)]
    /\ UNCHANGED <<events, queue, unfinished, reaped, spoiled>> /\ Stopping
\* _create_user_queue(), under the lock: too many workers clean the quiet
\* chats up first, whether their workers are idle or busy; the limit itself
\* refuses nobody.
Create(p) ==
    /\ publisher[p].at = "create"
    /\ publisher' = [publisher EXCEPT ![p].at = "put"]
    /\ LET gone == {c \in Open \cap quiet : Cardinality(Open) >= MaxUsers /\ queue[box[c]] = <<>>}
           new == Chat(p) \notin Open \ gone
       IN  /\ box' = [c \in Chats |-> IF c = Chat(p) /\ new THEN Created + 1 ELSE IF c \in gone THEN 0 ELSE box[c]]
           /\ worker' = [w \in Queues |-> IF new /\ w = Created + 1 THEN Born(Chat(p), w) ELSE worker[w]]
           /\ reaped' = reaped \cup gone /\ quiet' = quiet \ (gone \cup {Chat(p)})
    /\ UNCHANGED <<events, queue, unfinished, spoiled>> /\ Stopping

\* A fault: a full queue takes the event.
PutFault(p) ==
    /\ publisher[p].at = "put" /\ publisher' = [publisher EXCEPT ![p] = Idle]
    /\ LET e == publisher[p].event q == box[Chat(p)] IN
       \/ /\ q # 0 /\ queue' = [queue EXCEPT ![q] = Append(@, e)] /\ unfinished' = [unfinished EXCEPT ![q] = @ + 1]
          /\ events' = Mark(e, "queued") /\ order' = Append(order, e) /\ UNCHANGED spoiled
       \/ /\ q = 0 /\ events' = Mark(e, "lost") /\ spoiled' = (spoiled \/ p = Processor)
          /\ UNCHANGED <<order, queue, unfinished>>
    /\ UNCHANGED <<box, worker, quiet, reaped>> /\ BusKept
\* The event is put after the preparations: the queue may be full by then (the
\* event is dropped) or gone (publish() raises; what the processor published
\* is then never marked as done).
Put(p) ==
    /\ publisher[p].at = "put" /\ publisher' = [publisher EXCEPT ![p] = Idle]
    /\ LET e == publisher[p].event q == box[Chat(p)] IN
       \/ /\ q # 0 /\ Len(queue[q]) < QueueSize
          /\ queue' = [queue EXCEPT ![q] = Append(@, e)] /\ unfinished' = [unfinished EXCEPT ![q] = @ + 1]
          /\ events' = Mark(e, "queued") /\ order' = Append(order, e) /\ UNCHANGED spoiled
       \/ /\ q # 0 /\ Len(queue[q]) = QueueSize
          /\ events' = Mark(e, "dropped") /\ UNCHANGED <<order, queue, unfinished, spoiled>>
       \/ /\ q = 0 /\ events' = Mark(e, "lost") /\ spoiled' = (spoiled \/ p = Processor)
          /\ UNCHANGED <<order, queue, unfinished>>
    /\ UNCHANGED <<box, worker, quiet, reaped>> /\ BusKept

-----------------------------------------------------------------------------
\* _user_worker(): the next round takes the queue the chat has now; without one
\* the KeyError is logged and the round begins again.
Round(w) == LET q == box[worker[w].chat] IN
    [worker[w] EXCEPT !.at = IF bus = "stopped" THEN "gone" ELSE IF q = 0 THEN "poll" ELSE "get",
                      !.queue = IF bus = "stopped" THEN 0 ELSE q, !.event = 0]
Poll(w) ==
    /\ worker[w].at = "poll" /\ worker' = [worker EXCEPT ![w] = Round(w)]
    /\ UNCHANGED <<events, box, queue, unfinished, quiet, publisher, reaped, spoiled>> /\ Stopping

\* A fault: the task is marked as done when it is taken.
TakeFault(w) ==
    /\ worker[w].at = "get" /\ queue[worker[w].queue] # <<>>
    /\ LET q == worker[w].queue e == Head(queue[q]) IN
       /\ queue' = [queue EXCEPT ![q] = Tail(@)] /\ events' = Mark(e, "handling")
       /\ worker' = [worker EXCEPT ![w].at = "busy", ![w].event = e]
       /\ unfinished' = [unfinished EXCEPT ![q] = @ - 1]
    /\ quiet' = quiet \ {worker[w].chat}
    /\ UNCHANGED <<box, publisher, reaped, spoiled>> /\ Stopping
Take(w) ==
    /\ worker[w].at = "get" /\ queue[worker[w].queue] # <<>>
    /\ LET q == worker[w].queue e == Head(queue[q]) IN
       /\ queue' = [queue EXCEPT ![q] = Tail(@)] /\ events' = Mark(e, "handling")
       /\ worker' = [worker EXCEPT ![w].at = "busy", ![w].event = e]
    /\ quiet' = quiet \ {worker[w].chat}
    /\ UNCHANGED <<box, unfinished, publisher, reaped, spoiled>> /\ Stopping

\* get() timed out: a quiet chat's worker decides to go.
Timeout(w) ==
    /\ worker[w].at = "get" /\ queue[worker[w].queue] = <<>>
    /\ worker' = [worker EXCEPT ![w] = IF worker[w].chat \in quiet THEN [@ EXCEPT !.at = "expired", !.queue = 0] ELSE Round(w)]
    /\ UNCHANGED <<events, box, queue, unfinished, quiet, publisher, reaped, spoiled>> /\ Stopping

\* A fault: the task is not marked as done.
DoneFault(w) ==
    /\ worker[w].at = "busy" /\ events' = Mark(worker[w].event, "handled")
    /\ worker' = [worker EXCEPT ![w] = Round(w)]
    /\ UNCHANGED <<box, queue, unfinished, quiet, publisher, reaped, spoiled>> /\ Stopping
\* The event was handled: the task is done in the queue the chat has now.
Done(w) ==
    /\ worker[w].at = "busy" /\ events' = Mark(worker[w].event, "handled")
    /\ worker' = [worker EXCEPT ![w] = Round(w)]
    /\ LET q == box[worker[w].chat] IN
       /\ unfinished' = IF q = 0 \/ unfinished[q] = 0 THEN unfinished ELSE [unfinished EXCEPT ![q] = @ - 1]
       /\ spoiled' = (spoiled \/ q # worker[w].queue)
    /\ UNCHANGED <<box, queue, quiet, publisher, reaped>> /\ Stopping
\* The processing itself raised: the task is never marked as done.
Raise(w) ==
    /\ worker[w].at = "busy" /\ events' = Mark(worker[w].event, "handled") /\ spoiled' = TRUE
    /\ worker' = [worker EXCEPT ![w] = Round(w)]
    /\ UNCHANGED <<box, queue, unfinished, quiet, publisher, reaped>> /\ Stopping

\* What is in a queue that is deleted.
Strand(qs, st) == /\ events' = [e \in Ids |-> IF \E q \in qs : e \in Range(queue[q])
                                          THEN [events[e] EXCEPT !.state = st] ELSE events[e]]
              /\ spoiled' = (spoiled \/ \E q \in qs : queue[q] # <<>>)
\* A fault: an idle worker leaves its queue to the next event.
CleanFault(w) ==
    /\ worker[w].at = "expired" /\ worker' = [worker EXCEPT ![w].at = "gone", ![w].queue = 0]
    /\ UNCHANGED <<events, box, queue, unfinished, quiet, publisher, reaped, spoiled>> /\ Stopping
\* A fault: the worker does not end with the cleanup.
StayFault(w) ==
    /\ worker[w].at = "expired" /\ worker' = [worker EXCEPT ![w].at = "poll", ![w].queue = 0]
    /\ box' = [box EXCEPT ![worker[w].chat] = 0] /\ quiet' = quiet \ {worker[w].chat}
    /\ Strand({box[worker[w].chat]} \ {0}, "stranded")
    /\ UNCHANGED <<queue, unfinished, publisher, reaped>> /\ Stopping
\* _cleanup_user_worker() by the worker itself.
Clean(w) ==
    /\ worker[w].at = "expired" /\ worker' = [worker EXCEPT ![w].at = "gone", ![w].queue = 0]
    /\ box' = [box EXCEPT ![worker[w].chat] = 0] /\ quiet' = quiet \ {worker[w].chat}
    /\ Strand({box[worker[w].chat]} \ {0}, "stranded")
    /\ UNCHANGED <<queue, unfinished, publisher, reaped>> /\ Stopping

\* Five minutes without activity of a chat (of no effect while its queue holds something: taking it is activity).
Quieten(c) == /\ c \in Open \ quiet /\ queue[box[c]] = <<>> /\ quiet' = quiet \cup {c}
              /\ UNCHANGED <<events, box, queue, unfinished, worker, publisher, reaped, spoiled>> /\ Stopping

-----------------------------------------------------------------------------
\* stop(): it waits for what the processor has taken, then for the queues.
Stop == /\ bus = "running" /\ bus' = "draining" /\ mark' = Len(events)
        /\ UNCHANGED <<order, events, box, queue, unfinished, worker, quiet, publisher, joined, reaped, spoiled>>
Drain == /\ bus = "draining" /\ publisher[Processor] = Idle /\ bus' = "joining"
         /\ ~\E e \in Ids : events[e].by = Processor /\ events[e].state = "lost"
         /\ joined' = {box[c] : c \in Open}
         /\ UNCHANGED <<order, events, box, queue, unfinished, worker, quiet, publisher, mark, reaped, spoiled>>
Join(q) == /\ bus = "joining" /\ q \in joined /\ unfinished[q] = 0 /\ joined' = joined \ {q}
           /\ UNCHANGED <<order, events, box, queue, unfinished, worker, quiet, publisher, bus, mark, reaped, spoiled>>
\* The workers are told to end and their queues are deleted (here in one step).
Finish == /\ bus = "joining" /\ joined = {} /\ bus' = "stopped"
          /\ box' = [c \in Chats |-> 0] /\ quiet' = {} /\ Strand({box[c] : c \in Open}, "late")
          /\ UNCHANGED <<order, queue, unfinished, worker, publisher, joined, mark, reaped>>

Enqueue(p) == Create(p) \/ Put(p)
Work(w) == Poll(w) \/ Take(w) \/ Timeout(w) \/ Done(w) \/ Raise(w) \/ Clean(w)
StopStep == Drain \/ Finish \/ \E q \in Queues : Join(q)
Next == \/ \E p \in Publishers : Enqueue(p) \/ \E c \in Chats : Publish(p, c)
        \/ \E w \in Queues : Work(w)
        \/ \E c \in Chats : Quieten(c)
        \/ Stop \/ StopStep
\* Threads go on, and a handler comes to its end.
Spec == /\ Init /\ [][Next]_vars
        /\ \A p \in Publishers : WF_vars(Enqueue(p))
        /\ \A w \in Queues : WF_vars(Work(w))
        /\ WF_vars(StopStep)

-----------------------------------------------------------------------------
\* "同一聊天的串行消息队列": a chat's events are handled one at a time, as long
\* as no other thread took its busy worker for an idle one.
SerialQueue == \A v, w \in Queues : worker[v].at = "busy" /\ worker[w].at = "busy" /\ v # w
    => worker[v].chat # worker[w].chat \/ worker[v].chat \in reaped

\* What is put in a chat's queue by the processor and by other threads is
\* completed in the order it was put, over cleanups and new workers.
InOrder == \A i, j \in DOMAIN order : LET d == events[order[i]] e == events[order[j]] IN
    i < j /\ d.chat = e.chat /\ e.state = "handled" /\ d.chat \notin reaped => d.state \notin {"queued", "handling"}

\* When stop() has come back, nothing that was received before it is waiting
\* or in work.
StopDrains == bus = "stopped" => \A e \in 1..mark :
    events[e].by = Processor /\ events[e].chat \notin reaped
      => events[e].state \notin {"published", "queued", "handling", "late"}

\* A chat that has a queue has the worker that was created with it.
BoxServed == \A c \in Open : bus # "stopped" => worker[box[c]].at # "gone"

\* stop() comes back unless a task was never marked as done.
StopReturns == bus = "draining" ~> bus = "stopped" \/ spoiled \/ reaped # {}
=============================================================================
