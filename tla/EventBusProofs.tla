--------------------------- MODULE EventBusProofs ---------------------------
(***************************************************************************)
(* Proofs about the event bus, for any chats, publishers, limits and       *)
(* queue size.                                                             *)
(*                                                                         *)
(* The inductive invariant has four parts.  Structure: what points to      *)
(* something points to what belongs to the same chat, every event has a    *)
(* number for the one queue it may create, and a chat that no other thread *)
(* cleaned up has one live worker, which is that of its queue.  Flow:      *)
(* where an event is, by its state, and how the order of the puts is kept  *)
(* by the queues and by what was begun.  Pending: the count that join()    *)
(* waits for covers what is waiting and in work.  Drained: what the phases *)
(* of stop() have already excluded.                                        *)
(*                                                                         *)
(* An action's effect is stated once, value by value; the parts of the     *)
(* invariant are then shown to follow from the effects.                    *)
(***************************************************************************)
EXTENDS EventBus, FiniteSetTheorems, TLAPS

USE BusAssumption

-----------------------------------------------------------------------------
(* The inductive invariant.                                                *)

States == {"published", "queued", "handling", "handled", "dropped", "lost", "stranded", "late"}
EventRows == [chat : Chats, by : Publishers, state : States]
WorkerRows == [at : {"unborn", "poll", "get", "busy", "expired", "gone"}, chat : Chats \cup {None},
               queue : {0} \cup Queues, event : Nat]
PublisherRows == [at : {"idle", "create", "put"}, event : Nat]

Shapes == /\ events \in Seq(EventRows) /\ box \in [Chats -> {0} \cup Queues]
          /\ queue \in [Queues -> Seq(Nat)] /\ unfinished \in [Queues -> Nat]
          /\ worker \in [Queues -> WorkerRows] /\ publisher \in [Publishers -> PublisherRows]
          /\ quiet \subseteq Chats /\ reaped \subseteq Chats /\ joined \subseteq Queues
          /\ bus \in {"running", "draining", "joining", "stopped"}
          /\ order \in Seq(Nat) /\ mark \in Nat /\ mark <= Len(events)

\* Queues, workers and publishers point to what belongs to the same chat.
Fits ==
    /\ \A q \in Queues : Len(queue[q]) <= QueueSize
    /\ \A q \in Queues : \A i \in 1..Len(queue[q]) :
           queue[q][i] \in Ids /\ events[queue[q][i]].chat = worker[q].chat
    /\ \A w \in Queues : worker[w].at # "unborn" <=> worker[w].chat # None
    /\ \A w \in Queues : worker[w].at = "unborn" => worker[w].queue = 0
    /\ \A w \in Queues : worker[w].queue # 0 => worker[worker[w].queue].chat = worker[w].chat
    /\ \A w \in Queues : worker[w].at \in {"get", "busy"} => worker[w].queue # 0
    /\ \A w \in Queues : worker[w].at = "busy" =>
           worker[w].event \in Ids /\ events[worker[w].event].chat = worker[w].chat
    /\ \A c \in Chats : box[c] # 0 => worker[box[c]].chat = c
    /\ \A p \in Publishers : publisher[p].at = "idle" => publisher[p] = Idle
    /\ \A p \in Publishers : publisher[p].at # "idle" => publisher[p].event \in Ids

\* There is a number for the next queue.
BornWorkers == {w \in Queues : worker[w].at # "unborn"}
Creating == {p \in Publishers : publisher[p].at = "create"}
By(p) == {e \in Ids : events[e].by = p}
Limit(p) == IF p = Processor THEN MaxReceived ELSE MaxFollowups
Room == /\ BornWorkers = 1..Created
        /\ Created + Cardinality(Creating) <= Len(events)
        /\ \A p \in Publishers : Cardinality(By(p)) <= Limit(p)

\* What is published and not yet put is held by its publisher.
Held == /\ \A p \in Publishers : publisher[p].at # "idle" =>
               /\ events[publisher[p].event].state = "published"
               /\ events[publisher[p].event].by = p
        /\ \A e \in Ids : events[e].state = "published" =>
               /\ publisher[events[e].by].at # "idle"
               /\ publisher[events[e].by].event = e

\* A chat's queue is its last one, and unless another thread cleaned the chat
\* up it has no worker but that queue's, which serves it.
Live(w) == worker[w].at \notin {"unborn", "gone"}
Latest == \A q \in Queues : \A c \in Chats : worker[q].chat = c /\ box[c] # 0 => q <= box[c]
Alone == \A w \in Queues : Live(w) /\ worker[w].chat \notin reaped =>
    /\ bus # "stopped" => box[worker[w].chat] = w
    /\ worker[w].queue \in {0, w}
    /\ \A v \in Queues : Live(v) /\ worker[v].chat = worker[w].chat => v = w

\* The order of the puts: an event is put once, and after its publication.
Among(s, e) == \E i \in 1..Len(s) : s[i] = e
Before(s, d, e) == \E i, j \in 1..Len(s) : i < j /\ s[i] = d /\ s[j] = e
Puts == /\ \A i, j \in 1..Len(order) : order[i] = order[j] => i = j
        /\ \A i \in 1..Len(order) : order[i] \in Ids /\ events[order[i]].state # "published"
        /\ \A q \in Queues : \A i \in 1..Len(queue[q]) : Among(order, queue[q][i])

\* The queues of a chat, one after the other, are in the order of the puts.
Sorted == \A p, q \in Queues : worker[p].chat = worker[q].chat =>
    \A i \in 1..Len(queue[p]), j \in 1..Len(queue[q]) :
        (p < q \/ (p = q /\ i < j)) => Before(order, queue[p][i], queue[q][j])

\* An event in work is in one worker's hands and in no queue.
InHand == /\ \A w \in Queues : worker[w].at = "busy" =>
                 /\ events[worker[w].event].state = "handling"
                 /\ \A v \in Queues : worker[v].at = "busy" /\ v # w => worker[v].event # worker[w].event
                 /\ \A q \in Queues : \A i \in 1..Len(queue[q]) : queue[q][i] # worker[w].event
          /\ \A e \in Ids : events[e].state = "handling" =>
                 \E w \in Queues : worker[w].at = "busy" /\ worker[w].event = e

\* What is in a queue that is served waits, and what waits is in such a queue.
Served(q) == (Live(q) /\ worker[q].queue = q) \/ (\E c \in Chats : box[c] = q)
Waits == \A q \in Queues : worker[q].chat \notin reaped /\ Served(q) =>
    \A i \in 1..Len(queue[q]) : events[queue[q][i]].state \in {"queued", "late"}
Located == \A e \in Ids : events[e].chat \notin reaped =>
    /\ events[e].state = "queued" => box[events[e].chat] # 0 /\ Among(queue[box[events[e].chat]], e)
    /\ events[e].state = "late" =>
          /\ bus = "stopped"
          /\ \E q \in Queues : /\ worker[q].chat = events[e].chat /\ Among(queue[q], e)
                               /\ \A w \in Queues : Live(w) /\ worker[w].chat = events[e].chat
                                      => worker[w].queue <= q

\* What was begun had nothing before it that still waits or is in work.
Passed == \A d, e \in Ids :
    /\ Before(order, d, e) /\ events[d].chat = events[e].chat /\ events[e].chat \notin reaped
    /\ events[e].state \in {"handling", "handled"}
    => events[d].state \notin {"queued", "late", "handling"}

\* The queue's count covers what it holds and what its worker has in hand.
InWork(row) == IF row.at = "busy" THEN 1 ELSE 0
Pending == \A c \in Chats : c \notin reaped /\ bus # "stopped" /\ box[c] # 0 =>
    unfinished[box[c]] >= Len(queue[box[c]]) + InWork(worker[box[c]])

\* What stop() still waits for, as it proceeds.
Early(e) == e <= mark /\ events[e].by = Processor /\ events[e].chat \notin reaped
Drained == \A e \in Ids : Early(e) =>
    /\ bus \in {"joining", "stopped"} => events[e].state # "published"
    /\ bus = "joining" /\ events[e].state \in {"queued", "handling"} => box[events[e].chat] \in joined
    /\ bus = "stopped" => events[e].state \notin {"queued", "handling", "late"}

Structure == Shapes /\ Fits /\ Room /\ BoxServed /\ Latest /\ Alone
Flow == Held /\ Puts /\ Sorted /\ InHand /\ Waits /\ Located /\ Passed
IInv == Structure /\ Flow /\ Pending /\ Drained

-----------------------------------------------------------------------------
(* There is a queue for every event.                                       *)

LEMMA Sizes ==
    /\ Processor \in Publishers /\ Timers \subseteq Publishers /\ IsFiniteSet(Publishers)
    /\ Queues \subseteq Nat /\ 0 \notin Queues /\ IsFiniteSet(Queues)
    /\ Cardinality(Timers) \in Nat /\ Cardinality(Timers) * MaxFollowups \in Nat
    /\ MaxReceived \in Nat /\ MaxFollowups \in Nat /\ QueueSize \in Nat
<1>1. Cardinality(Timers) \in Nat BY FS_CardinalityType
<1>2. IsFiniteSet(Publishers) BY FS_AddElement DEF Publishers
<1>3. MaxReceived \in Nat /\ MaxFollowups \in Nat /\ QueueSize \in Nat OBVIOUS
<1>4. Cardinality(Timers) * MaxFollowups \in Nat BY <1>1, <1>3
<1>5. MaxReceived + Cardinality(Timers) * MaxFollowups \in Int BY <1>3, <1>4
<1>6. IsFiniteSet(Queues) BY <1>5, FS_Interval DEF Queues
<1> QED BY <1>1, <1>2, <1>3, <1>4, <1>6 DEF Publishers, Queues

LEMMA IntervalSize ==
  ASSUME NEW n \in Nat
  PROVE  IsFiniteSet(1..n) /\ Cardinality(1..n) = n
<1>1. 1 \in Int /\ n \in Int OBVIOUS
<1>2. IsFiniteSet(1..n) /\ Cardinality(1..n) = IF 1 > n THEN 0 ELSE n - 1 + 1
  BY <1>1, FS_Interval
<1> QED BY <1>2

LEMMA ByFinite ==
  ASSUME events \in Seq(EventRows), NEW S \in SUBSET Ids
  PROVE  IsFiniteSet(S) /\ Cardinality(S) \in Nat
<1>1. Len(events) \in Int OBVIOUS
<1>2. IsFiniteSet(Ids) BY <1>1, FS_Interval DEF Ids
<1> QED BY <1>2, FS_Subset, FS_CardinalityType

LEMMA EventsFit ==
  ASSUME events \in Seq(EventRows), \A p \in Publishers : Cardinality(By(p)) <= Limit(p)
  PROVE  Len(events) <= MaxReceived + Cardinality(Timers) * MaxFollowups
<1> DEFINE P == {Processor} \X (1..MaxReceived)
           T == Timers \X (1..MaxFollowups)
           upto(e) == {d \in By(events[e].by) : d <= e}
           f == [e \in Ids |-> <<events[e].by, Cardinality(upto(e))>>]
<1>1. /\ IsFiniteSet(P \cup T)
      /\ Cardinality(P \cup T) = MaxReceived + Cardinality(Timers) * MaxFollowups
  <2>1. IsFiniteSet(1..MaxReceived) /\ Cardinality(1..MaxReceived) = MaxReceived
    BY IntervalSize, Sizes
  <2>2. IsFiniteSet(1..MaxFollowups) /\ Cardinality(1..MaxFollowups) = MaxFollowups
    BY IntervalSize, Sizes
  <2>3. IsFiniteSet({Processor}) /\ Cardinality({Processor}) = 1 BY FS_Singleton
  <2>4. IsFiniteSet(P) /\ Cardinality(P) = 1 * MaxReceived BY <2>1, <2>3, FS_Product
  <2>5. IsFiniteSet(T) /\ Cardinality(T) = Cardinality(Timers) * MaxFollowups
    BY <2>2, FS_Product
  <2>6. P \cap T = {} OBVIOUS
  <2>7. Cardinality(P \cap T) = 0 BY <2>6, FS_EmptySet
  <2>8. /\ IsFiniteSet(P \cup T)
        /\ Cardinality(P \cup T) = Cardinality(P) + Cardinality(T) - Cardinality(P \cap T)
    BY <2>4, <2>5, FS_Union
  <2> HIDE DEF P, T
  <2> QED BY <2>4, <2>5, <2>7, <2>8, Sizes
<1>2. ASSUME NEW e \in Ids
      PROVE  /\ events[e].by \in Publishers /\ e \in By(events[e].by)
             /\ upto(e) \in SUBSET Ids /\ upto(e) \in SUBSET By(events[e].by)
             /\ By(events[e].by) \in SUBSET Ids /\ e \in Nat
  <2>1. events[e] \in EventRows /\ e \in Nat BY DEF Ids
  <2>2. events[e].by \in Publishers BY <2>1 DEF EventRows
  <2>3. e \in By(events[e].by) /\ By(events[e].by) \in SUBSET Ids BY DEF By
  <2> QED BY <2>1, <2>2, <2>3
<1>3. ASSUME NEW e \in Ids PROVE f[e] \in P \cup T
  <2> DEFINE n == Cardinality(upto(e))
  <2>1. IsFiniteSet(upto(e)) /\ n \in Nat BY <1>2, ByFinite
  <2>2. e \in upto(e) BY <1>2
  <2>3. n # 0 BY <2>1, <2>2, FS_EmptySet
  <2>4. n <= Cardinality(By(events[e].by)) BY <1>2, ByFinite, FS_Subset
  <2>5. Cardinality(By(events[e].by)) \in Nat BY <1>2, ByFinite
  <2>6. Limit(events[e].by) \in Nat BY Sizes DEF Limit
  <2>7. n <= Limit(events[e].by) BY <1>2, <2>1, <2>4, <2>5, <2>6
  <2>8. n \in 1..Limit(events[e].by) BY <2>1, <2>3, <2>6, <2>7
  <2>9. f[e] = <<events[e].by, n>> OBVIOUS
  <2> HIDE DEF n, f
  <2> QED BY <1>2, <2>8, <2>9 DEF Limit, Publishers
<1>4. ASSUME NEW d \in Ids, NEW e \in Ids, d < e PROVE f[d] # f[e]
  <2>1. CASE events[d].by # events[e].by BY <2>1
  <2>2. CASE events[d].by = events[e].by
    <3>1. IsFiniteSet(upto(d)) /\ Cardinality(upto(d)) \in Nat BY <1>2, ByFinite
    <3>2. IsFiniteSet(upto(e)) /\ Cardinality(upto(e)) \in Nat BY <1>2, ByFinite
    <3>3. e \notin upto(d)
      <4>1. d \in Nat /\ e \in Nat BY <1>2
      <4>2. ~(e <= d) BY <1>4, <4>1
      <4> QED BY <4>2
    <3>4. Cardinality(upto(d) \cup {e}) = Cardinality(upto(d)) + 1
      BY <3>1, <3>3, FS_AddElement
    <3>5. upto(d) \cup {e} \in SUBSET upto(e)
      <4>1. d \in Nat /\ e \in Nat /\ e \in By(events[e].by) /\ By(events[d].by) \in SUBSET Ids
        BY <1>2
      <4>2. \A x \in upto(d) : x \in By(events[e].by) /\ x <= d /\ x \in Ids BY <2>2, <4>1
      <4>3. \A x \in upto(d) : x <= e BY <1>4, <4>1, <4>2 DEF Ids
      <4>4. e <= e BY <4>1
      <4> QED BY <4>1, <4>2, <4>3, <4>4
    <3>6. Cardinality(upto(d) \cup {e}) <= Cardinality(upto(e)) BY <3>2, <3>5, FS_Subset
    <3>7. Cardinality(upto(d)) # Cardinality(upto(e)) BY <3>1, <3>2, <3>4, <3>6
    <3>8. f[d] = <<events[d].by, Cardinality(upto(d))>> OBVIOUS
    <3>9. f[e] = <<events[e].by, Cardinality(upto(e))>> OBVIOUS
    <3> HIDE DEF f, upto
    <3> QED BY <3>7, <3>8, <3>9
  <2> QED BY <2>1, <2>2
<1>5. ASSUME NEW d \in Ids, NEW e \in Ids, f[d] = f[e] PROVE d = e
  <2>1. d \in Nat /\ e \in Nat BY <1>2
  <2>2. d = e \/ d < e \/ e < d BY <2>1
  <2> HIDE DEF f
  <2> QED BY <1>4, <1>5, <2>2
<1>6. f \in Injection(Ids, P \cup T)
  <2>1. f = [e \in Ids |-> f[e]] OBVIOUS
  <2> HIDE DEF f, P, T
  <2>2. f \in [Ids -> P \cup T] BY <1>3, <2>1
  <2> QED BY <1>5, <2>2 DEF Injection, IsInjective
<1>7. Cardinality(Ids) <= Cardinality(P \cup T) BY <1>1, <1>6, FS_Injection
<1>8. Len(events) \in Nat OBVIOUS
<1>9. Cardinality(Ids) = Len(events) BY <1>8, IntervalSize DEF Ids
<1> QED BY <1>1, <1>7, <1>9

\* Whoever creates a queue finds a number for it.
LEMMA NextQueue ==
  ASSUME Shapes, Room, NEW p \in Publishers, publisher[p].at = "create"
  PROVE  /\ Created \in Nat /\ Created + 1 \in Queues
         /\ worker[Created + 1].at = "unborn"
         /\ \A q \in Queues : worker[q].at # "unborn" => q <= Created
         /\ Created + 1 + Cardinality(Creating \ {p}) <= Len(events)
<1>1. BornWorkers \in SUBSET Queues /\ Creating \in SUBSET Publishers /\ p \in Creating
  BY DEF BornWorkers, Creating
<1>2. IsFiniteSet(BornWorkers) /\ IsFiniteSet(Creating) BY <1>1, Sizes, FS_Subset
<1>3. Created = Cardinality(BornWorkers) BY DEF Created, BornWorkers
<1>4. Created \in Nat /\ Cardinality(Creating) \in Nat BY <1>2, <1>3, FS_CardinalityType
<1>5. Cardinality(Creating \ {p}) = Cardinality(Creating) - 1 BY <1>1, <1>2, FS_RemoveElement
<1>6. Cardinality(Creating) # 0 BY <1>1, <1>2, FS_EmptySet
<1>7. Len(events) \in Nat /\ Len(events) <= MaxReceived + Cardinality(Timers) * MaxFollowups
  BY EventsFit DEF Shapes, Room
<1>8. Created + Cardinality(Creating) <= Len(events) /\ BornWorkers = 1..Created BY DEF Room
<1>9. Created + 1 \in Queues BY <1>4, <1>6, <1>7, <1>8, Sizes DEF Queues
<1>10. Created + 1 \notin BornWorkers BY <1>4, <1>8
<1> QED BY <1>4, <1>5, <1>8, <1>9, <1>10 DEF BornWorkers

-----------------------------------------------------------------------------
(* The parts of the actions, value by value.                               *)

\* Some events get another state.
Recast(S, st) == /\ events' \in Seq(EventRows) /\ Len(events') = Len(events) /\ Ids' = Ids
                 /\ \A e \in Ids : /\ events'[e].chat = events[e].chat /\ events'[e].by = events[e].by
                                   /\ events'[e].state = IF e \in S THEN st ELSE events[e].state

LEMMA RecastEvents ==
  ASSUME events \in Seq(EventRows), NEW S, NEW st \in States,
         events' = [e \in Ids |-> IF e \in S THEN [events[e] EXCEPT !.state = st] ELSE events[e]]
  PROVE  Recast(S, st)
<1>1. ASSUME NEW e \in Ids
      PROVE  /\ events'[e] \in EventRows
             /\ events'[e].chat = events[e].chat /\ events'[e].by = events[e].by
             /\ events'[e].state = IF e \in S THEN st ELSE events[e].state
  <2>1. events[e] \in EventRows BY DEF Ids
  <2>2. events'[e] = IF e \in S THEN [events[e] EXCEPT !.state = st] ELSE events[e] OBVIOUS
  <2>3. CASE e \in S
    <3> DEFINE row == [events[e] EXCEPT !.state = st]
    <3>1. /\ row \in EventRows /\ row.chat = events[e].chat /\ row.by = events[e].by /\ row.state = st
      BY <2>1 DEF EventRows
    <3>2. events'[e] = row BY <2>2, <2>3
    <3> HIDE DEF row
    <3> QED BY <2>3, <3>1, <3>2
  <2>4. CASE e \notin S BY <2>1, <2>2, <2>4
  <2> QED BY <2>3, <2>4
<1>2. Len(events) \in Nat OBVIOUS
<1>3. events' \in [1..Len(events) -> EventRows]
  <2>1. events' = [e \in Ids |-> events'[e]] OBVIOUS
  <2> QED BY <1>1, <2>1 DEF Ids
<1>4. events' \in Seq(EventRows) /\ Len(events') = Len(events) BY <1>2, <1>3
<1> QED BY <1>1, <1>4 DEF Recast, Ids

LEMMA MarkEvent ==
  ASSUME events \in Seq(EventRows), NEW e \in Ids, NEW st \in States, events' = Mark(e, st)
  PROVE  Recast({e}, st)
<1>1. DOMAIN events = Ids BY DEF Ids
<1>2. events' = [d \in Ids |-> IF d \in {e} THEN [events[d] EXCEPT !.state = st] ELSE events[d]]
  BY <1>1 DEF Mark
<1> QED BY <1>2, RecastEvents

LEMMA KeepEvents ==
  ASSUME events \in Seq(EventRows), events' = events, NEW st
  PROVE  Recast({}, st)
BY DEF Recast, Ids

\* What is in the given queues.
Content(qs) == {e \in Ids : \E q \in qs : \E i \in 1..Len(queue[q]) : queue[q][i] = e}
LEMMA StrandEvents ==
  ASSUME Shapes, NEW qs \in SUBSET Queues, NEW st \in States, Strand(qs, st)
  PROVE  Recast(Content(qs), st)
<1>1. ASSUME NEW e \in Ids PROVE (\E q \in qs : e \in Range(queue[q])) <=> e \in Content(qs)
  <2>1. ASSUME NEW q \in qs PROVE DOMAIN queue[q] = 1..Len(queue[q]) BY DEF Shapes
  <2> QED BY <2>1 DEF Content, Range
<1>2. events' = [e \in Ids |-> IF e \in Content(qs) THEN [events[e] EXCEPT !.state = st] ELSE events[e]]
  BY <1>1 DEF Strand
<1> QED BY <1>2, RecastEvents DEF Shapes

\* The next round of a worker.
LEMMA RoundRow ==
  ASSUME Shapes, NEW w \in Queues, worker[w].chat \in Chats
  PROVE  /\ Round(w) \in WorkerRows /\ Round(w).chat = worker[w].chat
         /\ Round(w).event = 0
         /\ Round(w).at = IF bus = "stopped" THEN "gone" ELSE IF box[worker[w].chat] = 0 THEN "poll" ELSE "get"
         /\ Round(w).queue = IF bus = "stopped" THEN 0 ELSE box[worker[w].chat]
<1>1. worker[w] \in WorkerRows /\ box[worker[w].chat] \in {0} \cup Queues BY DEF Shapes
<1> DEFINE q == box[worker[w].chat]
           at == IF bus = "stopped" THEN "gone" ELSE IF q = 0 THEN "poll" ELSE "get"
           nq == IF bus = "stopped" THEN 0 ELSE q
           row == [worker[w] EXCEPT !.at = at, !.queue = nq, !.event = 0]
<1>2. /\ at \in {"gone", "poll", "get"} /\ nq \in {0} \cup Queues BY <1>1
<1>3. Round(w) = row BY DEF Round
<1> HIDE DEF at, nq, q
<1>4. /\ row \in WorkerRows /\ row.chat = worker[w].chat /\ row.event = 0 /\ row.at = at /\ row.queue = nq
  BY <1>1, <1>2 DEF WorkerRows
<1> HIDE DEF row
<1> USE DEF at, nq, q
<1> QED BY <1>3, <1>4

-----------------------------------------------------------------------------
(* The structure.  Every step but the publication of an event and the      *)
(* creation of a queue is calm: workers keep their chats, no worker comes, *)
(* a chat keeps its queue or loses it.                                     *)

WorkerStep(w) ==
    \/ worker'[w] = worker[w]
    \/ worker[w].at # "unborn" /\ worker'[w].at = "gone" /\ worker'[w].queue = 0
    \/ Live(w) /\ worker'[w].at \in {"poll", "expired"} /\ worker'[w].queue = 0
    \/ /\ Live(w) /\ worker'[w].at = "get" /\ bus # "stopped"
       /\ worker'[w].queue = box[worker[w].chat] /\ box[worker[w].chat] # 0
    \/ /\ worker[w].at = "get" /\ worker'[w].at = "busy" /\ worker'[w].queue = worker[w].queue
       /\ worker'[w].event \in Ids /\ events[worker'[w].event].chat = worker[w].chat

Calm ==
    /\ Shapes' /\ reaped' = reaped
    /\ bus = "stopped" => bus' = "stopped"
    /\ Len(events') = Len(events) /\ Ids' = Ids
    /\ \A e \in Ids : events'[e].chat = events[e].chat /\ events'[e].by = events[e].by
    /\ \A q \in Queues : Len(queue'[q]) <= QueueSize
    /\ \A q \in Queues : \A i \in 1..Len(queue'[q]) :
           queue'[q][i] \in Ids /\ events[queue'[q][i]].chat = worker[q].chat
    /\ \A c \in Chats : box'[c] \in {0, box[c]}
    /\ \A p \in Publishers : publisher'[p] = publisher[p] \/ publisher'[p] = Idle
    /\ \A w \in Queues : worker'[w].chat = worker[w].chat /\ WorkerStep(w)
    /\ bus' # "stopped" => \A w \in Queues :
           worker'[w].at = "gone" /\ worker[w].at # "gone" => box'[worker[w].chat] = 0
    /\ bus' # "stopped" => \A w \in Queues :
           worker'[w].at \notin {"unborn", "gone"} /\ worker[w].chat \notin reaped
               => box'[worker[w].chat] = box[worker[w].chat]

LEMMA CalmFits ==
  ASSUME Structure, Calm
  PROVE  Fits'
<1> USE DEF Structure, Calm
<1>1. ASSUME NEW q \in Queues
      PROVE  /\ Len(queue'[q]) <= QueueSize
             /\ \A i \in 1..Len(queue'[q]) :
                    queue'[q][i] \in Ids' /\ events'[queue'[q][i]].chat = worker'[q].chat
  OBVIOUS
<1>2. ASSUME NEW w \in Queues
      PROVE  /\ worker'[w].at # "unborn" <=> worker'[w].chat # None
             /\ worker'[w].at = "unborn" => worker'[w].queue = 0
             /\ worker'[w].queue # 0 => worker'[worker'[w].queue].chat = worker'[w].chat
             /\ worker'[w].at \in {"get", "busy"} => worker'[w].queue # 0
             /\ worker'[w].at = "busy" =>
                   worker'[w].event \in Ids' /\ events'[worker'[w].event].chat = worker'[w].chat
  <2>1. /\ worker[w] \in WorkerRows /\ worker'[w] \in WorkerRows BY DEF Shapes
  <2>2. /\ worker'[w].queue \in {0} \cup Queues /\ worker[w].chat \in Chats \cup {None} BY <2>1 DEF WorkerRows
  <2>3. worker'[w].chat = worker[w].chat /\ WorkerStep(w) OBVIOUS
  <2>4. worker'[w].at # "unborn" <=> worker'[w].chat # None
    BY <2>3 DEF WorkerStep, Fits, Live
  <2>5. worker'[w].queue # 0 => worker[worker'[w].queue].chat = worker[w].chat
    <3>1. worker[w].at # "unborn" => worker[w].chat \in Chats BY <2>2 DEF Fits
    <3> QED BY <2>3, <3>1 DEF WorkerStep, Fits, Live
  <2>6. worker'[w].queue # 0 => worker'[worker'[w].queue].chat = worker'[w].chat
    BY <2>2, <2>3, <2>5
  <2>7. worker'[w].at \in {"get", "busy"} => worker'[w].queue # 0
    BY <2>3 DEF WorkerStep, Fits, Live
  <2>8. worker'[w].at = "busy" => worker'[w].event \in Ids /\ events[worker'[w].event].chat = worker[w].chat
    BY <2>3 DEF WorkerStep, Fits, Live
  <2>9. worker'[w].at = "unborn" => worker'[w].queue = 0
    BY <2>3 DEF WorkerStep, Fits, Live
  <2> QED BY <2>3, <2>4, <2>6, <2>7, <2>8, <2>9
<1>3. ASSUME NEW c \in Chats PROVE box'[c] # 0 => worker'[box'[c]].chat = c
  <2>1. box[c] \in {0} \cup Queues BY DEF Shapes
  <2> QED BY <2>1 DEF Fits
<1>4. ASSUME NEW p \in Publishers
      PROVE  /\ publisher'[p].at = "idle" => publisher'[p] = Idle
             /\ publisher'[p].at # "idle" => publisher'[p].event \in Ids'
  BY DEF Fits, Idle
<1> QED
  <2>1. Idle' = Idle BY DEF Idle
  <2> HIDE DEF Structure, Calm
  <2> QED BY <1>1, <1>2, <1>3, <1>4, <2>1 DEF Fits

LEMMA CalmRoom ==
  ASSUME Structure, Calm
  PROVE  Room'
<1> USE DEF Structure, Calm
<1>1. BornWorkers' = BornWorkers
  BY CalmFits DEF BornWorkers, Fits
<1>2. Created' = Created BY <1>1 DEF Created, BornWorkers
<1>3. Creating' \in SUBSET Creating
  <2>1. \A p \in Publishers : publisher'[p].at = "create" => publisher[p].at = "create" BY DEF Idle
  <2> QED BY <2>1 DEF Creating
<1>4. IsFiniteSet(Creating) BY Sizes, FS_Subset DEF Creating
<1>5. Cardinality(Creating') <= Cardinality(Creating) BY <1>3, <1>4, FS_Subset
<1>6. Cardinality(Creating') \in Nat /\ Cardinality(Creating) \in Nat
  BY <1>3, <1>4, FS_Subset, FS_CardinalityType
<1>7. BornWorkers \in SUBSET Queues BY DEF BornWorkers
<1>8. Created \in Nat BY <1>7, Sizes, FS_Subset, FS_CardinalityType DEF Created, BornWorkers
<1>9. ASSUME NEW p \in Publishers PROVE By(p)' = By(p) BY DEF By
<1>10. Len(events) \in Nat BY DEF Shapes
<1> HIDE DEF Structure, Calm
<1>11. Room /\ Len(events') = Len(events) BY DEF Structure, Calm
<1>12. BornWorkers' = 1..Created' BY <1>1, <1>2, <1>11 DEF Room
<1>13. Created' + Cardinality(Creating') <= Len(events')
  BY <1>2, <1>5, <1>6, <1>8, <1>10, <1>11 DEF Room
<1>14. ASSUME NEW p \in Publishers PROVE Cardinality(By(p)') <= Limit(p)
  BY <1>9, <1>11 DEF Room
<1> QED BY <1>12, <1>13, <1>14 DEF Room, Limit

LEMMA CalmStructure ==
  ASSUME Structure, Calm
  PROVE  Structure'
<1> USE DEF Structure, Calm
<1>1. BoxServed'
  <2> SUFFICES ASSUME NEW c \in Chats, box'[c] # 0, bus' # "stopped"
               PROVE  worker'[box'[c]].at # "gone"
    BY DEF BoxServed, Open
  <2>1. box'[c] = box[c] /\ box[c] \in Queues BY DEF Shapes
  <2>2. worker[box[c]].at # "gone" BY <2>1 DEF BoxServed, Open
  <2>3. worker[box[c]].chat = c BY <2>1 DEF Fits
  <2> QED BY <2>1, <2>2, <2>3
<1>2. Latest'
  <2> SUFFICES ASSUME NEW q \in Queues, NEW c \in Chats, worker'[q].chat = c, box'[c] # 0
               PROVE  q <= box'[c]
    BY DEF Latest
  <2> QED BY DEF Latest
<1>3. Alone'
  <2> SUFFICES ASSUME NEW w \in Queues, worker'[w].at \notin {"unborn", "gone"},
                      worker'[w].chat \notin reaped
               PROVE  /\ bus' # "stopped" => box'[worker'[w].chat] = w
                      /\ worker'[w].queue \in {0, w}
                      /\ \A v \in Queues :
                            worker'[v].at \notin {"unborn", "gone"} /\ worker'[v].chat = worker'[w].chat
                                => v = w
    BY DEF Alone, Live
  <2>1. worker'[w].chat = worker[w].chat OBVIOUS
  <2>2. \A v \in Queues : worker'[v].at \notin {"unborn", "gone"} => Live(v)
    BY DEF WorkerStep, Live
  <2>3. Live(w) BY <2>2
  <2>4. bus' # "stopped" => box'[worker'[w].chat] = w BY <2>1, <2>3 DEF Alone
  <2>5. worker'[w].queue \in {0, w} BY <2>1, <2>3 DEF Alone, WorkerStep
  <2>6. \A v \in Queues : worker'[v].at \notin {"unborn", "gone"} /\ worker'[v].chat = worker'[w].chat
            => v = w
    BY <2>1, <2>2, <2>3 DEF Alone
  <2> HIDE DEF Structure, Calm
  <2> QED BY <2>4, <2>5, <2>6
<1> QED BY <1>1, <1>2, <1>3, CalmFits, CalmRoom

\* What the calm actions do.
Holds(p) == publisher[p].event
Appended(q, e) ==
    /\ \A r \in Queues \ {q} : queue'[r] = queue[r]
    /\ Len(queue'[q]) = Len(queue[q]) + 1 /\ queue'[q][Len(queue[q]) + 1] = e
    /\ \A i \in 1..Len(queue[q]) : queue'[q][i] = queue[q][i]
    /\ Len(order') = Len(order) + 1 /\ order'[Len(order) + 1] = e
    /\ \A i \in 1..Len(order) : order'[i] = order[i]
    /\ \A r \in Queues \ {q} : unfinished'[r] = unfinished[r]
    /\ unfinished'[q] = unfinished[q] + 1

LEMMA ChatsHave ==
  ASSUME Shapes, Fits
  PROVE  /\ \A e \in Ids : events[e].chat \in Chats /\ events[e].by \in Publishers /\ events[e].state \in States
         /\ \A p \in Publishers : publisher[p].at # "idle" => Holds(p) \in Ids /\ Chat(p) \in Chats
         /\ \A w \in Queues : worker[w].at # "unborn" <=> worker[w].chat \in Chats
         /\ \A q \in Queues : queue[q] \in Seq(Nat) /\ Len(queue[q]) \in Nat
         /\ \A q \in Queues : 1..Len(queue[q]) = DOMAIN queue[q]
         /\ Len(order) \in Nat /\ Len(events) \in Nat
<1>1. ASSUME NEW e \in Ids
      PROVE  events[e].chat \in Chats /\ events[e].by \in Publishers /\ events[e].state \in States
  <2>1. events[e] \in EventRows BY DEF Shapes, Ids
  <2> QED BY <2>1 DEF EventRows
<1>2. ASSUME NEW p \in Publishers, publisher[p].at # "idle" PROVE Holds(p) \in Ids /\ Chat(p) \in Chats
  BY <1>1, <1>2 DEF Fits, Holds, Chat
<1>3. ASSUME NEW w \in Queues PROVE worker[w].at # "unborn" <=> worker[w].chat \in Chats
  <2>1. worker[w] \in WorkerRows BY DEF Shapes
  <2>2. worker[w].chat \in Chats \cup {None} BY <2>1 DEF WorkerRows
  <2> QED BY <2>2 DEF Fits
<1>4. ASSUME NEW q \in Queues
      PROVE  queue[q] \in Seq(Nat) /\ Len(queue[q]) \in Nat /\ 1..Len(queue[q]) = DOMAIN queue[q]
  BY DEF Shapes
<1>5. Len(order) \in Nat /\ Len(events) \in Nat BY DEF Shapes
<1> QED BY <1>1, <1>2, <1>3, <1>4, <1>5

LEMMA IdleRow == Idle \in PublisherRows
BY DEF Idle, PublisherRows

LEMMA PutEffect ==
  ASSUME Structure, NEW p \in Publishers, Put(p)
  PROVE  /\ Calm /\ worker' = worker /\ box' = box /\ bus' = bus /\ mark' = mark /\ joined' = joined
         /\ Holds(p) \in Ids /\ Chat(p) \in Chats /\ publisher[p].at = "put"
         /\ publisher'[p] = Idle /\ \A r \in Publishers \ {p} : publisher'[r] = publisher[r]
         /\ \/ /\ box[Chat(p)] \in Queues /\ Recast({Holds(p)}, "queued")
               /\ Appended(box[Chat(p)], Holds(p))
            \/ /\ Recast({Holds(p)}, "dropped") \/ Recast({Holds(p)}, "lost")
               /\ queue' = queue /\ order' = order /\ unfinished' = unfinished
<1> DEFINE e == publisher[p].event
           q == box[Chat(p)]
<1>0. Shapes /\ Fits BY DEF Structure
<1>1. e \in Ids /\ Chat(p) \in Chats /\ publisher[p].at = "put" BY <1>0, ChatsHave DEF Put, Holds
<1>2. q \in {0} \cup Queues BY <1>0, <1>1 DEF Shapes
<1>3. /\ worker' = worker /\ box' = box /\ bus' = bus /\ mark' = mark /\ joined' = joined
      /\ quiet' = quiet /\ reaped' = reaped
  BY DEF Put, BusKept
<1>4. /\ publisher'[p] = Idle /\ \A r \in Publishers \ {p} : publisher'[r] = publisher[r]
      /\ publisher' \in [Publishers -> PublisherRows]
  BY <1>0, IdleRow DEF Put, Shapes
<1>5. CASE /\ q # 0 /\ Len(queue[q]) < QueueSize
           /\ queue' = [queue EXCEPT ![q] = Append(@, e)] /\ unfinished' = [unfinished EXCEPT ![q] = @ + 1]
           /\ events' = Mark(e, "queued") /\ order' = Append(order, e)
  <2>1. q \in Queues BY <1>2, <1>5
  <2>2. Recast({e}, "queued") BY <1>0, <1>1, <1>5, MarkEvent DEF Shapes, States
  <2>3. /\ queue[q] \in Seq(Nat) /\ e \in Nat /\ order \in Seq(Nat) /\ unfinished[q] \in Nat
        /\ queue \in [Queues -> Seq(Nat)] /\ unfinished \in [Queues -> Nat]
    BY <1>0, <1>1, <2>1 DEF Shapes, Ids
  <2>4. queue'[q] = Append(queue[q], e) /\ \A r \in Queues \ {q} : queue'[r] = queue[r]
    BY <1>5, <2>1, <2>3
  <2>5. queue' \in [Queues -> Seq(Nat)] /\ order' \in Seq(Nat) /\ unfinished' \in [Queues -> Nat]
    <3>1. Append(queue[q], e) \in Seq(Nat) /\ unfinished[q] + 1 \in Nat BY <2>3
    <3>2. queue' \in [Queues -> Seq(Nat)] BY <1>5, <2>3, <3>1
    <3>3. unfinished' \in [Queues -> Nat] BY <1>5, <2>3, <3>1
    <3>4. order' \in Seq(Nat) BY <1>5, <2>3
    <3> QED BY <3>2, <3>3, <3>4
  <2>6. /\ Len(queue'[q]) = Len(queue[q]) + 1 /\ queue'[q][Len(queue[q]) + 1] = e
        /\ \A i \in 1..Len(queue[q]) : queue'[q][i] = queue[q][i]
    BY <2>3, <2>4
  <2>7. /\ Len(order') = Len(order) + 1 /\ order'[Len(order) + 1] = e
        /\ \A i \in 1..Len(order) : order'[i] = order[i]
    BY <1>5, <2>3
  <2>8. unfinished'[q] = unfinished[q] + 1 /\ \A r \in Queues \ {q} : unfinished'[r] = unfinished[r]
    BY <1>5, <2>1, <2>3
  <2>9. Appended(q, e) BY <2>4, <2>6, <2>7, <2>8 DEF Appended
  <2>10. Shapes' BY <1>0, <1>3, <1>4, <2>2, <2>5 DEF Shapes, Recast
  <2>11. worker[q].chat = Chat(p) BY <1>0, <1>1, <1>5 DEF Fits
  <2>12. ASSUME NEW r \in Queues
         PROVE  /\ Len(queue'[r]) <= QueueSize
                /\ \A i \in 1..Len(queue'[r]) : queue'[r][i] \in Ids /\ events[queue'[r][i]].chat = worker[r].chat
    <3>1. CASE r = q
      <4>1. Len(queue'[q]) = Len(queue[q]) + 1 /\ Len(queue[q]) \in Nat BY <2>3, <2>6
      <4>2. Len(queue'[q]) <= QueueSize BY <1>5, <4>1, Sizes
      <4>3. ASSUME NEW i \in 1..Len(queue'[q])
            PROVE  queue'[q][i] \in Ids /\ events[queue'[q][i]].chat = worker[q].chat
        <5>1. CASE i = Len(queue[q]) + 1 BY <1>1, <2>6, <2>11, <5>1 DEF Chat
        <5>2. CASE i # Len(queue[q]) + 1
          <6>1. i \in 1..Len(queue[q]) BY <4>1, <5>2
          <6>2. queue[q][i] \in Ids /\ events[queue[q][i]].chat = worker[q].chat
            BY <1>0, <2>1, <6>1 DEF Fits
          <6>3. queue'[q][i] = queue[q][i] BY <2>6, <6>1
          <6> HIDE DEF q
          <6> QED BY <6>2, <6>3
        <5> QED BY <5>1, <5>2
      <4> QED BY <3>1, <4>2, <4>3
    <3>2. CASE r # q BY <1>0, <2>4, <3>2 DEF Fits
    <3> QED BY <3>1, <3>2
  <2>13. Calm
    <3>1. /\ Len(events') = Len(events) /\ Ids' = Ids
          /\ \A d \in Ids : events'[d].chat = events[d].chat /\ events'[d].by = events[d].by
      BY <2>2 DEF Recast
    <3> QED BY <1>3, <1>4, <2>10, <2>12, <3>1 DEF Calm, WorkerStep
  <2> QED BY <1>1, <1>3, <1>4, <2>1, <2>2, <2>9, <2>13 DEF Holds
<1>6. CASE /\ events' = Mark(e, "dropped") \/ events' = Mark(e, "lost")
           /\ queue' = queue /\ order' = order /\ unfinished' = unfinished
  <2>1. Recast({e}, "dropped") \/ Recast({e}, "lost")
    BY <1>0, <1>1, <1>6, MarkEvent DEF Shapes, States
  <2>2. /\ Len(events') = Len(events) /\ Ids' = Ids /\ events' \in Seq(EventRows)
        /\ \A d \in Ids : events'[d].chat = events[d].chat /\ events'[d].by = events[d].by
    BY <2>1 DEF Recast
  <2>3. Shapes' BY <1>0, <1>3, <1>4, <1>6, <2>2 DEF Shapes
  <2>4. Calm BY <1>0, <1>3, <1>4, <1>6, <2>2, <2>3 DEF Calm, WorkerStep, Fits
  <2> QED BY <1>1, <1>3, <1>4, <1>6, <2>1, <2>4 DEF Holds
<1> QED BY <1>5, <1>6 DEF Put

\* A worker's step on itself alone.
WorkerOnly(w) == /\ \A v \in Queues \ {w} : worker'[v] = worker[v]
                 /\ worker'[w].chat = worker[w].chat
Rounded(w) == /\ worker'[w].chat = worker[w].chat
              /\ worker'[w].at = IF bus = "stopped" THEN "gone" ELSE IF box[worker[w].chat] = 0 THEN "poll" ELSE "get"
              /\ worker'[w].queue = IF bus = "stopped" THEN 0 ELSE box[worker[w].chat]

LEMMA RoundEffect ==
  ASSUME Structure, NEW w \in Queues, Live(w), worker' = [worker EXCEPT ![w] = Round(w)]
  PROVE  /\ worker' \in [Queues -> WorkerRows] /\ WorkerOnly(w) /\ Rounded(w)
         /\ \A v \in Queues : WorkerStep(v)
<1>0. Shapes /\ Fits BY DEF Structure
<1>1. worker[w].at # "unborn" /\ worker[w].at # "gone" BY DEF Live
<1>2. worker[w].chat \in Chats BY <1>0, <1>1, ChatsHave
<1>3. worker \in [Queues -> WorkerRows] BY <1>0 DEF Shapes
<1>4. worker'[w] = Round(w) /\ \A v \in Queues \ {w} : worker'[v] = worker[v] BY <1>3
<1>5. worker' \in [Queues -> WorkerRows] BY <1>0, <1>2, <1>3, RoundRow
<1>6. Rounded(w) BY <1>0, <1>2, <1>4, RoundRow DEF Rounded
<1>7. WorkerStep(w) BY <1>1, <1>6 DEF Rounded, WorkerStep
<1>8. \A v \in Queues : WorkerStep(v) BY <1>4, <1>7 DEF WorkerStep
<1> QED BY <1>4, <1>5, <1>6, <1>8 DEF WorkerOnly, Rounded

\* The first of a queue is taken out.
Popped(q) == /\ \A r \in Queues \ {q} : queue'[r] = queue[r]
             /\ Len(queue[q]) >= 1 /\ Len(queue'[q]) = Len(queue[q]) - 1
             /\ \A i \in 1..Len(queue'[q]) : queue'[q][i] = queue[q][i + 1]

LEMMA TakeEffect ==
  ASSUME Structure, NEW w \in Queues, Take(w)
  PROVE  /\ Calm /\ worker[w].at = "get" /\ worker[w].queue \in Queues /\ Popped(worker[w].queue)
         /\ worker'[w].at = "busy" /\ worker'[w].event = queue[worker[w].queue][1]
         /\ worker'[w].queue = worker[w].queue /\ WorkerOnly(w)
         /\ Recast({worker'[w].event}, "handling")
         /\ worker'[w].event \in Ids /\ events[worker'[w].event].chat = worker[w].chat
         /\ publisher' = publisher /\ box' = box /\ bus' = bus /\ mark' = mark /\ joined' = joined
         /\ order' = order /\ unfinished' = unfinished
<1> DEFINE q == worker[w].queue
           e == queue[q][1]
           row == [worker[w] EXCEPT !.at = "busy", !.event = e]
<1>0. Shapes /\ Fits BY DEF Structure
<1>1. worker[w] \in WorkerRows /\ worker[w].at = "get" /\ queue[q] # <<>> BY <1>0 DEF Take, Shapes
<1>2. q \in Queues BY <1>0, <1>1 DEF Fits, WorkerRows
<1>3. queue[q] \in Seq(Nat) /\ Len(queue[q]) \in Nat BY <1>0, <1>2 DEF Shapes
<1>4. Len(queue[q]) >= 1 /\ e = Head(queue[q]) BY <1>1, <1>3
<1>5. e \in Ids /\ events[e].chat = worker[q].chat
  <2>1. 1 \in 1..Len(queue[q]) BY <1>3, <1>4
  <2> QED BY <1>0, <1>2, <2>1 DEF Fits
<1>6. worker[q].chat = worker[w].chat
  <2>1. q # 0 BY <1>2, Sizes
  <2> QED BY <1>0, <2>1 DEF Fits
<1>7. /\ queue' = [queue EXCEPT ![q] = Tail(queue[q])] /\ events' = Mark(e, "handling")
      /\ worker' = [worker EXCEPT ![w] = row]
      /\ publisher' = publisher /\ box' = box /\ bus' = bus /\ mark' = mark /\ joined' = joined
      /\ order' = order /\ unfinished' = unfinished /\ quiet' \subseteq quiet /\ reaped' = reaped
  <2>1. /\ queue' = [queue EXCEPT ![q] = Tail(queue[q])] /\ events' = Mark(e, "handling")
        /\ publisher' = publisher /\ box' = box /\ bus' = bus /\ mark' = mark /\ joined' = joined
        /\ order' = order /\ unfinished' = unfinished /\ quiet' \subseteq quiet /\ reaped' = reaped
    BY <1>4 DEF Take, Stopping, BusKept
  <2>2. worker' = [worker EXCEPT ![w].at = "busy", ![w].event = e] BY <1>4 DEF Take
  <2>3. worker' = [worker EXCEPT ![w] = row] BY <1>0, <2>2 DEF Shapes
  <2> QED BY <2>1, <2>3
<1>8. /\ row \in WorkerRows /\ row.at = "busy" /\ row.event = e /\ row.queue = q /\ row.chat = worker[w].chat
  <2>1. e \in Nat BY <1>5 DEF Ids
  <2> HIDE DEF e
  <2> QED BY <1>1, <2>1 DEF WorkerRows
<1> HIDE DEF row
<1>9. worker'[w] = row /\ \A v \in Queues \ {w} : worker'[v] = worker[v] BY <1>0, <1>7 DEF Shapes
<1>10. worker' \in [Queues -> WorkerRows] BY <1>0, <1>7, <1>8 DEF Shapes
<1>11. Recast({e}, "handling") BY <1>0, <1>5, <1>7, MarkEvent DEF Shapes, States
<1>12. queue'[q] = Tail(queue[q]) /\ \A r \in Queues \ {q} : queue'[r] = queue[r]
  BY <1>0, <1>2, <1>7 DEF Shapes
<1>13. Len(queue'[q]) = Len(queue[q]) - 1 /\ \A i \in 1..Len(queue'[q]) : queue'[q][i] = queue[q][i + 1]
  BY <1>3, <1>4, <1>12
<1>14. Popped(q) BY <1>4, <1>12, <1>13 DEF Popped
<1>15. queue' \in [Queues -> Seq(Nat)]
  <2>1. Tail(queue[q]) \in Seq(Nat) BY <1>3, <1>4
  <2> QED BY <1>0, <1>7, <2>1 DEF Shapes
<1>16. ASSUME NEW r \in Queues
       PROVE  /\ Len(queue'[r]) <= QueueSize
              /\ \A i \in 1..Len(queue'[r]) : queue'[r][i] \in Ids /\ events[queue'[r][i]].chat = worker[r].chat
  <2>1. CASE r = q
    <3>1. Len(queue[q]) <= QueueSize BY <1>0, <1>2 DEF Fits
    <3>2. Len(queue'[q]) <= QueueSize BY <1>3, <1>13, <3>1, Sizes
    <3>3. ASSUME NEW i \in 1..Len(queue'[q])
          PROVE  queue'[q][i] \in Ids /\ events[queue'[q][i]].chat = worker[q].chat
      <4>1. i + 1 \in 1..Len(queue[q]) BY <1>3, <1>13
      <4>2. queue[q][i + 1] \in Ids /\ events[queue[q][i + 1]].chat = worker[q].chat
        BY <1>0, <1>2, <4>1 DEF Fits
      <4>3. queue'[q][i] = queue[q][i + 1] BY <1>13
      <4> QED BY <4>2, <4>3
    <3> QED BY <2>1, <3>2, <3>3
  <2>2. CASE r # q BY <1>0, <1>12, <2>2 DEF Fits
  <2> QED BY <2>1, <2>2
<1>17. Calm
  <2>1. Shapes' BY <1>0, <1>7, <1>10, <1>11, <1>15 DEF Shapes, Recast
  <2>2. /\ Len(events') = Len(events) /\ Ids' = Ids
        /\ \A d \in Ids : events'[d].chat = events[d].chat /\ events'[d].by = events[d].by
    BY <1>11 DEF Recast
  <2>3. WorkerStep(w) BY <1>1, <1>5, <1>6, <1>8, <1>9 DEF WorkerStep
  <2>4. \A v \in Queues : worker'[v].chat = worker[v].chat /\ WorkerStep(v)
    BY <1>8, <1>9, <2>3 DEF WorkerStep
  <2>5. \A v \in Queues : worker'[v].at = "gone" => worker[v].at = "gone" BY <1>8, <1>9
  <2> QED BY <1>7, <1>16, <2>1, <2>2, <2>4, <2>5 DEF Calm
<1> QED BY <1>1, <1>2, <1>5, <1>6, <1>7, <1>8, <1>9, <1>11, <1>14, <1>17 DEF WorkerOnly

\* Poll, and a wait that timed out.
Waiting(w) == Poll(w) \/ Timeout(w)
LEMMA WaitingEffect ==
  ASSUME Structure, NEW w \in Queues, Waiting(w)
  PROVE  /\ Calm /\ worker[w].at \in {"poll", "get"} /\ WorkerOnly(w)
         /\ Rounded(w) \/ (worker'[w].at = "expired" /\ worker'[w].queue = 0)
         /\ UNCHANGED <<events, box, queue, unfinished, publisher, bus, mark, joined, order>>
<1>0. Shapes /\ Fits BY DEF Structure
<1>1. worker[w].at \in {"poll", "get"} /\ Live(w) BY DEF Waiting, Poll, Timeout, Live
<1>2. /\ events' = events /\ box' = box /\ queue' = queue /\ unfinished' = unfinished /\ publisher' = publisher
      /\ bus' = bus /\ mark' = mark /\ joined' = joined /\ order' = order /\ quiet' = quiet /\ reaped' = reaped
  BY DEF Waiting, Poll, Timeout, Stopping, BusKept
<1>3. /\ worker' \in [Queues -> WorkerRows] /\ WorkerOnly(w) /\ \A v \in Queues : WorkerStep(v)
      /\ Rounded(w) \/ (worker'[w].at = "expired" /\ worker'[w].queue = 0)
  <2>1. CASE worker' = [worker EXCEPT ![w] = Round(w)] BY <1>1, <2>1, RoundEffect
  <2>2. CASE worker' = [worker EXCEPT ![w] = [@ EXCEPT !.at = "expired", !.queue = 0]]
    <3> DEFINE row == [worker[w] EXCEPT !.at = "expired", !.queue = 0]
    <3>1. worker[w] \in WorkerRows /\ worker \in [Queues -> WorkerRows] BY <1>0 DEF Shapes
    <3>2. row \in WorkerRows /\ row.at = "expired" /\ row.queue = 0 /\ row.chat = worker[w].chat
      BY <3>1 DEF WorkerRows
    <3>3. worker'[w] = row /\ \A v \in Queues \ {w} : worker'[v] = worker[v] BY <2>2, <3>1
    <3>4. worker' = [worker EXCEPT ![w] = row] BY <2>2, <3>1
    <3> HIDE DEF row
    <3>5. worker' \in [Queues -> WorkerRows] BY <3>1, <3>2, <3>4
    <3>6. WorkerStep(w) BY <1>1, <3>2, <3>3 DEF WorkerStep
    <3>7. \A v \in Queues : WorkerStep(v) BY <3>3, <3>6 DEF WorkerStep
    <3> QED BY <3>2, <3>3, <3>5, <3>7 DEF WorkerOnly
  <2> QED BY <2>1, <2>2 DEF Waiting, Poll, Timeout
<1>4. Shapes' BY <1>0, <1>2, <1>3 DEF Shapes
<1>5. \A v \in Queues : worker'[v].at = "gone" /\ worker[v].at # "gone" => bus = "stopped"
  BY <1>3 DEF WorkerOnly, Rounded
<1>6. Calm
  <2>1. \A v \in Queues : worker'[v].chat = worker[v].chat BY <1>3 DEF WorkerOnly
  <2>2. Ids' = Ids BY <1>2 DEF Ids
  <2>3. \A v \in Queues : worker'[v].at \notin {"unborn", "gone"} => TRUE OBVIOUS
  <2>4. \A q \in Queues : /\ Len(queue[q]) <= QueueSize
                          /\ \A i \in 1..Len(queue[q]) :
                                queue[q][i] \in Ids /\ events[queue[q][i]].chat = worker[q].chat
    BY <1>0 DEF Fits
  <2> QED BY <1>2, <1>3, <1>4, <1>5, <2>1, <2>2, <2>4 DEF Calm
<1> QED BY <1>1, <1>2, <1>3, <1>6

\* An event's handling ends, in order or with an exception.
Ending(w) == Done(w) \/ Raise(w)
LEMMA EndingEffect ==
  ASSUME Structure, NEW w \in Queues, Ending(w)
  PROVE  /\ Calm /\ worker[w].at = "busy" /\ WorkerOnly(w) /\ Rounded(w)
         /\ worker[w].event \in Ids /\ Recast({worker[w].event}, "handled")
         /\ worker[w].chat \in Chats
         /\ UNCHANGED <<box, queue, publisher, bus, mark, joined, order>>
         /\ \A r \in Queues : /\ unfinished'[r] <= unfinished[r]
                              /\ r # box[worker[w].chat] => unfinished'[r] = unfinished[r]
                              /\ unfinished[r] > 0 => unfinished'[r] >= unfinished[r] - 1
<1>0. Shapes /\ Fits BY DEF Structure
<1>1. worker[w].at = "busy" /\ Live(w) BY DEF Ending, Done, Raise, Live
<1>2. /\ events' = Mark(worker[w].event, "handled") /\ worker' = [worker EXCEPT ![w] = Round(w)]
      /\ box' = box /\ queue' = queue /\ publisher' = publisher
      /\ bus' = bus /\ mark' = mark /\ joined' = joined /\ order' = order /\ quiet' = quiet /\ reaped' = reaped
  BY DEF Ending, Done, Raise, Stopping, BusKept
<1>3. worker[w].event \in Ids BY <1>0, <1>1 DEF Fits
<1>4. Recast({worker[w].event}, "handled") BY <1>0, <1>2, <1>3, MarkEvent DEF Shapes, States
<1>5. /\ worker' \in [Queues -> WorkerRows] /\ WorkerOnly(w) /\ Rounded(w)
      /\ \A v \in Queues : WorkerStep(v)
  BY <1>1, <1>2, RoundEffect
<1>6. worker[w].chat \in Chats /\ box[worker[w].chat] \in {0} \cup Queues
  <2>1. worker[w].at # "unborn" BY <1>1
  <2>2. worker[w].chat \in Chats BY <1>0, <2>1, ChatsHave
  <2> QED BY <1>0, <2>2 DEF Shapes
<1>7. /\ unfinished' \in [Queues -> Nat]
      /\ \A r \in Queues : /\ unfinished'[r] <= unfinished[r]
                           /\ r # box[worker[w].chat] => unfinished'[r] = unfinished[r]
                           /\ unfinished[r] > 0 => unfinished'[r] >= unfinished[r] - 1
  <2>0. unfinished \in [Queues -> Nat] BY <1>0 DEF Shapes
  <2>1. CASE unfinished' = unfinished BY <2>0, <2>1
  <2>2. CASE Done(w) /\ unfinished' # unfinished
    <3> DEFINE q == box[worker[w].chat]
    <3>1. q # 0 /\ unfinished[q] # 0 /\ unfinished' = [unfinished EXCEPT ![q] = @ - 1]
      BY <2>2 DEF Done
    <3>2. q \in Queues /\ unfinished[q] \in Nat /\ unfinished[q] - 1 \in Nat BY <1>6, <2>0, <3>1
    <3> HIDE DEF q
    <3>3. unfinished' \in [Queues -> Nat] BY <2>0, <3>1, <3>2
    <3>4. unfinished'[q] = unfinished[q] - 1 /\ \A r \in Queues \ {q} : unfinished'[r] = unfinished[r]
      BY <2>0, <3>1, <3>2
    <3>5. \A r \in Queues : unfinished[r] \in Nat BY <2>0
    <3> QED BY <3>2, <3>3, <3>4, <3>5 DEF q
  <2> QED BY <2>1, <2>2 DEF Ending, Raise
<1>8. Shapes' BY <1>0, <1>2, <1>4, <1>5, <1>7 DEF Shapes, Recast
<1>9. Calm
  <2>1. \A v \in Queues : worker'[v].chat = worker[v].chat BY <1>5 DEF WorkerOnly
  <2>2. \A v \in Queues : worker'[v].at = "gone" /\ worker[v].at # "gone" => bus = "stopped"
    BY <1>5 DEF WorkerOnly, Rounded
  <2>3. /\ Len(events') = Len(events) /\ Ids' = Ids
        /\ \A d \in Ids : events'[d].chat = events[d].chat /\ events'[d].by = events[d].by
    BY <1>4 DEF Recast
  <2>4. \A q \in Queues : /\ Len(queue[q]) <= QueueSize
                          /\ \A i \in 1..Len(queue[q]) :
                                queue[q][i] \in Ids /\ events[queue[q][i]].chat = worker[q].chat
    BY <1>0 DEF Fits
  <2> QED BY <1>2, <1>5, <1>8, <2>1, <2>2, <2>3, <2>4 DEF Calm
<1> QED BY <1>1, <1>2, <1>3, <1>4, <1>5, <1>6, <1>7, <1>9

LEMMA CleanEffect ==
  ASSUME Structure, NEW w \in Queues, Clean(w)
  PROVE  /\ Calm /\ worker[w].at = "expired" /\ WorkerOnly(w) /\ worker'[w].at = "gone"
         /\ worker[w].chat \in Chats /\ box'[worker[w].chat] = 0
         /\ \A c \in Chats \ {worker[w].chat} : box'[c] = box[c]
         /\ Recast(Content({box[worker[w].chat]} \ {0}), "stranded")
         /\ UNCHANGED <<queue, unfinished, publisher, bus, mark, joined, order>>
<1> DEFINE k == worker[w].chat
           qs == {box[k]} \ {0}
           row == [worker[w] EXCEPT !.at = "gone", !.queue = 0]
<1>0. Shapes /\ Fits /\ Alone BY DEF Structure
<1>1. worker[w].at = "expired" /\ Live(w) BY DEF Clean, Live
<1>2. k \in Chats BY <1>0, <1>1, ChatsHave
<1>3. worker[w] \in WorkerRows /\ worker \in [Queues -> WorkerRows]
      /\ box \in [Chats -> {0} \cup Queues]
  BY <1>0 DEF Shapes
<1>4. /\ queue' = queue /\ unfinished' = unfinished /\ publisher' = publisher /\ bus' = bus
      /\ mark' = mark /\ joined' = joined /\ order' = order /\ quiet' \subseteq quiet /\ reaped' = reaped
      /\ Strand(qs, "stranded") /\ box' = [box EXCEPT ![k] = 0]
  BY DEF Clean, Stopping, BusKept
<1>5. worker' = [worker EXCEPT ![w] = row] BY <1>3 DEF Clean
<1>6. /\ row \in WorkerRows /\ row.at = "gone" /\ row.queue = 0 /\ row.chat = k
  BY <1>3 DEF WorkerRows
<1> HIDE DEF row
<1>7. /\ worker'[w] = row /\ (\A v \in Queues \ {w} : worker'[v] = worker[v])
      /\ worker' \in [Queues -> WorkerRows]
  BY <1>3, <1>5, <1>6
<1>8. box'[k] = 0 /\ (\A c \in Chats \ {k} : box'[c] = box[c]) /\ box' \in [Chats -> {0} \cup Queues]
  BY <1>2, <1>3, <1>4
<1>9. qs \in SUBSET Queues BY <1>2, <1>3
<1>10. Recast(Content(qs), "stranded") BY <1>0, <1>4, <1>9, StrandEvents DEF States
<1>11. Shapes' BY <1>0, <1>4, <1>7, <1>8, <1>10 DEF Shapes, Recast
<1>12. Calm
  <2>1. \A v \in Queues : worker'[v].chat = worker[v].chat BY <1>6, <1>7
  <2>2. \A v \in Queues : WorkerStep(v) BY <1>1, <1>6, <1>7 DEF WorkerStep
  <2>3. /\ Len(events') = Len(events) /\ Ids' = Ids
        /\ \A d \in Ids : events'[d].chat = events[d].chat /\ events'[d].by = events[d].by
    BY <1>10 DEF Recast
  <2>4. \A q \in Queues : /\ Len(queue[q]) <= QueueSize
                          /\ \A i \in 1..Len(queue[q]) :
                                queue[q][i] \in Ids /\ events[queue[q][i]].chat = worker[q].chat
    BY <1>0 DEF Fits
  <2>5. \A v \in Queues : worker'[v].at = "gone" /\ worker[v].at # "gone" => box'[worker[v].chat] = 0
    BY <1>7, <1>8
  <2>6. ASSUME NEW v \in Queues, worker'[v].at \notin {"unborn", "gone"}, worker[v].chat \notin reaped
        PROVE  box'[worker[v].chat] = box[worker[v].chat]
    <3>1. v # w BY <1>6, <1>7, <2>6
    <3>2. Live(v) BY <1>7, <2>6, <3>1 DEF Live
    <3>3. worker[v].chat # k BY <1>0, <1>1, <2>6, <3>1, <3>2 DEF Alone
    <3>4. worker[v].chat \in Chats BY <1>0, <3>2, ChatsHave DEF Live
    <3> QED BY <1>8, <3>3, <3>4
  <2>7. \A c \in Chats : box'[c] \in {0, box[c]} BY <1>8
  <2> HIDE DEF k, qs
  <2> QED BY <1>4, <1>11, <2>1, <2>2, <2>3, <2>4, <2>5, <2>6, <2>7 DEF Calm
<1> QED BY <1>1, <1>2, <1>4, <1>6, <1>7, <1>8, <1>10, <1>12 DEF WorkerOnly

LEMMA FinishEffect ==
  ASSUME Structure, Finish
  PROVE  /\ Calm /\ bus = "joining" /\ bus' = "stopped" /\ joined = {} /\ joined' = {}
         /\ \A c \in Chats : box'[c] = 0
         /\ Recast(Content({box[c] : c \in Open}), "late")
         /\ UNCHANGED <<queue, unfinished, publisher, worker, mark, order>>
<1>0. Shapes /\ Fits BY DEF Structure
<1>1. /\ queue' = queue /\ unfinished' = unfinished /\ publisher' = publisher /\ worker' = worker
      /\ mark' = mark /\ joined' = joined /\ order' = order /\ quiet' = {} /\ reaped' = reaped
      /\ Strand({box[c] : c \in Open}, "late") /\ box' = [c \in Chats |-> 0]
      /\ bus = "joining" /\ bus' = "stopped" /\ joined = {}
  BY DEF Finish
<1>2. {box[c] : c \in Open} \in SUBSET Queues BY <1>0 DEF Shapes, Open
<1>3. Recast(Content({box[c] : c \in Open}), "late") BY <1>0, <1>1, <1>2, StrandEvents DEF States
<1>4. Shapes' BY <1>0, <1>1, <1>3 DEF Shapes, Recast
<1>5. /\ Len(events') = Len(events) /\ Ids' = Ids
      /\ \A d \in Ids : events'[d].chat = events[d].chat /\ events'[d].by = events[d].by
  BY <1>3 DEF Recast
<1>6. Calm BY <1>0, <1>1, <1>4, <1>5 DEF Calm, WorkerStep, Fits
<1>7. \A c \in Chats : box'[c] = 0 BY <1>1
<1> QED BY <1>1, <1>3, <1>6, <1>7

\* The steps of stop() that move no event, and the passing of time.
Aside == Stop \/ Drain \/ (\E q \in Queues : Join(q)) \/ (\E c \in Chats : Quieten(c))
LEMMA AsideEffect ==
  ASSUME Structure, Aside
  PROVE  /\ Calm
         /\ UNCHANGED <<events, box, queue, unfinished, worker, publisher, order>>
         /\ \/ bus' = bus /\ mark' = mark /\ joined' = joined
            \/ bus = "running" /\ bus' = "draining"
            \/ /\ bus = "draining" /\ bus' = "joining" /\ mark' = mark /\ publisher[Processor] = Idle
               /\ joined' = {box[c] : c \in Open}
            \/ /\ bus = "joining" /\ bus' = "joining" /\ mark' = mark
               /\ \E q \in Queues : unfinished[q] = 0 /\ joined' = joined \ {q}
<1>0. Shapes /\ Fits BY DEF Structure
<1>1. /\ UNCHANGED <<events, box, queue, unfinished, worker, publisher, order>>
      /\ reaped' = reaped /\ quiet' \subseteq Chats /\ joined' \subseteq Queues
      /\ mark' \in Nat /\ mark' <= Len(events)
      /\ bus' \in {"running", "draining", "joining", "stopped"}
      /\ bus = "stopped" => bus' = "stopped"
      /\ \/ bus' = bus /\ mark' = mark /\ joined' = joined
         \/ bus = "running" /\ bus' = "draining"
         \/ /\ bus = "draining" /\ bus' = "joining" /\ mark' = mark /\ publisher[Processor] = Idle
            /\ joined' = {box[c] : c \in Open}
         \/ /\ bus = "joining" /\ bus' = "joining" /\ mark' = mark
            /\ \E q \in Queues : unfinished[q] = 0 /\ joined' = joined \ {q}
  <2>1. CASE Stop BY <1>0, <2>1 DEF Stop, Shapes
  <2>2. CASE Drain
    <3>1. {box[c] : c \in Open} \subseteq Queues BY <1>0 DEF Shapes, Open
    <3> QED BY <1>0, <2>2, <3>1 DEF Drain, Shapes
  <2>3. CASE \E q \in Queues : Join(q) BY <1>0, <2>3 DEF Join, Shapes
  <2>4. CASE \E c \in Chats : Quieten(c) BY <1>0, <2>4 DEF Quieten, Shapes, Stopping, BusKept
  <2> QED BY <2>1, <2>2, <2>3, <2>4 DEF Aside
<1>2. Shapes' BY <1>0, <1>1 DEF Shapes
<1>3. Ids' = Ids BY <1>1 DEF Ids
<1>4. Calm
  <2>1. \A q \in Queues : /\ Len(queue[q]) <= QueueSize
                          /\ \A i \in 1..Len(queue[q]) :
                                queue[q][i] \in Ids /\ events[queue[q][i]].chat = worker[q].chat
    BY <1>0 DEF Fits
  <2> QED BY <1>1, <1>2, <1>3, <2>1 DEF Calm, WorkerStep
<1> QED BY <1>1, <1>4

-----------------------------------------------------------------------------
(* The steps that are not calm.                                            *)

LEMMA PublishEffect ==
  ASSUME Structure, NEW p \in Publishers, NEW c \in Chats, Publish(p, c)
  PROVE  /\ Shapes' /\ Len(events') = Len(events) + 1
         /\ \A e \in Ids : events'[e] = events[e]
         /\ events'[Len(events) + 1] = [chat |-> c, by |-> p, state |-> "published"]
         /\ Ids' = Ids \cup {Len(events) + 1} /\ Len(events) + 1 \notin Ids
         /\ publisher[p].at = "idle" /\ publisher'[p].at \in {"put", "create"}
         /\ publisher'[p].event = Len(events) + 1
         /\ \A r \in Publishers \ {p} : publisher'[r] = publisher[r]
         /\ Cardinality(By(p)) < Limit(p)
         /\ UNCHANGED <<box, queue, unfinished, worker, bus, mark, joined, order, reaped>>
<1> DEFINE row == [chat |-> c, by |-> p, state |-> "published"]
           new == [at |-> IF c \in Open THEN "put" ELSE "create", event |-> Len(events) + 1]
<1>0. Shapes BY DEF Structure
<1>1. /\ UNCHANGED <<box, queue, unfinished, worker, bus, mark, joined, order, reaped>>
      /\ publisher[p] = Idle /\ quiet' \subseteq quiet /\ events' = Append(events, row)
      /\ publisher' = [publisher EXCEPT ![p] = new] /\ Cardinality(By(p)) < Limit(p)
  BY DEF Publish, Stopping, BusKept, By, Limit
<1>2. row \in EventRows BY DEF EventRows, States
<1>3. events \in Seq(EventRows) /\ Len(events) \in Nat BY <1>0 DEF Shapes
<1> HIDE DEF row
<1>4. /\ Len(events') = Len(events) + 1 /\ events' \in Seq(EventRows)
      /\ \A e \in 1..Len(events) : events'[e] = events[e]
      /\ events'[Len(events) + 1] = row
  BY <1>1, <1>2, <1>3
<1>5. Ids' = Ids \cup {Len(events) + 1} /\ Len(events) + 1 \notin Ids BY <1>3, <1>4 DEF Ids
<1>6. new \in PublisherRows /\ new.at \in {"put", "create"} /\ new.event = Len(events) + 1
  BY <1>3 DEF PublisherRows
<1> HIDE DEF new
<1>7. /\ publisher'[p] = new /\ (\A r \in Publishers \ {p} : publisher'[r] = publisher[r])
      /\ publisher' \in [Publishers -> PublisherRows]
  BY <1>0, <1>1, <1>6 DEF Shapes
<1>8. mark <= Len(events') /\ mark \in Nat BY <1>0, <1>3, <1>4 DEF Shapes
<1>9. Shapes' BY <1>0, <1>1, <1>4, <1>7, <1>8 DEF Shapes
<1>10. publisher[p].at = "idle" BY <1>1 DEF Idle
<1> QED BY <1>1, <1>4, <1>5, <1>6, <1>7, <1>9, <1>10 DEF row, Ids

LEMMA PublishStructure ==
  ASSUME Structure, NEW p \in Publishers, NEW c \in Chats, Publish(p, c)
  PROVE  Structure'
<1> DEFINE n == Len(events) + 1
<1>0. Structure /\ Shapes /\ Fits /\ Room /\ BoxServed /\ Latest /\ Alone BY DEF Structure
<1>1. /\ Shapes' /\ Len(events') = n
      /\ \A e \in Ids : events'[e] = events[e]
      /\ events'[n] = [chat |-> c, by |-> p, state |-> "published"]
      /\ Ids' = Ids \cup {n} /\ n \notin Ids
      /\ publisher[p].at = "idle" /\ publisher'[p].at \in {"put", "create"}
      /\ publisher'[p].event = n
      /\ \A r \in Publishers \ {p} : publisher'[r] = publisher[r]
      /\ Cardinality(By(p)) < Limit(p)
      /\ UNCHANGED <<box, queue, unfinished, worker, bus, mark, joined, order, reaped>>
  BY <1>0, PublishEffect
<1>2. Len(events) \in Nat BY <1>0 DEF Shapes
<1> HIDE DEF n
<1>3. Fits'
  <2>1. \A q \in Queues : \A i \in 1..Len(queue[q]) :
            queue[q][i] \in Ids' /\ events'[queue[q][i]].chat = worker[q].chat
    BY <1>0, <1>1 DEF Fits
  <2>2. \A w \in Queues : worker[w].at = "busy" =>
            worker[w].event \in Ids' /\ events'[worker[w].event].chat = worker[w].chat
    BY <1>0, <1>1 DEF Fits
  <2>3. ASSUME NEW r \in Publishers
        PROVE  /\ publisher'[r].at = "idle" => publisher'[r] = Idle
               /\ publisher'[r].at # "idle" => publisher'[r].event \in Ids'
    <3>1. CASE r = p BY <1>1, <3>1
    <3>2. CASE r # p BY <1>0, <1>1, <3>2 DEF Fits
    <3> QED BY <3>1, <3>2
  <2>4. Idle' = Idle BY DEF Idle
  <2> QED BY <1>0, <1>1, <2>1, <2>2, <2>3, <2>4 DEF Fits
<1>4. Room'
  <2>1. BornWorkers' = BornWorkers /\ Created' = Created BY <1>1 DEF BornWorkers, Created
  <2>2. Creating' \in SUBSET (Creating \cup {p}) BY <1>1 DEF Creating
  <2>3. Creating \in SUBSET Publishers BY DEF Creating
  <2>4. IsFiniteSet(Creating) BY <2>3, Sizes, FS_Subset
  <2>5. p \notin Creating BY <1>1 DEF Creating
  <2>6. IsFiniteSet(Creating \cup {p}) /\ Cardinality(Creating \cup {p}) = Cardinality(Creating) + 1
    BY <2>4, <2>5, FS_AddElement
  <2>7. Cardinality(Creating') <= Cardinality(Creating) + 1 BY <2>2, <2>6, FS_Subset
  <2>8. IsFiniteSet(Creating') BY <2>2, <2>6, FS_Subset
  <2>9. Cardinality(Creating') \in Nat /\ Cardinality(Creating) \in Nat
    BY <2>4, <2>8, FS_CardinalityType
  <2>10. BornWorkers \in SUBSET Queues BY DEF BornWorkers
  <2>11. Created \in Nat
    BY <2>10, Sizes, FS_Subset, FS_CardinalityType DEF Created, BornWorkers
  <2>12. Created' + Cardinality(Creating') <= Len(events')
    <3>1. Created + Cardinality(Creating) <= Len(events) BY <1>0 DEF Room
    <3> QED BY <1>1, <1>2, <2>1, <2>7, <2>9, <2>11, <3>1 DEF n
  <2>13. ASSUME NEW r \in Publishers PROVE Cardinality(By(r)') <= Limit(r)
    <3>0. Cardinality(By(r)) <= Limit(r) /\ By(r) \in SUBSET Ids BY <1>0 DEF Room, By
    <3>1. IsFiniteSet(By(r)) /\ Cardinality(By(r)) \in Nat BY <1>0, <3>0, ByFinite DEF Shapes
    <3>2. Limit(r) \in Nat BY Sizes DEF Limit
    <3>3. CASE r # p
      <4>1. By(r)' = By(r) BY <1>1, <3>3 DEF By
      <4> QED BY <3>0, <4>1
    <3>4. CASE r = p
      <4>1. By(r)' = By(r) \cup {n} BY <1>1, <3>4 DEF By
      <4>2. n \notin By(r) BY <1>1 DEF By
      <4>3. Cardinality(By(r)') = Cardinality(By(r)) + 1 BY <3>1, <4>1, <4>2, FS_AddElement
      <4>4. Cardinality(By(r)) < Limit(r) BY <1>1, <3>4
      <4> QED BY <3>1, <3>2, <4>3, <4>4
    <3> QED BY <3>3, <3>4
  <2> QED BY <1>0, <2>1, <2>12, <2>13 DEF Room, Limit
<1>5. BoxServed' /\ Latest' /\ Alone'
  BY <1>0, <1>1 DEF BoxServed, Open, Latest, Alone, Live
<1> QED BY <1>1, <1>3, <1>4, <1>5 DEF Structure

\* What becomes of the chats: the queue of the publisher's chat is there, or
\* is a new one; other chats may lose theirs, and count as reaped then.
OldQueue(k) == worker' = worker /\ box'[k] = box[k] /\ box[k] # 0
NewQueue(k, n) ==
    /\ n \in Queues /\ worker[n].at = "unborn" /\ worker[n].chat = None /\ Len(queue[n]) = 0
    /\ \A q \in Queues : worker[q].at # "unborn" => q < n
    /\ worker'[n].at = IF bus = "stopped" THEN "gone" ELSE "get"
    /\ worker'[n].chat = k /\ worker'[n].queue = n
    /\ \A w \in Queues \ {n} : worker'[w] = worker[w]
    /\ box'[k] = n /\ (k \in reaped' \/ box[k] = 0)

LEMMA CreateEffect ==
  ASSUME Structure, NEW p \in Publishers, Create(p)
  PROVE  /\ Shapes' /\ UNCHANGED <<events, queue, unfinished, bus, mark, joined, order>>
         /\ publisher[p].at = "create" /\ publisher'[p].at = "put" /\ publisher'[p].event = publisher[p].event
         /\ \A r \in Publishers \ {p} : publisher'[r] = publisher[r]
         /\ Chat(p) \in Chats /\ Holds(p) \in Ids /\ reaped \subseteq reaped'
         /\ \A c \in Chats \ {Chat(p)} : box'[c] \in {0, box[c]} /\ (c \in reaped' \/ box'[c] = box[c])
         /\ OldQueue(Chat(p)) \/ NewQueue(Chat(p), Created + 1)
<1> DEFINE k == Chat(p)
           n == Created + 1
           gone == {c \in Open \cap quiet : Cardinality(Open) >= MaxUsers /\ queue[box[c]] = <<>>}
           new == k \notin Open \ gone
           row == [publisher[p] EXCEPT !.at = "put"]
           born == Born(k, n)
<1>0. Structure /\ Shapes /\ Fits /\ Room BY DEF Structure
<1>1. /\ UNCHANGED <<events, queue, unfinished, bus, mark, joined, order>>
      /\ publisher[p].at = "create" /\ publisher' = [publisher EXCEPT ![p].at = "put"]
      /\ box' = [c \in Chats |-> IF c = k /\ new THEN n ELSE IF c \in gone THEN 0 ELSE box[c]]
      /\ worker' = [w \in Queues |-> IF new /\ w = n THEN Born(k, w) ELSE worker[w]]
      /\ reaped' = reaped \cup gone /\ quiet' = quiet \ (gone \cup {k})
  BY DEF Create, Stopping, BusKept
<1>2. gone \subseteq Open /\ Open \subseteq Chats BY DEF Open
<1>3. k \in Chats /\ Holds(p) \in Ids BY <1>0, <1>1, ChatsHave
<1>4. /\ n \in Queues /\ worker[n].at = "unborn"
      /\ \A q \in Queues : worker[q].at # "unborn" => q < n
  <2>1. /\ Created \in Nat /\ n \in Queues /\ worker[n].at = "unborn"
        /\ \A q \in Queues : worker[q].at # "unborn" => q <= Created
    BY <1>0, <1>1, NextQueue
  <2>2. \A q \in Queues : q \in Nat BY Sizes
  <2> QED BY <2>1, <2>2
<1> HIDE DEF n, gone
<1>5. worker[n].chat = None BY <1>0, <1>4 DEF Fits
<1>6. Len(queue[n]) = 0
  <2>1. queue[n] \in Seq(Nat) /\ Len(queue[n]) \in Nat BY <1>0, <1>4, ChatsHave
  <2>2. SUFFICES ASSUME Len(queue[n]) # 0 PROVE FALSE OBVIOUS
  <2>3. 1 \in 1..Len(queue[n]) BY <2>1, <2>2
  <2>4. queue[n][1] \in Ids /\ events[queue[n][1]].chat = None BY <1>0, <1>4, <1>5, <2>3 DEF Fits
  <2>5. events[queue[n][1]].chat \in Chats BY <1>0, <2>4, ChatsHave
  <2> QED BY <2>4, <2>5
<1>7. /\ born \in WorkerRows /\ born.at = IF bus = "stopped" THEN "gone" ELSE "get"
      /\ born.chat = k /\ born.queue = n
  BY <1>3, <1>4 DEF Born, WorkerRows
<1>8. worker'[n] = IF new THEN born ELSE worker[n] BY <1>1, <1>4
<1>9. \A w \in Queues \ {n} : worker'[w] = worker[w] BY <1>1
<1> HIDE DEF born
<1>10. worker' \in [Queues -> WorkerRows]
  <2>1. worker' = [w \in Queues |-> worker'[w]] BY <1>1
  <2>2. \A w \in Queues : worker'[w] \in WorkerRows BY <1>0, <1>7, <1>8, <1>9 DEF Shapes
  <2> QED BY <2>1, <2>2
<1>11. box' \in [Chats -> {0} \cup Queues] BY <1>0, <1>1, <1>4 DEF Shapes
<1>12. /\ publisher' = [publisher EXCEPT ![p] = row] /\ row \in PublisherRows
       /\ row.at = "put" /\ row.event = publisher[p].event
  <2>1. publisher[p] \in PublisherRows /\ publisher \in [Publishers -> PublisherRows] BY <1>0 DEF Shapes
  <2> QED BY <1>1, <2>1 DEF PublisherRows
<1> HIDE DEF row
<1>13. /\ publisher'[p] = row /\ (\A r \in Publishers \ {p} : publisher'[r] = publisher[r])
       /\ publisher' \in [Publishers -> PublisherRows]
  BY <1>0, <1>12 DEF Shapes
<1>14. Shapes' BY <1>0, <1>1, <1>2, <1>10, <1>11, <1>13 DEF Shapes
<1>15. \A c \in Chats \ {k} : box'[c] \in {0, box[c]} /\ (c \in reaped' \/ box'[c] = box[c])
  BY <1>1
<1>16. CASE new
  <2>1. box'[k] = n BY <1>1, <1>3, <1>16
  <2>2. k \in reaped' \/ box[k] = 0 BY <1>1, <1>3, <1>16 DEF Open
  <2>3. worker'[n] = born BY <1>8, <1>16
  <2>4. NewQueue(k, n) BY <1>4, <1>5, <1>6, <1>7, <1>9, <2>1, <2>2, <2>3 DEF NewQueue
  <2> QED BY <1>1, <1>3, <1>12, <1>13, <1>14, <1>15, <2>4 DEF n
<1>17. CASE ~new
  <2>1. k \in Open /\ k \notin gone BY <1>17
  <2>2. box'[k] = box[k] /\ box[k] # 0 BY <1>1, <1>3, <1>17, <2>1 DEF Open
  <2>3. worker' = worker
    <3>1. worker \in [Queues -> WorkerRows] BY <1>0 DEF Shapes
    <3>2. \A w \in Queues : worker'[w] = worker[w] BY <1>1, <1>17
    <3> QED BY <1>10, <3>1, <3>2
  <2>4. OldQueue(k) BY <2>2, <2>3 DEF OldQueue
  <2> QED BY <1>1, <1>3, <1>12, <1>13, <1>14, <1>15, <2>4
<1> QED BY <1>16, <1>17

LEMMA CreateStructure ==
  ASSUME Structure, NEW p \in Publishers, Create(p)
  PROVE  Structure'
<1> DEFINE k == Chat(p)
           n == Created + 1
<1>0. Structure /\ Shapes /\ Fits /\ Room /\ BoxServed /\ Latest /\ Alone BY DEF Structure
<1>1. /\ Shapes' /\ UNCHANGED <<events, queue, unfinished, bus, mark, joined, order>>
      /\ publisher[p].at = "create" /\ publisher'[p].at = "put" /\ publisher'[p].event = publisher[p].event
      /\ \A r \in Publishers \ {p} : publisher'[r] = publisher[r]
      /\ k \in Chats /\ publisher[p].event \in Ids /\ reaped \subseteq reaped'
      /\ \A c \in Chats \ {k} : box'[c] \in {0, box[c]} /\ (c \in reaped' \/ box'[c] = box[c])
      /\ OldQueue(k) \/ NewQueue(k, n)
  BY <1>0, CreateEffect DEF Holds
<1>2. /\ Created \in Nat /\ BornWorkers = 1..Created
      /\ Created + 1 + Cardinality(Creating \ {p}) <= Len(events)
      /\ Created + Cardinality(Creating) <= Len(events)
  BY <1>0, <1>1, NextQueue DEF Room
<1>3. Creating' = Creating \ {p} BY <1>1 DEF Creating
<1> HIDE DEF k
<1>4. Ids' = Ids BY <1>1 DEF Ids
<1>5. \A r \in Publishers : By(r)' = By(r) BY <1>1, <1>4 DEF By
<1>6. \A r \in Publishers : Cardinality(By(r)') <= Limit(r) BY <1>0, <1>5 DEF Room
<1>7. \A r \in Publishers : /\ publisher'[r].at = "idle" => publisher'[r] = Idle
                            /\ publisher'[r].at # "idle" => publisher'[r].event \in Ids
  BY <1>0, <1>1 DEF Fits
<1>8. Idle' = Idle BY DEF Idle
<1>9. CASE OldQueue(k)
  <2>1. worker' = worker /\ \A c \in Chats : box'[c] \in {0, box[c]} /\ (c \in reaped' \/ box'[c] = box[c])
    BY <1>1, <1>9 DEF OldQueue
  <2>2. BornWorkers' = BornWorkers /\ Created' = Created BY <2>1 DEF BornWorkers, Created
  <2>3. Room'
    <3>1. Cardinality(Creating \ {p}) \in Nat
      <4>1. Creating \ {p} \in SUBSET Publishers BY DEF Creating
      <4>2. IsFiniteSet(Creating \ {p}) BY <4>1, Sizes, FS_Subset
      <4> QED BY <4>2, FS_CardinalityType
    <3>2. Created' + Cardinality(Creating') <= Len(events') /\ Len(events) \in Nat
      <4>1. Len(events) \in Nat BY <1>0 DEF Shapes
      <4> QED BY <1>1, <1>2, <1>3, <2>2, <3>1, <4>1
    <3> QED BY <1>2, <1>6, <2>2, <3>2 DEF Room, Limit
  <2>4. Fits'
    <3>1. \A c \in Chats : box'[c] # 0 => worker'[box'[c]].chat = c BY <1>0, <2>1 DEF Fits
    <3> QED BY <1>0, <1>1, <1>4, <1>7, <1>8, <2>1, <3>1 DEF Fits
  <2>5. BoxServed' BY <1>0, <1>1, <2>1 DEF BoxServed, Open
  <2>6. Latest' BY <1>0, <2>1 DEF Latest
  <2>7. Alone'
    <3> SUFFICES ASSUME NEW w \in Queues, Live(w)', worker'[w].chat \notin reaped'
                 PROVE  /\ bus' # "stopped" => box'[worker'[w].chat] = w
                        /\ worker'[w].queue \in {0, w}
                        /\ \A v \in Queues : Live(v)' /\ worker'[v].chat = worker'[w].chat => v = w
      BY DEF Alone
    <3>1. Live(w) /\ worker[w].chat \notin reaped /\ worker[w].chat \notin reaped' BY <1>1, <2>1 DEF Live
    <3>2. worker[w].chat \in Chats BY <1>0, <3>1, ChatsHave DEF Live
    <3>3. box'[worker[w].chat] = box[worker[w].chat] BY <2>1, <3>1, <3>2
    <3> QED BY <1>0, <1>1, <2>1, <3>1, <3>3 DEF Alone, Live
  <2> QED BY <1>1, <2>3, <2>4, <2>5, <2>6, <2>7 DEF Structure
<1>10. CASE NewQueue(k, n)
  <2> HIDE DEF n
  <2>1. /\ n \in Queues /\ worker[n].at = "unborn" /\ worker[n].chat = None /\ Len(queue[n]) = 0
        /\ \A q \in Queues : worker[q].at # "unborn" => q < n
        /\ worker'[n].at = IF bus = "stopped" THEN "gone" ELSE "get"
        /\ worker'[n].chat = k /\ worker'[n].queue = n
        /\ \A w \in Queues \ {n} : worker'[w] = worker[w]
        /\ box'[k] = n /\ (k \in reaped' \/ box[k] = 0)
    BY <1>10 DEF NewQueue
  <2>2. None \notin Chats /\ n # 0 BY <2>1, Sizes
  <2>3. worker'[n].at \notin {"unborn", "busy"} BY <2>1
  <2>4. Fits'
    <3>1. \A q \in Queues : /\ Len(queue'[q]) <= QueueSize
                            /\ \A i \in 1..Len(queue'[q]) :
                                  queue'[q][i] \in Ids' /\ events'[queue'[q][i]].chat = worker'[q].chat
      BY <1>0, <1>1, <1>4, <2>1 DEF Fits
    <3>2. ASSUME NEW w \in Queues
          PROVE  /\ worker'[w].at # "unborn" <=> worker'[w].chat # None
                 /\ worker'[w].at = "unborn" => worker'[w].queue = 0
                 /\ worker'[w].queue # 0 => worker'[worker'[w].queue].chat = worker'[w].chat
                 /\ worker'[w].at \in {"get", "busy"} => worker'[w].queue # 0
                 /\ worker'[w].at = "busy" =>
                       worker'[w].event \in Ids' /\ events'[worker'[w].event].chat = worker'[w].chat
      <4>1. CASE w = n BY <1>1, <2>1, <2>2, <2>3, <4>1
      <4>2. CASE w # n
        <5>1. worker'[w] = worker[w] BY <2>1, <4>2
        <5>2. worker[w].queue # 0 => worker[worker[w].queue].chat = worker[w].chat BY <1>0 DEF Fits
        <5>3. worker[w].queue \in {0} \cup Queues
          <6>1. worker[w] \in WorkerRows BY <1>0 DEF Shapes
          <6> QED BY <6>1 DEF WorkerRows
        <5>4. worker[w].queue # n
          <6>1. worker[w].queue = n => worker[w].chat = None BY <2>1, <2>2, <5>2
          <6> QED BY <1>0, <2>2, <6>1 DEF Fits
        <5>5. worker[w].queue # 0 => worker'[worker[w].queue].chat = worker[w].chat
          BY <2>1, <5>2, <5>3, <5>4
        <5> QED BY <1>0, <1>1, <1>4, <5>1, <5>5 DEF Fits
      <4> QED BY <4>1, <4>2
    <3>3. ASSUME NEW c \in Chats PROVE box'[c] # 0 => worker'[box'[c]].chat = c
      <4>1. CASE c = k BY <2>1, <4>1
      <4>2. CASE c # k
        <5>1. box'[c] \in {0, box[c]} /\ box[c] \in {0} \cup Queues BY <1>0, <1>1, <4>2 DEF Shapes
        <5>2. box[c] # 0 => worker[box[c]].chat = c BY <1>0 DEF Fits
        <5>3. box[c] # n BY <2>1, <2>2, <5>2
        <5> QED BY <2>1, <5>1, <5>2, <5>3
      <4> QED BY <4>1, <4>2
    <3> QED BY <1>7, <1>8, <1>4, <3>1, <3>2, <3>3 DEF Fits
  <2>5. Room'
    <3>1. BornWorkers' = BornWorkers \cup {n} BY <2>1, <2>3 DEF BornWorkers
    <3>2. Created = Cardinality(BornWorkers) /\ Created' = Cardinality(BornWorkers')
      BY DEF Created, BornWorkers
    <3>3. IsFiniteSet(BornWorkers) /\ n \notin BornWorkers
      <4>1. BornWorkers \in SUBSET Queues BY DEF BornWorkers
      <4> QED BY <2>1, <4>1, Sizes, FS_Subset DEF BornWorkers
    <3>4. Created' = Created + 1 BY <3>1, <3>2, <3>3, FS_AddElement
    <3>5. BornWorkers' = 1..Created' BY <1>2, <3>1, <3>4 DEF n
    <3>6. Created' + Cardinality(Creating') <= Len(events') BY <1>1, <1>2, <1>3, <3>4
    <3> QED BY <1>6, <3>5, <3>6 DEF Room, Limit
  <2>6. BoxServed'
    <3> SUFFICES ASSUME NEW c \in Chats, box'[c] # 0, bus' # "stopped"
                 PROVE  worker'[box'[c]].at # "gone"
      BY DEF BoxServed, Open
    <3>1. CASE c = k BY <1>1, <2>1, <3>1
    <3>2. CASE c # k
      <4>1. box'[c] = box[c] /\ box[c] \in Queues BY <1>0, <1>1, <3>2 DEF Shapes
      <4>2. worker[box[c]].at # "gone" BY <1>0, <1>1, <4>1 DEF BoxServed, Open
      <4> QED BY <1>1, <2>1, <4>1, <4>2
    <3> QED BY <3>1, <3>2
  <2>7. Latest'
    <3> SUFFICES ASSUME NEW q \in Queues, NEW c \in Chats, worker'[q].chat = c, box'[c] # 0
                 PROVE  q <= box'[c]
      BY DEF Latest
    <3>0. q \in Nat /\ n \in Nat BY <2>1, Sizes
    <3>1. CASE q = n
      <4>1. c = k BY <2>1, <3>1
      <4> QED BY <2>1, <3>0, <3>1, <4>1
    <3>2. CASE q # n /\ c = k
      <4>1. worker[q].chat = c BY <2>1, <3>2
      <4>2. worker[q].at # "unborn" BY <1>0, <2>2, <4>1 DEF Fits
      <4> QED BY <2>1, <3>0, <3>2, <4>2
    <3>3. CASE q # n /\ c # k
      <4>1. worker[q].chat = c /\ box'[c] = box[c] BY <1>1, <2>1, <3>3
      <4> QED BY <1>0, <4>1 DEF Latest
    <3> QED BY <3>1, <3>2, <3>3
  <2>8. Alone'
    <3> SUFFICES ASSUME NEW w \in Queues, Live(w)', worker'[w].chat \notin reaped'
                 PROVE  /\ bus' # "stopped" => box'[worker'[w].chat] = w
                        /\ worker'[w].queue \in {0, w}
                        /\ \A v \in Queues : Live(v)' /\ worker'[v].chat = worker'[w].chat => v = w
      BY DEF Alone
    \* While the bus runs the chat had no worker; afterwards no worker begins.
    <3>1. ASSUME NEW v \in Queues, Live(v), worker[v].chat = k, k \notin reaped'
          PROVE  bus = "stopped"
      <4>1. box[k] = 0 /\ k \notin reaped BY <1>1, <2>1, <3>1
      <4>2. bus # "stopped" => box[k] = v BY <1>0, <3>1, <4>1 DEF Alone
      <4> QED BY <2>1, <4>1, <4>2, <3>1, Sizes
    <3>2. CASE w = n
      <4>1. bus # "stopped" /\ worker'[w].chat = k /\ k \notin reaped' BY <2>1, <3>2 DEF Live
      <4>2. ASSUME NEW v \in Queues, Live(v)', worker'[v].chat = worker'[w].chat PROVE v = w
        <5>1. SUFFICES ASSUME v # n PROVE FALSE BY <3>2
        <5>2. Live(v) /\ worker[v].chat = k BY <2>1, <4>1, <4>2, <5>1 DEF Live
        <5> QED BY <3>1, <4>1, <5>2
      <4> QED BY <2>1, <3>2, <4>1, <4>2
    <3>3. CASE w # n
      <4>1. worker'[w] = worker[w] /\ Live(w) /\ worker[w].chat \notin reaped
            /\ worker[w].chat \notin reaped'
        BY <1>1, <2>1, <3>3 DEF Live
      <4>2. worker[w].chat \in Chats BY <1>0, <4>1, ChatsHave DEF Live
      <4>3. bus # "stopped" => worker[w].chat # k BY <3>1, <4>1
      <4>4. bus' # "stopped" => box'[worker'[w].chat] = w
        BY <1>0, <1>1, <4>1, <4>2, <4>3 DEF Alone
      <4>5. ASSUME NEW v \in Queues, Live(v)', worker'[v].chat = worker'[w].chat PROVE v = w
        <5>1. v # n
          <6>1. SUFFICES ASSUME v = n PROVE FALSE OBVIOUS
          <6>2. bus # "stopped" /\ worker[w].chat = k BY <2>1, <4>1, <4>5, <6>1 DEF Live
          <6> QED BY <4>3, <6>2
        <5>2. Live(v) /\ worker[v].chat = worker[w].chat BY <2>1, <4>1, <4>5, <5>1 DEF Live
        <5> QED BY <1>0, <4>1, <5>2 DEF Alone
      <4> QED BY <1>0, <4>1, <4>4, <4>5 DEF Alone
    <3> QED BY <3>2, <3>3
  <2> QED BY <1>1, <2>4, <2>5, <2>6, <2>7, <2>8 DEF Structure
<1> QED BY <1>1, <1>9, <1>10

-----------------------------------------------------------------------------
(* The events on their way.                                                *)

LEMMA OrderIsStrict ==
  ASSUME Puts, NEW d, NEW e
  PROVE  /\ ~(Before(order, d, e) /\ Before(order, e, d)) /\ ~Before(order, d, d)
         /\ Before(order, d, e) => Among(order, d) /\ Among(order, e)
         /\ Among(order, d) => d \in Ids /\ events[d].state # "published"
<1>1. Before(order, d, e) => Among(order, d) /\ Among(order, e) BY DEF Before, Among
<1>2. Among(order, d) => d \in Ids /\ events[d].state # "published" BY DEF Puts, Among
<1>3. ASSUME NEW a, NEW b, Before(order, a, b), Before(order, b, a) PROVE FALSE
  <2>1. PICK i, j \in 1..Len(order) : i < j /\ order[i] = a /\ order[j] = b BY <1>3 DEF Before
  <2>2. PICK k, l \in 1..Len(order) : k < l /\ order[k] = b /\ order[l] = a BY <1>3 DEF Before
  <2>3. i = l /\ j = k BY <2>1, <2>2 DEF Puts
  <2> QED BY <2>1, <2>2, <2>3
<1> QED BY <1>1, <1>2, <1>3

\* An event sits in one place.
LEMMA SitsOnce ==
  ASSUME Shapes, Fits, Puts, Sorted, NEW p \in Queues, NEW q \in Queues,
         NEW i \in 1..Len(queue[p]), NEW j \in 1..Len(queue[q]), queue[p][i] = queue[q][j]
  PROVE  p = q /\ i = j
<1>1. worker[p].chat = worker[q].chat BY DEF Fits
<1>2. ~Before(order, queue[p][i], queue[p][i]) BY OrderIsStrict
<1>3. ~(p < q) /\ ~(p = q /\ i < j) BY <1>1, <1>2 DEF Sorted
<1>4. ~(q < p) /\ ~(q = p /\ j < i) BY <1>1, <1>2 DEF Sorted
<1>5. p \in Nat /\ q \in Nat BY Sizes
<1> QED BY <1>3, <1>4, <1>5

\* What sits in a queue was put.
LEMMA SittersWerePut ==
  ASSUME Fits, Puts, NEW q \in Queues, NEW i \in 1..Len(queue[q])
  PROVE  /\ Among(order, queue[q][i]) /\ queue[q][i] \in Ids
         /\ events[queue[q][i]].state # "published"
         /\ events[queue[q][i]].chat = worker[q].chat
BY OrderIsStrict DEF Fits, Puts

\* The steps that touch neither the events nor the queues nor what is in hand.
Still ==
    /\ Calm /\ UNCHANGED <<events, box, queue, publisher, order>>
    /\ \A w \in Queues : worker[w].at = "busy" \/ worker'[w].at = "busy" => worker'[w] = worker[w]
    /\ \A w \in Queues : Live(w)' => Live(w)
    /\ \A w \in Queues : Live(w)' => worker'[w].queue \in {0, worker[w].queue, box[worker[w].chat]}
    /\ bus = "stopped" => \A w \in Queues : Live(w)' => worker'[w].queue \in {0, worker[w].queue}

LEMMA StillFlow ==
  ASSUME Structure, Flow, Still
  PROVE  Flow'
<1>0. /\ Shapes /\ Fits /\ Alone /\ Held /\ Puts /\ Sorted /\ InHand /\ Waits /\ Located /\ Passed
  BY DEF Structure, Flow
<1>1. /\ UNCHANGED <<events, box, queue, publisher, order>> /\ reaped' = reaped /\ Ids' = Ids
      /\ \A w \in Queues : worker'[w].chat = worker[w].chat
      /\ bus = "stopped" => bus' = "stopped"
      /\ \A w \in Queues : worker[w].at = "busy" \/ worker'[w].at = "busy" => worker'[w] = worker[w]
      /\ \A w \in Queues : Live(w)' => Live(w)
      /\ \A w \in Queues : Live(w)' => worker'[w].queue \in {0, worker[w].queue, box[worker[w].chat]}
      /\ bus = "stopped" => \A w \in Queues : Live(w)' => worker'[w].queue \in {0, worker[w].queue}
  BY DEF Still, Calm
<1>2. Held' BY <1>0, <1>1 DEF Held
<1>3. Puts' BY <1>0, <1>1 DEF Puts, Among
<1>4. Sorted' BY <1>0, <1>1 DEF Sorted, Before
<1>5. InHand'
  <2>1. \A w \in Queues : worker'[w].at = "busy" <=> worker[w].at = "busy" BY <1>1
  <2>2. \A w \in Queues : worker[w].at = "busy" => worker'[w].event = worker[w].event BY <1>1
  <2> QED BY <1>0, <1>1, <2>1, <2>2 DEF InHand
<1>6. Waits'
  <2> SUFFICES ASSUME NEW q \in Queues, worker'[q].chat \notin reaped', Served(q)',
                      NEW i \in 1..Len(queue'[q])
               PROVE  events'[queue'[q][i]].state \in {"queued", "late"}
    BY DEF Waits
  <2>1. CASE \E c \in Chats : box'[c] = q BY <1>0, <1>1, <2>1 DEF Waits, Served
  <2>2. CASE Live(q)' /\ worker'[q].queue = q
    <3>1. Live(q) /\ worker[q].chat \in Chats /\ q # 0 BY <1>0, <1>1, <2>2, ChatsHave, Sizes DEF Live
    <3>2. worker[q].queue = q \/ box[worker[q].chat] = q BY <1>1, <2>2, <3>1
    <3>3. Served(q) BY <3>1, <3>2 DEF Served
    <3> QED BY <1>0, <1>1, <3>3 DEF Waits
  <2> QED BY <2>1, <2>2 DEF Served
<1>7. Located'
  <2> SUFFICES ASSUME NEW e \in Ids, events[e].chat \notin reaped
               PROVE  /\ events[e].state = "queued" =>
                            box[events[e].chat] # 0 /\ Among(queue[box[events[e].chat]], e)
                      /\ events[e].state = "late" =>
                            /\ bus' = "stopped"
                            /\ \E q \in Queues : /\ worker'[q].chat = events[e].chat /\ Among(queue[q], e)
                                  /\ \A w \in Queues : Live(w)' /\ worker'[w].chat = events[e].chat
                                        => worker'[w].queue <= q
    BY <1>1 DEF Located, Among
  <2>1. events[e].state = "queued" => box[events[e].chat] # 0 /\ Among(queue[box[events[e].chat]], e)
    BY <1>0 DEF Located
  <2>2. ASSUME events[e].state = "late"
        PROVE  /\ bus' = "stopped"
               /\ \E q \in Queues : /\ worker'[q].chat = events[e].chat /\ Among(queue[q], e)
                     /\ \A w \in Queues : Live(w)' /\ worker'[w].chat = events[e].chat
                           => worker'[w].queue <= q
    <3>1. bus = "stopped" BY <1>0, <2>2 DEF Located
    <3>2. PICK q \in Queues : /\ worker[q].chat = events[e].chat /\ Among(queue[q], e)
                              /\ \A w \in Queues : Live(w) /\ worker[w].chat = events[e].chat
                                    => worker[w].queue <= q
      BY <1>0, <2>2 DEF Located
    <3>3. q \in Nat BY Sizes
    <3>4. ASSUME NEW w \in Queues, Live(w)', worker'[w].chat = events[e].chat
          PROVE  worker'[w].queue <= q
      <4>1. Live(w) /\ worker[w].queue <= q BY <1>1, <3>2, <3>4
      <4>2. worker'[w].queue \in {0, worker[w].queue} BY <1>1, <3>1, <3>4
      <4> QED BY <3>3, <4>1, <4>2
    <3> QED BY <1>1, <3>1, <3>2, <3>4
  <2> QED BY <2>1, <2>2
<1>8. Passed' BY <1>0, <1>1 DEF Passed, Before
<1> QED BY <1>2, <1>3, <1>4, <1>5, <1>6, <1>7, <1>8 DEF Flow

LEMMA WaitingFlow ==
  ASSUME Structure, Flow, NEW w \in Queues, Waiting(w)
  PROVE  Flow'
<1>1. /\ Calm /\ worker[w].at \in {"poll", "get"} /\ WorkerOnly(w)
      /\ Rounded(w) \/ (worker'[w].at = "expired" /\ worker'[w].queue = 0)
      /\ UNCHANGED <<events, box, queue, publisher, order>>
  BY WaitingEffect
<1>2. /\ \A v \in Queues \ {w} : worker'[v] = worker[v]
      /\ worker'[w].at # "busy" /\ worker[w].at # "busy" /\ Live(w)
      /\ Live(w)' => worker'[w].queue \in {0, box[worker[w].chat]}
      /\ bus = "stopped" /\ Live(w)' => worker'[w].queue = 0
  BY <1>1 DEF WorkerOnly, Rounded, Live
<1>3. Still BY <1>1, <1>2 DEF Still, Live
<1> QED BY <1>3, StillFlow

LEMMA AsideFlow ==
  ASSUME Structure, Flow, Aside
  PROVE  Flow'
<1>1. Still BY AsideEffect DEF Still, Live
<1> QED BY <1>1, StillFlow

LEMMA PublishFlow ==
  ASSUME Structure, Flow, NEW p \in Publishers, NEW c \in Chats, Publish(p, c)
  PROVE  Flow'
<1> DEFINE n == Len(events) + 1
<1>0. /\ Shapes /\ Fits /\ Held /\ Puts /\ Sorted /\ InHand /\ Waits /\ Located /\ Passed
  BY DEF Structure, Flow
<1>1. /\ \A e \in Ids : events'[e] = events[e]
      /\ events'[n].by = p /\ events'[n].state = "published"
      /\ Ids' = Ids \cup {n} /\ n \notin Ids
      /\ publisher[p].at = "idle" /\ publisher'[p].at \in {"put", "create"} /\ publisher'[p].event = n
      /\ \A r \in Publishers \ {p} : publisher'[r] = publisher[r]
      /\ UNCHANGED <<box, queue, worker, bus, order, reaped>>
  <2>1. events'[n] = [chat |-> c, by |-> p, state |-> "published"] BY PublishEffect
  <2>2. events'[n].by = p /\ events'[n].state = "published" BY <2>1
  <2> HIDE DEF n
  <2>3. UNCHANGED <<box, queue, worker, bus, order, reaped>> BY PublishEffect
  <2> QED BY <2>2, <2>3, PublishEffect DEF n
<1> HIDE DEF n
<1>2. \A e \in Ids : events[e].by \in Publishers BY <1>0, ChatsHave
<1>3. Held'
  <2>1. ASSUME NEW r \in Publishers, publisher'[r].at # "idle"
        PROVE  /\ events'[publisher'[r].event].state = "published"
               /\ events'[publisher'[r].event].by = r
    <3>1. CASE r = p BY <1>1, <3>1
    <3>2. CASE r # p
      <4>1. publisher[r].event \in Ids BY <1>0, <1>1, <2>1, <3>2 DEF Fits
      <4> QED BY <1>0, <1>1, <2>1, <3>2, <4>1 DEF Held
    <3> QED BY <3>1, <3>2
  <2>2. ASSUME NEW e \in Ids', events'[e].state = "published"
        PROVE  publisher'[events'[e].by].at # "idle" /\ publisher'[events'[e].by].event = e
    <3>1. CASE e = n BY <1>1, <3>1
    <3>2. CASE e # n
      <4>1. e \in Ids /\ events'[e] = events[e] BY <1>1, <3>2
      <4>2. publisher[events[e].by].at # "idle" /\ publisher[events[e].by].event = e
        BY <1>0, <2>2, <4>1 DEF Held
      <4>3. events[e].by # p BY <1>1, <4>2
      <4> QED BY <1>1, <1>2, <4>1, <4>2, <4>3
    <3> QED BY <3>1, <3>2
  <2> QED BY <2>1, <2>2 DEF Held
<1>4. Puts' BY <1>0, <1>1 DEF Puts, Among
<1>5. Sorted' BY <1>0, <1>1 DEF Sorted, Before
<1>6. InHand'
  <2>1. \A w \in Queues : worker[w].at = "busy" => worker[w].event \in Ids BY <1>0 DEF Fits
  <2>2. ASSUME NEW e \in Ids', events'[e].state = "handling"
        PROVE  \E w \in Queues : worker'[w].at = "busy" /\ worker'[w].event = e
    <3>1. e \in Ids BY <1>1, <2>2
    <3> QED BY <1>0, <1>1, <2>2, <3>1 DEF InHand
  <2> QED BY <1>0, <1>1, <2>1, <2>2 DEF InHand
<1>7. Waits'
  <2>1. \A q \in Queues : \A i \in 1..Len(queue[q]) : queue[q][i] \in Ids BY <1>0 DEF Fits
  <2> QED BY <1>0, <1>1, <2>1 DEF Waits, Served, Live
<1>8. Located'
  <2> SUFFICES ASSUME NEW e \in Ids', events'[e].chat \notin reaped
               PROVE  /\ events'[e].state = "queued" =>
                            box[events'[e].chat] # 0 /\ Among(queue[box[events'[e].chat]], e)
                      /\ events'[e].state = "late" =>
                            /\ bus = "stopped"
                            /\ \E q \in Queues : /\ worker[q].chat = events'[e].chat /\ Among(queue[q], e)
                                  /\ \A w \in Queues : Live(w) /\ worker[w].chat = events'[e].chat
                                        => worker[w].queue <= q
    BY <1>1 DEF Located, Among, Live
  <2>1. CASE e = n BY <1>1, <2>1
  <2>2. CASE e # n
    <3>1. e \in Ids /\ events'[e] = events[e] BY <1>1, <2>2
    <3>2. events[e].chat \notin reaped BY <3>1
    <3> QED BY <1>0, <3>1, <3>2 DEF Located
  <2> QED BY <2>1, <2>2
<1>9. Passed'
  <2> SUFFICES ASSUME NEW d \in Ids', NEW e \in Ids', Before(order', d, e),
                      events'[d].chat = events'[e].chat, events'[e].chat \notin reaped',
                      events'[e].state \in {"handling", "handled"}
               PROVE  events'[d].state \notin {"queued", "late", "handling"}
    BY DEF Passed
  <2>1. Before(order, d, e) BY <1>1 DEF Before
  <2>2. d \in Ids /\ e \in Ids BY <1>0, <2>1, OrderIsStrict
  <2> QED BY <1>0, <1>1, <2>1, <2>2 DEF Passed
<1> QED BY <1>3, <1>4, <1>5, <1>6, <1>7, <1>8, <1>9 DEF Flow

LEMMA CreateFlow ==
  ASSUME Structure, Flow, NEW p \in Publishers, Create(p)
  PROVE  Flow'
<1> DEFINE k == Chat(p)
           n == Created + 1
<1>0. /\ Shapes /\ Fits /\ Alone /\ Held /\ Puts /\ Sorted /\ InHand /\ Waits /\ Located /\ Passed
  BY DEF Structure, Flow
<1>1. /\ UNCHANGED <<events, queue, bus, order>> /\ Ids' = Ids
      /\ publisher[p].at = "create" /\ publisher'[p].at = "put" /\ publisher'[p].event = publisher[p].event
      /\ \A r \in Publishers \ {p} : publisher'[r] = publisher[r]
      /\ k \in Chats /\ reaped \subseteq reaped'
      /\ \A c \in Chats \ {k} : box'[c] \in {0, box[c]} /\ (c \in reaped' \/ box'[c] = box[c])
      /\ OldQueue(k) \/ NewQueue(k, n)
  BY CreateEffect DEF Ids
<1> HIDE DEF k, n
\* A worker is as it was, or new and on an empty queue.
<1>2. ASSUME NEW w \in Queues
      PROVE  \/ worker'[w] = worker[w]
             \/ /\ NewQueue(k, n) /\ w = n
                /\ Len(queue[w]) = 0 /\ worker[w].at = "unborn" /\ worker'[w].chat = k
                /\ worker'[w].at = IF bus = "stopped" THEN "gone" ELSE "get"
  BY <1>1 DEF OldQueue, NewQueue
<1>3. \A w \in Queues : Len(queue[w]) # 0 => worker'[w] = worker[w] BY <1>2
<1>4. \A w \in Queues : worker'[w].at = "busy" \/ worker[w].at = "busy" => worker'[w] = worker[w]
  BY <1>2
<1>5. ASSUME NEW q \in Queues, Served(q)' PROVE Len(queue[q]) = 0 \/ (worker'[q] = worker[q] /\ Served(q))
  <2>1. SUFFICES ASSUME Len(queue[q]) # 0, worker'[q] = worker[q] PROVE Served(q) BY <1>3
  <2>2. CASE Live(q)' /\ worker'[q].queue = q BY <2>1, <2>2 DEF Served, Live
  <2>3. CASE \E c \in Chats : box'[c] = q
    <3>1. PICK c \in Chats : box'[c] = q BY <2>3
    <3>2. q # 0 BY Sizes
    <3>3. CASE c # k BY <1>1, <3>1, <3>2, <3>3 DEF Served
    <3>4. CASE c = k
      <4>1. ~NewQueue(k, n) BY <2>1, <3>1, <3>4 DEF NewQueue
      <4>2. box[k] = q BY <1>1, <3>1, <3>4, <4>1 DEF OldQueue
      <4> QED BY <1>1, <4>2 DEF Served
    <3> QED BY <3>3, <3>4
  <2> QED BY <1>5, <2>2, <2>3 DEF Served
<1>6. Held'
  <2>1. \A r \in Publishers : /\ publisher'[r].event = publisher[r].event
                              /\ publisher'[r].at # "idle" <=> publisher[r].at # "idle"
    BY <1>1
  <2>2. \A e \in Ids : events[e].by \in Publishers BY <1>0, ChatsHave
  <2> QED BY <1>0, <1>1, <2>1, <2>2 DEF Held
<1>7. Puts' BY <1>0, <1>1 DEF Puts, Among
<1>8. Sorted'
  <2> SUFFICES ASSUME NEW q \in Queues, NEW r \in Queues, worker'[q].chat = worker'[r].chat,
                      NEW i \in 1..Len(queue[q]), NEW j \in 1..Len(queue[r]), q < r \/ (q = r /\ i < j)
               PROVE  Before(order, queue[q][i], queue[r][j])
    BY <1>1 DEF Sorted, Before
  <2>1. Len(queue[q]) # 0 /\ Len(queue[r]) # 0 BY <1>0, ChatsHave
  <2>2. worker[q].chat = worker[r].chat BY <1>3, <2>1
  <2> QED BY <1>0, <2>2 DEF Sorted
<1>9. InHand' BY <1>0, <1>1, <1>4 DEF InHand
<1>10. Waits'
  <2> SUFFICES ASSUME NEW q \in Queues, worker'[q].chat \notin reaped', Served(q)',
                      NEW i \in 1..Len(queue[q])
               PROVE  events[queue[q][i]].state \in {"queued", "late"}
    BY <1>1 DEF Waits
  <2>1. Len(queue[q]) # 0 BY <1>0, ChatsHave
  <2>2. worker'[q] = worker[q] /\ Served(q) BY <1>5, <2>1
  <2> QED BY <1>0, <1>1, <2>2 DEF Waits
<1>11. Located'
  <2> SUFFICES ASSUME NEW e \in Ids, events[e].chat \notin reaped'
               PROVE  /\ events[e].state = "queued" =>
                            box'[events[e].chat] # 0 /\ Among(queue'[box'[events[e].chat]], e)
                      /\ events[e].state = "late" =>
                            /\ bus' = "stopped"
                            /\ \E q \in Queues : /\ worker'[q].chat = events[e].chat /\ Among(queue[q], e)
                                  /\ \A w \in Queues : Live(w)' /\ worker'[w].chat = events[e].chat
                                        => worker'[w].queue <= q
    BY <1>1 DEF Located, Among
  <2>0. events[e].chat \in Chats /\ events[e].chat \notin reaped BY <1>0, <1>1, ChatsHave
  <2>1. ASSUME events[e].state = "queued"
        PROVE  box'[events[e].chat] # 0 /\ Among(queue'[box'[events[e].chat]], e)
    <3>1. box[events[e].chat] # 0 /\ Among(queue[box[events[e].chat]], e) BY <1>0, <2>0, <2>1 DEF Located
    <3>2. box'[events[e].chat] = box[events[e].chat]
      BY <1>1, <2>0, <3>1 DEF OldQueue, NewQueue
    <3> QED BY <1>1, <3>1, <3>2 DEF Among
  <2>2. ASSUME events[e].state = "late"
        PROVE  /\ bus' = "stopped"
               /\ \E q \in Queues : /\ worker'[q].chat = events[e].chat /\ Among(queue[q], e)
                     /\ \A w \in Queues : Live(w)' /\ worker'[w].chat = events[e].chat
                           => worker'[w].queue <= q
    <3>1. bus = "stopped" BY <1>0, <2>0, <2>2 DEF Located
    <3>2. PICK q \in Queues : /\ worker[q].chat = events[e].chat /\ Among(queue[q], e)
                              /\ \A w \in Queues : Live(w) /\ worker[w].chat = events[e].chat
                                    => worker[w].queue <= q
      BY <1>0, <2>0, <2>2 DEF Located
    <3>3. Len(queue[q]) # 0 BY <1>0, <3>2, ChatsHave DEF Among
    <3>4. worker'[q].chat = events[e].chat BY <1>3, <3>2, <3>3
    <3>5. \A w \in Queues : Live(w)' => worker'[w] = worker[w] BY <1>2, <3>1 DEF Live
    <3> QED BY <1>1, <3>1, <3>2, <3>4, <3>5 DEF Live
  <2> QED BY <2>1, <2>2
<1>12. Passed' BY <1>0, <1>1 DEF Passed, Before
<1> QED BY <1>6, <1>7, <1>8, <1>9, <1>10, <1>11, <1>12 DEF Flow

\* A put adds its event at the end of the order.
LEMMA PutsGrow ==
  ASSUME Shapes, Puts, NEW e, ~Among(order, e), Len(order') = Len(order) + 1, order'[Len(order) + 1] = e,
         \A i \in 1..Len(order) : order'[i] = order[i]
  PROVE  /\ \A d : Among(order', d) <=> Among(order, d) \/ d = e
         /\ \A c, d : Before(order', c, d) <=> Before(order, c, d) \/ (Among(order, c) /\ d = e)
         /\ \A i, j \in 1..Len(order') : order'[i] = order'[j] => i = j
<1>1. Len(order) \in Nat /\ 1..Len(order') = 1..Len(order) \cup {Len(order) + 1} BY DEF Shapes
<1>2. \A i \in 1..Len(order) : order[i] # e BY DEF Among
<1>3. ASSUME NEW d PROVE Among(order', d) <=> Among(order, d) \/ d = e BY <1>1 DEF Among
<1>4. \A i, j \in 1..Len(order') : order'[i] = order'[j] => i = j BY <1>1, <1>2 DEF Puts
<1>5. ASSUME NEW c, NEW d PROVE Before(order', c, d) <=> Before(order, c, d) \/ (Among(order, c) /\ d = e)
  <2>1. ASSUME Before(order', c, d) PROVE Before(order, c, d) \/ (Among(order, c) /\ d = e)
    <3>1. PICK i, j \in 1..Len(order') : i < j /\ order'[i] = c /\ order'[j] = d
      BY <2>1 DEF Before
    <3>2. i \in 1..Len(order) /\ order[i] = c BY <1>1, <3>1
    <3>3. CASE j = Len(order) + 1 BY <3>1, <3>2, <3>3 DEF Among
    <3>4. CASE j # Len(order) + 1
      <4>1. j \in 1..Len(order) /\ order[j] = d BY <1>1, <3>1, <3>4
      <4> QED BY <3>1, <3>2, <4>1 DEF Before
    <3> QED BY <3>3, <3>4
  <2>2. ASSUME Before(order, c, d) PROVE Before(order', c, d) BY <1>1, <2>2 DEF Before
  <2>3. ASSUME Among(order, c), d = e PROVE Before(order', c, d)
    <3>1. PICK i \in 1..Len(order) : order[i] = c BY <2>3 DEF Among
    <3>2. /\ i \in 1..Len(order') /\ Len(order) + 1 \in 1..Len(order') /\ i < Len(order) + 1
          /\ order'[i] = c /\ order'[Len(order) + 1] = d
      BY <1>1, <2>3, <3>1
    <3> QED BY <3>2 DEF Before
  <2> QED BY <2>1, <2>2, <2>3
<1> QED BY <1>3, <1>4, <1>5

LEMMA PutFlow ==
  ASSUME Structure, Flow, NEW p \in Publishers, Put(p)
  PROVE  Flow'
<1> DEFINE e == Holds(p)
           q == box[Chat(p)]
<1>0. /\ Shapes /\ Fits /\ Latest /\ Held /\ Puts /\ Sorted /\ InHand /\ Waits /\ Located /\ Passed
  BY DEF Structure, Flow
<1>1. /\ Calm /\ worker' = worker /\ box' = box /\ bus' = bus
      /\ e \in Ids /\ Chat(p) \in Chats /\ publisher[p].at = "put"
      /\ publisher'[p] = Idle /\ (\A r \in Publishers \ {p} : publisher'[r] = publisher[r])
      /\ \/ q \in Queues /\ Recast({e}, "queued") /\ Appended(q, e)
         \/ /\ Recast({e}, "dropped") \/ Recast({e}, "lost")
            /\ queue' = queue /\ order' = order
  BY PutEffect
<1>2. events[e].chat = Chat(p) /\ reaped' = reaped /\ Ids' = Ids BY <1>1 DEF Chat, Holds, Calm
<1> HIDE DEF e, q
<1>3. events[e].state = "published" /\ events[e].by = p BY <1>0, <1>1 DEF Held, e, Holds
<1>4. ~Among(order, e) BY <1>0, <1>3, OrderIsStrict
<1>5. \A d \in Ids : /\ events'[d].chat = events[d].chat /\ events'[d].by = events[d].by
                     /\ d # e => events'[d].state = events[d].state
  BY <1>1 DEF Recast
<1>6. events'[e].state \in {"queued", "dropped", "lost"} BY <1>1 DEF Recast
<1>7. ASSUME NEW r \in Queues, NEW i \in 1..Len(queue[r])
      PROVE  /\ queue[r][i] # e /\ queue[r][i] \in Ids /\ Among(order, queue[r][i])
             /\ events'[queue[r][i]].state = events[queue[r][i]].state
  BY <1>0, <1>4, <1>5, SittersWerePut
\* What a queue holds after the step.
<1>8. ASSUME NEW r \in Queues, NEW i \in 1..Len(queue'[r])
      PROVE  \/ i \in 1..Len(queue[r]) /\ queue'[r][i] = queue[r][i]
             \/ r = q /\ Appended(q, e) /\ i = Len(queue[q]) + 1 /\ queue'[r][i] = e
  <2>1. Len(queue[r]) \in Nat BY <1>0, ChatsHave
  <2>2. CASE queue' = queue BY <2>2
  <2>3. CASE Appended(q, e) BY <2>1, <2>3 DEF Appended
  <2> QED BY <1>1, <2>2, <2>3
<1>9. ASSUME NEW r \in Queues, NEW i \in 1..Len(queue[r])
      PROVE  i \in 1..Len(queue'[r]) /\ queue'[r][i] = queue[r][i]
  <2>1. Len(queue[r]) \in Nat BY <1>0, ChatsHave
  <2>2. CASE queue' = queue BY <2>2
  <2>3. CASE Appended(q, e) BY <2>1, <2>3 DEF Appended
  <2> QED BY <1>1, <2>2, <2>3
\* What is known of the order after the step.
<1>10. /\ \A d : Among(order, d) => Among(order', d)
       /\ \A d : Among(order', d) => Among(order, d) \/ d = e
       /\ \A c, d : Before(order, c, d) => Before(order', c, d)
       /\ \A c, d : Before(order', c, d) => Before(order, c, d) \/ (Among(order, c) /\ d = e /\ Appended(q, e))
       /\ \A i, j \in 1..Len(order') : order'[i] = order'[j] => i = j
       /\ Appended(q, e) => Among(order', e) /\ \A d : Among(order, d) => Before(order', d, e)
       /\ Among(order', e) => Appended(q, e)
  <2>1. CASE order' = order
    <3>1. /\ \A d : Among(order', d) <=> Among(order, d)
          /\ \A c, d : Before(order', c, d) <=> Before(order, c, d)
      BY <2>1 DEF Among, Before
    <3>2. \A i, j \in 1..Len(order') : order'[i] = order'[j] => i = j BY <1>0, <2>1 DEF Puts
    <3>3. ~Appended(q, e)
      <4>1. Len(order) \in Nat BY <1>0, ChatsHave
      <4> QED BY <2>1, <4>1 DEF Appended
    <3> QED BY <1>4, <3>1, <3>2, <3>3
  <2>2. CASE Appended(q, e)
    <3>1. /\ Len(order') = Len(order) + 1 /\ order'[Len(order) + 1] = e
          /\ \A i \in 1..Len(order) : order'[i] = order[i]
      BY <2>2 DEF Appended
    <3>2. /\ \A d : Among(order', d) <=> Among(order, d) \/ d = e
          /\ \A c, d : Before(order', c, d) <=> Before(order, c, d) \/ (Among(order, c) /\ d = e)
          /\ \A i, j \in 1..Len(order') : order'[i] = order'[j] => i = j
      BY <1>0, <1>4, <3>1, PutsGrow
    <3> QED BY <2>2, <3>2
  <2> QED BY <1>1, <2>1, <2>2
<1>11. Appended(q, e) => events'[e].state = "queued" /\ q \in Queues
  <2>1. Len(order) \in Nat BY <1>0, ChatsHave
  <2> QED BY <1>1, <2>1 DEF Appended, Recast
<1>12. Held'
  <2>1. ASSUME NEW r \in Publishers, publisher'[r].at # "idle"
        PROVE  /\ events'[publisher'[r].event].state = "published"
               /\ events'[publisher'[r].event].by = r
    <3>1. r # p /\ publisher'[r] = publisher[r] BY <1>1, <2>1 DEF Idle
    <3>2. events[publisher[r].event].state = "published" /\ events[publisher[r].event].by = r
      BY <1>0, <2>1, <3>1 DEF Held
    <3>3. publisher[r].event \in Ids /\ publisher[r].event # e
      BY <1>0, <1>3, <2>1, <3>1, <3>2 DEF Fits
    <3> QED BY <1>5, <3>1, <3>2, <3>3
  <2>2. ASSUME NEW d \in Ids, events'[d].state = "published"
        PROVE  publisher'[events'[d].by].at # "idle" /\ publisher'[events'[d].by].event = d
    <3>1. d # e /\ events[d].state = "published" /\ events'[d].by = events[d].by BY <1>5, <1>6, <2>2
    <3>2. publisher[events[d].by].at # "idle" /\ publisher[events[d].by].event = d
      BY <1>0, <3>1 DEF Held
    <3>3. events[d].by # p BY <3>1, <3>2 DEF e, Holds
    <3>4. events[d].by \in Publishers BY <1>0, ChatsHave
    <3> QED BY <1>1, <3>1, <3>2, <3>3, <3>4
  <2> QED BY <1>2, <2>1, <2>2 DEF Held
<1>13. Puts'
  <2>1. ASSUME NEW i \in 1..Len(order') PROVE order'[i] \in Ids /\ events'[order'[i]].state # "published"
    <3>1. Among(order', order'[i]) BY DEF Among
    <3>2. Among(order, order'[i]) \/ (order'[i] = e) BY <1>10, <3>1
    <3>3. Among(order, order'[i]) => order'[i] \in Ids /\ events[order'[i]].state # "published"
      BY <1>0, OrderIsStrict
    <3> QED BY <1>1, <1>5, <1>6, <3>2, <3>3
  <2>2. ASSUME NEW r \in Queues, NEW i \in 1..Len(queue'[r]) PROVE Among(order', queue'[r][i])
    <3>1. CASE i \in 1..Len(queue[r]) /\ queue'[r][i] = queue[r][i]
      <4>1. Among(order, queue[r][i]) BY <1>7, <3>1
      <4> QED BY <1>10, <3>1, <4>1
    <3>2. CASE Appended(q, e) /\ queue'[r][i] = e BY <1>10, <3>2
    <3> QED BY <1>8, <3>1, <3>2
  <2> QED BY <1>2, <1>10, <2>1, <2>2 DEF Puts
<1>14. Sorted'
  <2> SUFFICES ASSUME NEW r \in Queues, NEW s \in Queues, worker[r].chat = worker[s].chat,
                      NEW i \in 1..Len(queue'[r]), NEW j \in 1..Len(queue'[s]), r < s \/ (r = s /\ i < j)
               PROVE  Before(order', queue'[r][i], queue'[s][j])
    BY <1>1 DEF Sorted
  <2>1. CASE i \in 1..Len(queue[r]) /\ queue'[r][i] = queue[r][i]
    <3>1. CASE j \in 1..Len(queue[s]) /\ queue'[s][j] = queue[s][j]
      <4>1. Before(order, queue[r][i], queue[s][j]) BY <1>0, <2>1, <3>1 DEF Sorted
      <4> QED BY <1>10, <2>1, <3>1, <4>1
    <3>2. CASE Appended(q, e) /\ queue'[s][j] = e
      <4>1. Among(order, queue[r][i]) BY <1>7, <2>1
      <4> QED BY <1>10, <2>1, <3>2, <4>1
    <3> QED BY <1>8, <3>1, <3>2
  <2>2. CASE r = q /\ Appended(q, e) /\ i = Len(queue[q]) + 1
    <3>1. q \in Queues /\ q # 0 /\ q \in Nat /\ Len(queue[q]) \in Nat
      BY <1>0, <1>11, <2>2, Sizes, ChatsHave
    <3>2. worker[q].chat = Chat(p) BY <1>0, <1>1, <3>1 DEF Fits, q
    <3>3. s <= q BY <1>0, <1>1, <2>2, <3>1, <3>2 DEF Latest, q
    <3>4. s = q /\ i < j
      <4>1. s \in Nat /\ r \in Nat BY Sizes
      <4> QED BY <2>2, <3>1, <3>3, <4>1
    <3>5. Len(queue'[q]) = Len(queue[q]) + 1 BY <2>2 DEF Appended
    <3> QED BY <2>2, <3>1, <3>4, <3>5
  <2> QED BY <1>8, <2>1, <2>2
<1>15. InHand'
  <2>1. ASSUME NEW w \in Queues, worker[w].at = "busy"
        PROVE  /\ worker[w].event \in Ids /\ worker[w].event # e
               /\ events'[worker[w].event].state = "handling"
               /\ \A r \in Queues : \A i \in 1..Len(queue'[r]) : queue'[r][i] # worker[w].event
    <3>1. worker[w].event \in Ids /\ events[worker[w].event].state = "handling"
      BY <1>0, <2>1 DEF Fits, InHand
    <3>2. worker[w].event # e BY <1>3, <3>1
    <3>3. \A r \in Queues : \A i \in 1..Len(queue[r]) : queue[r][i] # worker[w].event
      BY <1>0, <2>1 DEF InHand
    <3> QED BY <1>5, <1>8, <3>1, <3>2, <3>3
  <2>2. \A d \in Ids : events'[d].state = "handling" => events[d].state = "handling" BY <1>5, <1>6
  <2> QED BY <1>0, <1>1, <1>2, <2>1, <2>2 DEF InHand
<1>16. Waits'
  <2> SUFFICES ASSUME NEW r \in Queues, worker[r].chat \notin reaped, Served(r),
                      NEW i \in 1..Len(queue'[r])
               PROVE  events'[queue'[r][i]].state \in {"queued", "late"}
    BY <1>1, <1>2 DEF Waits, Served, Live
  <2>1. CASE i \in 1..Len(queue[r]) /\ queue'[r][i] = queue[r][i]
    <3>1. events[queue[r][i]].state \in {"queued", "late"} BY <1>0, <2>1 DEF Waits
    <3> QED BY <1>7, <2>1, <3>1
  <2>2. CASE Appended(q, e) /\ queue'[r][i] = e BY <1>11, <2>2
  <2> QED BY <1>8, <2>1, <2>2
<1>17. Located'
  <2>0. ASSUME NEW d, NEW r \in Queues, Among(queue[r], d) PROVE Among(queue'[r], d) BY <1>9, <2>0 DEF Among
  <2> SUFFICES ASSUME NEW d \in Ids, events[d].chat \notin reaped
               PROVE  /\ events'[d].state = "queued" =>
                            box[events[d].chat] # 0 /\ Among(queue'[box'[events[d].chat]], d)
                      /\ events'[d].state = "late" =>
                            /\ bus = "stopped"
                            /\ \E r \in Queues : /\ worker[r].chat = events[d].chat /\ Among(queue'[r], d)
                                  /\ \A w \in Queues : Live(w) /\ worker[w].chat = events[d].chat
                                        => worker[w].queue <= r
    BY <1>1, <1>2, <1>5 DEF Located, Among, Live
  <2>1. CASE d = e
    <3>1. events'[e].state # "late" BY <1>6
    <3>2. ASSUME events'[e].state = "queued" PROVE q # 0 /\ Among(queue'[q], e)
      <4>1. Appended(q, e) BY <1>1, <3>2 DEF Recast
      <4>2. q \in Queues /\ Len(queue[q]) \in Nat BY <1>0, <1>11, <4>1, ChatsHave
      <4>3. Len(queue[q]) + 1 \in 1..Len(queue'[q]) /\ queue'[q][Len(queue[q]) + 1] = e
        BY <4>1, <4>2 DEF Appended
      <4> QED BY <4>2, <4>3, Sizes DEF Among
    <3>3. q = box[events[d].chat] BY <1>2, <2>1 DEF q
    <3> QED BY <1>1, <2>1, <3>1, <3>2, <3>3 DEF Among
  <2>2. CASE d # e
    <3>1. events'[d].state = events[d].state /\ box[events[d].chat] \in {0} \cup Queues
      BY <1>0, <1>5, <2>2, ChatsHave DEF Shapes
    <3>2. ASSUME events[d].state = "queued"
          PROVE  box[events[d].chat] # 0 /\ Among(queue'[box'[events[d].chat]], d)
      <4>1. box[events[d].chat] # 0 /\ Among(queue[box[events[d].chat]], d) BY <1>0, <3>2 DEF Located
      <4>2. box'[events[d].chat] = box[events[d].chat] BY <1>1
      <4>3. PICK i \in 1..Len(queue[box[events[d].chat]]) : queue[box[events[d].chat]][i] = d
        BY <4>1 DEF Among
      <4> QED BY <1>9, <3>1, <4>1, <4>2, <4>3 DEF Among
    <3>3. ASSUME events[d].state = "late"
          PROVE  /\ bus = "stopped"
                 /\ \E r \in Queues : /\ worker[r].chat = events[d].chat /\ Among(queue'[r], d)
                       /\ \A w \in Queues : Live(w) /\ worker[w].chat = events[d].chat
                             => worker[w].queue <= r
      BY <1>0, <2>0, <3>3 DEF Located
    <3> QED BY <3>1, <3>2, <3>3
  <2> QED BY <2>1, <2>2
<1>18. Passed'
  <2> SUFFICES ASSUME NEW c \in Ids, NEW d \in Ids, Before(order', c, d),
                      events[c].chat = events[d].chat, events[d].chat \notin reaped,
                      events'[d].state \in {"handling", "handled"}
               PROVE  events'[c].state \notin {"queued", "late", "handling"}
    BY <1>2, <1>5 DEF Passed
  <2>1. d # e /\ events[d].state \in {"handling", "handled"} BY <1>5, <1>6
  <2>2. Before(order, c, d) BY <1>10, <2>1
  <2>3. c # e BY <1>0, <1>4, <2>2, OrderIsStrict
  <2> QED BY <1>0, <1>5, <2>1, <2>2, <2>3 DEF Passed
<1> QED BY <1>12, <1>13, <1>14, <1>15, <1>16, <1>17, <1>18 DEF Flow

\* What was put gets another state, and leaves its queue or stays there.
LEMMA RecastKeeps ==
  ASSUME Shapes, Fits, Held, Puts, Calm, NEW S, NEW st \in States \ {"published"}, Recast(S, st),
         \A e \in S : Among(order, e), publisher' = publisher, order' = order,
         \A r \in Queues : \A i \in 1..Len(queue'[r]) : Among(queue[r], queue'[r][i])
  PROVE  Held' /\ Puts'
<1>1. /\ Ids' = Ids
      /\ \A e \in Ids : /\ events'[e].by = events[e].by
                        /\ events'[e].state = IF e \in S THEN st ELSE events[e].state
  BY DEF Recast
<1>2. \A e \in S : e \in Ids /\ events[e].state # "published" BY OrderIsStrict
<1>3. Held'
  <2>1. ASSUME NEW r \in Publishers, publisher[r].at # "idle"
        PROVE  /\ events'[publisher[r].event].state = "published"
               /\ events'[publisher[r].event].by = r
    BY <1>1, <1>2, <2>1 DEF Held, Fits
  <2>2. ASSUME NEW e \in Ids, events'[e].state = "published"
        PROVE  events[e].state = "published" /\ events'[e].by = events[e].by
    BY <1>1, <2>2
  <2>3. \A e \in Ids : events'[e].state = "published" =>
            publisher[events'[e].by].at # "idle" /\ publisher[events'[e].by].event = e
    BY <2>2 DEF Held
  <2> QED BY <1>1, <2>1, <2>3 DEF Held
<1>4. Puts'
  <2>1. \A i \in 1..Len(order) : order[i] \in Ids /\ events'[order[i]].state # "published"
    BY <1>1 DEF Puts
  <2>2. ASSUME NEW r \in Queues, NEW i \in 1..Len(queue'[r]) PROVE Among(order, queue'[r][i])
    <3>1. PICK j \in 1..Len(queue[r]) : queue[r][j] = queue'[r][i] BY DEF Among
    <3> QED BY <3>1 DEF Puts
  <2> QED BY <1>1, <2>1, <2>2 DEF Puts
<1> QED BY <1>3, <1>4

LEMMA TakeFlow ==
  ASSUME Structure, Flow, NEW w \in Queues, Take(w)
  PROVE  Flow'
<1> DEFINE q == worker[w].queue
           e == worker'[w].event
           k == worker[w].chat
<1>0. /\ Shapes /\ Fits /\ Latest /\ Alone /\ Held /\ Puts /\ Sorted /\ InHand /\ Waits /\ Located /\ Passed
  BY DEF Structure, Flow
<1>1. /\ Calm /\ worker[w].at = "get" /\ q \in Queues /\ Popped(q)
      /\ worker'[w].at = "busy" /\ e = queue[q][1] /\ worker'[w].queue = q /\ worker'[w].chat = k
      /\ \A v \in Queues \ {w} : worker'[v] = worker[v]
      /\ Recast({e}, "handling") /\ e \in Ids /\ events[e].chat = k
      /\ publisher' = publisher /\ box' = box /\ bus' = bus /\ order' = order
  BY TakeEffect DEF WorkerOnly
<1>2. reaped' = reaped /\ Ids' = Ids /\ \A v \in Queues : worker'[v].chat = worker[v].chat
  BY <1>1 DEF Calm
<1>3. /\ \A v \in Queues : worker'[v].queue = worker[v].queue
      /\ \A v \in Queues : Live(v)' <=> Live(v)
      /\ Live(w)
  BY <1>1 DEF Live
<1> HIDE DEF q, e, k
<1>4. \A d \in Ids : /\ events'[d].chat = events[d].chat
                     /\ events'[d].state = IF d = e THEN "handling" ELSE events[d].state
  BY <1>1 DEF Recast
<1>5. Len(queue[q]) \in Nat /\ 1 \in 1..Len(queue[q]) BY <1>0, <1>1, ChatsHave DEF Popped
\* What a queue holds after the step it held before, behind the event that was taken.
<1>6. ASSUME NEW r \in Queues, NEW i \in 1..Len(queue'[r])
      PROVE  \/ r # q /\ i \in 1..Len(queue[r]) /\ queue'[r][i] = queue[r][i]
             \/ r = q /\ i + 1 \in 1..Len(queue[r]) /\ queue'[r][i] = queue[r][i + 1]
  <2>1. CASE r # q BY <1>1, <2>1 DEF Popped
  <2>2. CASE r = q
    <3>1. Len(queue'[q]) = Len(queue[q]) - 1 BY <1>1 DEF Popped
    <3>2. i + 1 \in 1..Len(queue[q]) BY <1>5, <2>2, <3>1
    <3>3. queue'[q][i] = queue[q][i + 1] BY <1>1, <2>2 DEF Popped
    <3> QED BY <2>2, <3>2, <3>3
  <2> QED BY <2>1, <2>2
<1>7. ASSUME NEW r \in Queues, NEW i \in 1..Len(queue'[r])
      PROVE  Among(queue[r], queue'[r][i]) /\ queue'[r][i] \in Ids /\ queue'[r][i] # e
  <2>1. CASE r # q /\ i \in 1..Len(queue[r]) /\ queue'[r][i] = queue[r][i]
    <3>1. queue[r][i] # e BY <1>0, <1>1, <1>5, <2>1, SitsOnce
    <3> QED BY <1>0, <2>1, <3>1 DEF Among, Fits
  <2>2. CASE r = q /\ i + 1 \in 1..Len(queue[r]) /\ queue'[r][i] = queue[r][i + 1]
    <3>1. i \in Nat /\ i >= 1
      <4>1. Len(queue'[q]) = Len(queue[q]) - 1 BY <1>1 DEF Popped
      <4> QED BY <1>5, <2>2, <4>1
    <3>2. i + 1 # 1 BY <3>1
    <3>3. queue[q][i + 1] # e BY <1>0, <1>1, <1>5, <2>2, <3>2, SitsOnce
    <3> QED BY <1>0, <2>2, <3>3 DEF Among, Fits
  <2> QED BY <1>6, <2>1, <2>2
<1>8. ASSUME NEW d, NEW r \in Queues, d # e, Among(queue[r], d) PROVE Among(queue'[r], d)
  <2>1. PICK i \in 1..Len(queue[r]) : queue[r][i] = d BY <1>8 DEF Among
  <2>2. CASE r # q BY <1>1, <2>1, <2>2 DEF Popped, Among
  <2>3. CASE r = q
    <3>1. i # 1 BY <1>1, <1>8, <2>1, <2>3
    <3>2. Len(queue'[q]) = Len(queue[q]) - 1 BY <1>1 DEF Popped
    <3>3. i - 1 \in 1..Len(queue'[q]) /\ (i - 1) + 1 = i BY <1>5, <2>1, <2>3, <3>1, <3>2
    <3>4. queue'[q][i - 1] = queue[q][i] BY <1>1, <3>3 DEF Popped
    <3> QED BY <2>1, <2>3, <3>3, <3>4 DEF Among
  <2> QED BY <2>2, <2>3
<1>9. Held' /\ Puts'
  <2>1. Among(order, e) BY <1>0, <1>1, <1>5, SittersWerePut
  <2> QED BY <1>0, <1>1, <1>7, <2>1, RecastKeeps DEF States
<1>10. Sorted'
  <2> SUFFICES ASSUME NEW r \in Queues, NEW s \in Queues, worker[r].chat = worker[s].chat,
                      NEW i \in 1..Len(queue'[r]), NEW j \in 1..Len(queue'[s]), r < s \/ (r = s /\ i < j)
               PROVE  Before(order, queue'[r][i], queue'[s][j])
    BY <1>1, <1>2 DEF Sorted
  <2>0. i \in Int /\ j \in Int OBVIOUS
  <2>1. PICK a \in 1..Len(queue[r]) : queue'[r][i] = queue[r][a] /\ a = IF r = q THEN i + 1 ELSE i
    BY <1>6
  <2>2. PICK b \in 1..Len(queue[s]) : queue'[s][j] = queue[s][b] /\ b = IF s = q THEN j + 1 ELSE j
    BY <1>6
  <2>3. r < s \/ (r = s /\ a < b) BY <2>0, <2>1, <2>2
  <2>4. Before(order, queue[r][a], queue[s][b]) BY <1>0, <2>3 DEF Sorted
  <2> QED BY <2>1, <2>2, <2>4
<1>11. InHand'
  <2>1. ASSUME NEW v \in Queues, v # w, worker[v].at = "busy"
        PROVE  /\ worker[v].event \in Ids /\ worker[v].event # e
               /\ events[worker[v].event].state = "handling"
               /\ \A r \in Queues : \A i \in 1..Len(queue[r]) : queue[r][i] # worker[v].event
    BY <1>0, <1>1, <1>5, <2>1 DEF InHand, Fits
  <2>2. ASSUME NEW v \in Queues, worker'[v].at = "busy"
        PROVE  /\ events'[worker'[v].event].state = "handling"
               /\ \A u \in Queues : worker'[u].at = "busy" /\ u # v => worker'[u].event # worker'[v].event
               /\ \A r \in Queues : \A i \in 1..Len(queue'[r]) : queue'[r][i] # worker'[v].event
    <3>1. CASE v = w
      <4>1. worker'[v].event = e BY <3>1 DEF e
      <4> QED BY <1>1, <1>4, <1>7, <2>1, <3>1, <4>1
    <3>2. CASE v # w
      <4>1. worker'[v] = worker[v] /\ worker[v].at = "busy" BY <1>1, <2>2, <3>2
      <4>2. \A u \in Queues : worker'[u].at = "busy" /\ u # v => worker'[u].event # worker[v].event
        <5>1. worker'[w].event # worker[v].event BY <2>1, <3>2, <4>1 DEF e
        <5>2. \A u \in Queues : worker[u].at = "busy" /\ u # v => worker[u].event # worker[v].event
          BY <1>0, <4>1 DEF InHand
        <5> QED BY <1>1, <5>1, <5>2
      <4>3. \A r \in Queues : \A i \in 1..Len(queue'[r]) : queue'[r][i] # worker[v].event
        BY <1>7, <2>1, <3>2, <4>1 DEF Among
      <4> QED BY <1>4, <2>1, <3>2, <4>1, <4>2, <4>3
    <3> QED BY <3>1, <3>2
  <2>3. ASSUME NEW d \in Ids, events'[d].state = "handling"
        PROVE  \E v \in Queues : worker'[v].at = "busy" /\ worker'[v].event = d
    <3>1. CASE d = e BY <1>1, <3>1 DEF e
    <3>2. CASE d # e
      <4>1. PICK v \in Queues : worker[v].at = "busy" /\ worker[v].event = d
        BY <1>0, <1>4, <2>3, <3>2 DEF InHand
      <4>2. v # w BY <1>1, <4>1
      <4> QED BY <1>1, <4>1, <4>2
    <3> QED BY <3>1, <3>2
  <2> QED BY <1>2, <2>2, <2>3 DEF InHand
<1>12. Waits'
  <2> SUFFICES ASSUME NEW r \in Queues, worker[r].chat \notin reaped, Served(r),
                      NEW i \in 1..Len(queue'[r])
               PROVE  events'[queue'[r][i]].state \in {"queued", "late"}
    BY <1>1, <1>2, <1>3 DEF Waits, Served
  <2>1. PICK j \in 1..Len(queue[r]) : queue[r][j] = queue'[r][i] BY <1>7 DEF Among
  <2>2. events[queue[r][j]].state \in {"queued", "late"} BY <1>0 DEF Waits
  <2> QED BY <1>4, <1>7, <2>1, <2>2
<1>13. Located'
  <2> SUFFICES ASSUME NEW d \in Ids, events[d].chat \notin reaped
               PROVE  /\ events'[d].state = "queued" =>
                            box[events[d].chat] # 0 /\ Among(queue'[box[events[d].chat]], d)
                      /\ events'[d].state = "late" =>
                            /\ bus = "stopped"
                            /\ \E r \in Queues : /\ worker[r].chat = events[d].chat /\ Among(queue'[r], d)
                                  /\ \A v \in Queues : Live(v) /\ worker[v].chat = events[d].chat
                                        => worker[v].queue <= r
    BY <1>1, <1>2, <1>3, <1>4 DEF Located
  <2>1. CASE d = e BY <1>4, <2>1
  <2>2. CASE d # e
    <3>1. events'[d].state = events[d].state /\ box[events[d].chat] \in {0} \cup Queues
      BY <1>0, <1>4, <2>2, ChatsHave DEF Shapes
    <3>2. ASSUME events[d].state = "queued"
          PROVE  box[events[d].chat] # 0 /\ Among(queue'[box[events[d].chat]], d)
      BY <1>0, <1>8, <2>2, <3>1, <3>2 DEF Located
    <3>3. ASSUME events[d].state = "late"
          PROVE  /\ bus = "stopped"
                 /\ \E r \in Queues : /\ worker[r].chat = events[d].chat /\ Among(queue'[r], d)
                       /\ \A v \in Queues : Live(v) /\ worker[v].chat = events[d].chat
                             => worker[v].queue <= r
      BY <1>0, <1>8, <2>2, <3>3 DEF Located
    <3> QED BY <3>1, <3>2, <3>3
  <2> QED BY <2>1, <2>2
\* Of a chat's waiting events its worker takes the one that was put first.
<1>14. ASSUME k \notin reaped
       PROVE  \A d \in Ids : events[d].chat = k /\ Before(order, d, e)
                  => events[d].state \notin {"queued", "late", "handling"}
  <2> SUFFICES ASSUME NEW d \in Ids, events[d].chat = k, Before(order, d, e)
               PROVE  events[d].state \notin {"queued", "late", "handling"}
    OBVIOUS
  <2>0. q = w /\ worker[q].chat = k /\ q \in Nat
    <3>1. worker[w].queue \in {0, w} BY <1>0, <1>3, <1>14 DEF Alone, k
    <3> QED BY <1>1, <3>1, Sizes DEF q, k
  <2>1. ASSUME NEW r \in Queues, worker[r].chat = k, q <= r, Among(queue[r], d) PROVE FALSE
    <3>1. PICK i \in 1..Len(queue[r]) : queue[r][i] = d BY <2>1 DEF Among
    <3>2. r \in Nat /\ Len(queue[r]) \in Nat BY <1>0, Sizes, ChatsHave
    <3>3. CASE r = q /\ i = 1
      <4>1. d = e BY <1>1, <3>1, <3>3
      <4> QED BY <1>0, <4>1, OrderIsStrict
    <3>4. CASE q < r \/ (q = r /\ 1 < i)
      <4>1. Before(order, queue[q][1], queue[r][i]) BY <1>0, <1>1, <1>5, <2>0, <2>1, <3>1, <3>4 DEF Sorted
      <4>2. Before(order, e, d) BY <1>1, <3>1, <4>1
      <4> QED BY <1>0, <4>2, OrderIsStrict
    <3> QED BY <2>0, <2>1, <3>1, <3>2, <3>3, <3>4
  <2>2. events[d].state # "handling"
    <3>1. SUFFICES ASSUME events[d].state = "handling" PROVE FALSE OBVIOUS
    <3>2. PICK v \in Queues : worker[v].at = "busy" /\ worker[v].event = d BY <1>0, <3>1 DEF InHand
    <3>3. worker[v].chat = k /\ Live(v) BY <1>0, <3>2 DEF Fits, Live
    <3>4. v = w BY <1>0, <1>3, <1>14, <3>3 DEF Alone, k
    <3> QED BY <1>1, <3>2, <3>4
  <2>3. events[d].state # "queued"
    <3>1. SUFFICES ASSUME events[d].state = "queued" PROVE FALSE OBVIOUS
    <3>2. box[k] # 0 /\ Among(queue[box[k]], d) BY <1>0, <1>14, <3>1 DEF Located
    <3>3. k \in Chats BY <1>0, <1>1, ChatsHave
    <3>4. box[k] \in Queues /\ worker[box[k]].chat = k BY <1>0, <3>2, <3>3 DEF Shapes, Fits
    <3>5. q <= box[k] BY <1>0, <1>1, <2>0, <3>2, <3>3 DEF Latest
    <3> QED BY <2>1, <3>2, <3>4, <3>5
  <2>4. events[d].state # "late"
    <3>1. SUFFICES ASSUME events[d].state = "late" PROVE FALSE OBVIOUS
    <3>2. PICK r \in Queues : /\ worker[r].chat = k /\ Among(queue[r], d)
                              /\ \A v \in Queues : Live(v) /\ worker[v].chat = k => worker[v].queue <= r
      BY <1>0, <1>14, <3>1 DEF Located
    <3>3. q <= r BY <1>3, <3>2 DEF q, k
    <3> QED BY <2>1, <3>2, <3>3
  <2> QED BY <2>2, <2>3, <2>4
<1>15. Passed'
  <2> SUFFICES ASSUME NEW c \in Ids, NEW d \in Ids, Before(order, c, d),
                      events[c].chat = events[d].chat, events[d].chat \notin reaped,
                      events'[d].state \in {"handling", "handled"}
               PROVE  events'[c].state \notin {"queued", "late", "handling"}
    BY <1>1, <1>2, <1>4 DEF Passed
  <2>1. CASE d = e
    <3>1. events[c].state \notin {"queued", "late", "handling"} BY <1>1, <1>14, <2>1
    <3>2. c # e BY <1>0, <2>1, OrderIsStrict
    <3> QED BY <1>4, <3>1, <3>2
  <2>2. CASE d # e
    <3>1. events[d].state \in {"handling", "handled"} BY <1>4, <2>2
    <3>2. events[c].state \notin {"queued", "late", "handling"} BY <1>0, <3>1 DEF Passed
    <3>3. c # e
      <4>1. SUFFICES ASSUME c = e PROVE FALSE OBVIOUS
      <4>2. worker[q].chat \notin reaped /\ Live(q) /\ worker[q].queue = q
        <5>1. k \notin reaped BY <1>1, <4>1
        <5>2. worker[w].queue \in {0, w} BY <1>0, <1>3, <5>1 DEF Alone, k
        <5>3. q = w BY <1>1, <5>2, Sizes DEF q
        <5> QED BY <1>3, <5>1, <5>3 DEF q, k
      <4>3. Served(q) BY <4>2 DEF Served
      <4>4. events[queue[q][1]].state \in {"queued", "late"} BY <1>0, <1>1, <1>5, <4>2, <4>3 DEF Waits
      <4> QED BY <1>1, <3>2, <4>1, <4>4
    <3> QED BY <1>4, <3>2, <3>3
  <2> QED BY <2>1, <2>2
<1> QED BY <1>9, <1>10, <1>11, <1>12, <1>13, <1>15 DEF Flow

LEMMA EndingFlow ==
  ASSUME Structure, Flow, NEW w \in Queues, Ending(w)
  PROVE  Flow'
<1> DEFINE e == worker[w].event
           k == worker[w].chat
<1>0. /\ Shapes /\ Fits /\ Alone /\ Held /\ Puts /\ Sorted /\ InHand /\ Waits /\ Located /\ Passed
  BY DEF Structure, Flow
<1>1. /\ Calm /\ worker[w].at = "busy" /\ WorkerOnly(w) /\ Rounded(w)
      /\ e \in Ids /\ Recast({e}, "handled") /\ k \in Chats
      /\ UNCHANGED <<box, queue, publisher, bus, order>>
  BY EndingEffect
<1>2. /\ reaped' = reaped /\ Ids' = Ids /\ \A v \in Queues : worker'[v].chat = worker[v].chat
      /\ \A v \in Queues \ {w} : worker'[v] = worker[v]
  BY <1>1 DEF Calm, WorkerOnly
<1>3. /\ worker'[w].at # "busy" /\ Live(w) /\ (Live(w)' => bus # "stopped")
      /\ Live(w)' => worker'[w].queue = box[k]
  BY <1>1 DEF Rounded, Live
<1> HIDE DEF e, k
<1>4. \A d \in Ids : /\ events'[d].chat = events[d].chat
                     /\ events'[d].state = IF d = e THEN "handled" ELSE events[d].state
  BY <1>1 DEF Recast
<1>5. /\ events[e].state = "handling" /\ events[e].chat = k
      /\ \A v \in Queues : worker[v].at = "busy" /\ v # w => worker[v].event # e
      /\ \A r \in Queues : \A i \in 1..Len(queue[r]) : queue[r][i] # e /\ queue[r][i] \in Ids
  BY <1>0, <1>1 DEF InHand, Fits, e, k
<1>6. Held' /\ Puts' /\ Sorted'
  <2>1. \A r \in Queues : \A i \in 1..Len(queue[r]) : queue[r][i] \in Ids BY <1>5
  <2>2. Held'
    <3>1. \A p \in Publishers : publisher[p].at # "idle" => publisher[p].event \in Ids /\ publisher[p].event # e
      BY <1>0, <1>5 DEF Held, Fits
    <3>2. \A d \in Ids : events'[d].by = events[d].by BY <1>1 DEF Recast
    <3> QED BY <1>0, <1>1, <1>2, <1>4, <3>1, <3>2 DEF Held
  <2>3. Puts' BY <1>0, <1>1, <1>2, <1>4 DEF Puts
  <2>4. Sorted' BY <1>0, <1>1, <1>2 DEF Sorted
  <2> QED BY <2>2, <2>3, <2>4
<1>7. InHand'
  <2>1. \A v \in Queues : worker'[v].at = "busy" => v # w /\ worker'[v] = worker[v] BY <1>2, <1>3
  <2>2. \A v \in Queues : worker[v].at = "busy" => worker[v].event \in Ids BY <1>0 DEF Fits
  <2>3. ASSUME NEW d \in Ids, events'[d].state = "handling"
        PROVE  \E v \in Queues : worker'[v].at = "busy" /\ worker'[v].event = d
    <3>1. d # e /\ events[d].state = "handling" BY <1>4, <2>3
    <3>2. PICK v \in Queues : worker[v].at = "busy" /\ worker[v].event = d BY <1>0, <3>1 DEF InHand
    <3>3. v # w BY <3>1, <3>2 DEF e
    <3> QED BY <1>2, <3>2, <3>3
  <2>4. ASSUME NEW v \in Queues, worker'[v].at = "busy"
        PROVE  /\ events'[worker'[v].event].state = "handling"
               /\ \A u \in Queues : worker'[u].at = "busy" /\ u # v => worker'[u].event # worker'[v].event
               /\ \A r \in Queues : \A i \in 1..Len(queue'[r]) : queue'[r][i] # worker'[v].event
    <3>1. v # w /\ worker'[v] = worker[v] /\ worker[v].at = "busy" BY <2>1, <2>4
    <3>2. /\ events[worker[v].event].state = "handling" /\ worker[v].event \in Ids /\ worker[v].event # e
          /\ \A u \in Queues : worker[u].at = "busy" /\ u # v => worker[u].event # worker[v].event
          /\ \A r \in Queues : \A i \in 1..Len(queue[r]) : queue[r][i] # worker[v].event
      BY <1>0, <1>5, <2>2, <3>1 DEF InHand
    <3> QED BY <1>1, <1>4, <2>1, <3>1, <3>2
  <2> QED BY <1>2, <2>3, <2>4 DEF InHand
<1>8. Waits'
  <2> SUFFICES ASSUME NEW r \in Queues, worker[r].chat \notin reaped, Served(r)', NEW i \in 1..Len(queue[r])
               PROVE  events'[queue[r][i]].state \in {"queued", "late"}
    BY <1>1, <1>2 DEF Waits
  <2>1. Served(r)
    <3>1. CASE \E c \in Chats : box'[c] = r BY <1>1, <3>1 DEF Served
    <3>2. CASE r # w /\ Live(r)' /\ worker'[r].queue = r BY <1>2, <3>2 DEF Served, Live
    <3>3. CASE r = w /\ Live(r)' /\ worker'[r].queue = r BY <1>1, <1>3, <3>3 DEF Served
    <3> QED BY <3>1, <3>2, <3>3 DEF Served
  <2>2. events[queue[r][i]].state \in {"queued", "late"} BY <1>0, <2>1 DEF Waits
  <2> QED BY <1>4, <1>5, <2>2
<1>9. Located'
  <2> SUFFICES ASSUME NEW d \in Ids, events[d].chat \notin reaped
               PROVE  /\ events'[d].state = "queued" =>
                            box[events[d].chat] # 0 /\ Among(queue[box[events[d].chat]], d)
                      /\ events'[d].state = "late" =>
                            /\ bus = "stopped"
                            /\ \E r \in Queues : /\ worker[r].chat = events[d].chat /\ Among(queue[r], d)
                                  /\ \A v \in Queues : Live(v)' /\ worker[v].chat = events[d].chat
                                        => worker'[v].queue <= r
    BY <1>1, <1>2, <1>4 DEF Located
  <2>1. CASE d = e BY <1>4, <2>1
  <2>2. CASE d # e
    <3>1. events'[d].state = events[d].state BY <1>4, <2>2
    <3>2. bus = "stopped" => \A v \in Queues : Live(v)' => Live(v) /\ worker'[v] = worker[v]
      BY <1>2, <1>3 DEF Live
    <3> QED BY <1>0, <3>1, <3>2 DEF Located
  <2> QED BY <2>1, <2>2
<1>10. Passed'
  <2> SUFFICES ASSUME NEW c \in Ids, NEW d \in Ids, Before(order, c, d),
                      events[c].chat = events[d].chat, events[d].chat \notin reaped,
                      events'[d].state \in {"handling", "handled"}
               PROVE  events'[c].state \notin {"queued", "late", "handling"}
    BY <1>1, <1>2, <1>4 DEF Passed
  <2>1. events[d].state \in {"handling", "handled"} BY <1>4, <1>5
  <2>2. events[c].state \notin {"queued", "late", "handling"} BY <1>0, <2>1 DEF Passed
  <2> QED BY <1>4, <2>2
<1> QED BY <1>6, <1>7, <1>8, <1>9, <1>10 DEF Flow

\* The content of queues gets a state, the queues and the order stay.
LEMMA StrandFlow ==
  ASSUME Structure, Flow, Calm, NEW qs \in SUBSET Queues, NEW st \in {"stranded", "late"},
         Recast(Content(qs), st), UNCHANGED <<queue, publisher, order>>,
         \A v \in Queues : worker'[v].at = "busy" \/ worker[v].at = "busy" => worker'[v] = worker[v]
  PROVE  /\ Held' /\ Puts' /\ Sorted' /\ InHand'
         /\ \A d \in Ids : /\ events'[d].chat = events[d].chat
                           /\ events'[d].state = IF d \in Content(qs) THEN st ELSE events[d].state
         /\ \A d \in Content(qs) : \E q \in qs : Among(queue[q], d) /\ events[d].chat = worker[q].chat
         /\ \A q \in qs : \A i \in 1..Len(queue[q]) : queue[q][i] \in Content(qs)
<1>0. /\ Shapes /\ Fits /\ Held /\ Puts /\ Sorted /\ InHand BY DEF Structure, Flow
<1>1. /\ Ids' = Ids /\ \A v \in Queues : worker'[v].chat = worker[v].chat BY DEF Calm
<1>2. \A d \in Ids : /\ events'[d].chat = events[d].chat
                     /\ events'[d].state = IF d \in Content(qs) THEN st ELSE events[d].state
  BY DEF Recast
<1>3. ASSUME NEW d \in Content(qs) PROVE \E q \in qs : Among(queue[q], d) /\ events[d].chat = worker[q].chat
  <2>1. PICK q \in qs : \E i \in 1..Len(queue[q]) : queue[q][i] = d BY DEF Content
  <2> QED BY <1>0, <2>1 DEF Among, Fits
<1>4. \A d \in Content(qs) : Among(order, d)
  <2>1. ASSUME NEW d \in Content(qs) PROVE Among(order, d)
    <3>1. PICK q \in qs : Among(queue[q], d) BY <1>3
    <3> QED BY <1>0, <3>1, SittersWerePut DEF Among
  <2> QED BY <2>1
<1>5. \A q \in qs : \A i \in 1..Len(queue[q]) : queue[q][i] \in Content(qs)
  BY <1>0 DEF Content, Fits
<1>6. Held' /\ Puts'
  <2>1. \A r \in Queues : \A i \in 1..Len(queue'[r]) : Among(queue[r], queue'[r][i]) BY DEF Among
  <2>2. st \in States \ {"published"} BY DEF States
  <2> HIDE DEF Calm
  <2>3. publisher' = publisher /\ order' = order OBVIOUS
  <2> QED BY <1>0, <1>4, <2>1, <2>2, <2>3, RecastKeeps
<1>7. Sorted' BY <1>0, <1>1 DEF Sorted
<1>8. InHand'
  <2>1. \A v \in Queues : worker[v].at = "busy" =>
            worker[v].event \in Ids /\ worker[v].event \notin Content(qs)
    BY <1>0 DEF Fits, InHand, Content
  <2>2. \A d \in Ids : events'[d].state = "handling" => events[d].state = "handling" BY <1>2
  <2>3. \A v \in Queues : worker'[v].at = "busy" <=> worker[v].at = "busy" OBVIOUS
  <2>4. \A v \in Queues : worker[v].at = "busy" => worker'[v].event = worker[v].event OBVIOUS
  <2>5. \A v \in Queues : worker[v].at = "busy" => events'[worker[v].event].state = "handling"
    BY <1>0, <1>2, <2>1 DEF InHand
  <2>6. queue' = queue OBVIOUS
  <2> QED BY <1>0, <1>1, <2>2, <2>3, <2>4, <2>5, <2>6 DEF InHand
<1> QED BY <1>2, <1>3, <1>5, <1>6, <1>7, <1>8

LEMMA CleanFlow ==
  ASSUME Structure, Flow, NEW w \in Queues, Clean(w)
  PROVE  Flow'
<1> DEFINE k == worker[w].chat
           qs == {box[k]} \ {0}
<1>0. /\ Shapes /\ Fits /\ Alone /\ Puts /\ Sorted /\ Waits /\ Located /\ Passed
  BY DEF Structure, Flow
<1>1. /\ Calm /\ worker[w].at = "expired" /\ worker'[w].at = "gone"
      /\ \A v \in Queues \ {w} : worker'[v] = worker[v]
      /\ k \in Chats /\ box'[k] = 0 /\ \A c \in Chats \ {k} : box'[c] = box[c]
      /\ Recast(Content(qs), "stranded")
      /\ UNCHANGED <<queue, publisher, bus, order>>
  BY CleanEffect DEF WorkerOnly
<1>2. reaped' = reaped /\ Ids' = Ids /\ \A v \in Queues : worker'[v].chat = worker[v].chat
  BY <1>1 DEF Calm
<1>3. qs \in SUBSET Queues BY <1>0, <1>1 DEF Shapes
<1>4. \A v \in Queues : worker'[v].at = "busy" \/ worker[v].at = "busy" => worker'[v] = worker[v]
  BY <1>1
<1> HIDE DEF qs
<1>5. /\ Held' /\ Puts' /\ Sorted' /\ InHand'
      /\ \A d \in Ids : /\ events'[d].chat = events[d].chat
                        /\ events'[d].state = IF d \in Content(qs) THEN "stranded" ELSE events[d].state
      /\ \A d \in Content(qs) : \E q \in qs : Among(queue[q], d) /\ events[d].chat = worker[q].chat
      /\ \A q \in qs : \A i \in 1..Len(queue[q]) : queue[q][i] \in Content(qs)
  BY <1>1, <1>3, <1>4, StrandFlow
<1>6. \A v \in Queues : Live(v)' => v # w /\ worker'[v] = worker[v] /\ Live(v) BY <1>1 DEF Live
<1> HIDE DEF k
<1>7. Live(w) /\ worker[w].chat = k BY <1>1 DEF Live, k
<1>8. Waits'
  <2> SUFFICES ASSUME NEW r \in Queues, worker[r].chat \notin reaped, Served(r)', NEW i \in 1..Len(queue[r])
               PROVE  events'[queue[r][i]].state \in {"queued", "late"}
    BY <1>1, <1>2 DEF Waits
  <2>0. r # 0 /\ queue[r][i] \in Ids BY <1>0, Sizes DEF Fits
  <2>1. Served(r) /\ worker[r].chat # k
    <3>1. CASE \E c \in Chats : box'[c] = r
      <4>1. PICK c \in Chats : box'[c] = r BY <3>1
      <4>2. c # k /\ box[c] = r BY <1>1, <2>0, <4>1
      <4>3. worker[r].chat = c BY <1>0, <2>0, <4>2 DEF Fits
      <4> QED BY <4>2, <4>3 DEF Served
    <3>2. CASE Live(r)' /\ worker'[r].queue = r
      <4>1. r # w /\ Live(r) /\ worker[r].queue = r BY <1>6, <3>2
      <4>2. worker[r].chat # k BY <1>0, <1>7, <4>1 DEF Alone
      <4> QED BY <4>1, <4>2 DEF Served
    <3> QED BY <3>1, <3>2 DEF Served
  <2>2. queue[r][i] \notin Content(qs)
    <3>1. SUFFICES ASSUME queue[r][i] \in Content(qs) PROVE FALSE OBVIOUS
    <3>2. PICK q \in qs : events[queue[r][i]].chat = worker[q].chat BY <1>5, <3>1
    <3>3. q = box[k] /\ q # 0 BY <3>2 DEF qs
    <3>4. worker[q].chat = k BY <1>0, <1>1, <3>3 DEF Fits
    <3>5. events[queue[r][i]].chat = worker[r].chat BY <1>0 DEF Fits
    <3> QED BY <2>1, <3>2, <3>4, <3>5
  <2>3. events[queue[r][i]].state \in {"queued", "late"} BY <1>0, <2>1 DEF Waits
  <2> QED BY <1>5, <2>0, <2>2, <2>3
<1>9. Located'
  <2> SUFFICES ASSUME NEW d \in Ids, events[d].chat \notin reaped
               PROVE  /\ events'[d].state = "queued" =>
                            box'[events[d].chat] # 0 /\ Among(queue[box'[events[d].chat]], d)
                      /\ events'[d].state = "late" =>
                            /\ bus = "stopped"
                            /\ \E r \in Queues : /\ worker[r].chat = events[d].chat /\ Among(queue[r], d)
                                  /\ \A v \in Queues : Live(v)' /\ worker[v].chat = events[d].chat
                                        => worker'[v].queue <= r
    BY <1>1, <1>2, <1>5 DEF Located
  <2>1. events[d].chat \in Chats BY <1>0, ChatsHave
  <2>2. ASSUME events'[d].state = "queued"
        PROVE  box'[events[d].chat] # 0 /\ Among(queue[box'[events[d].chat]], d)
    <3>1. d \notin Content(qs) /\ events[d].state = "queued" BY <1>5, <2>2
    <3>2. box[events[d].chat] # 0 /\ Among(queue[box[events[d].chat]], d) BY <1>0, <3>1 DEF Located
    <3>3. events[d].chat # k
      <4>1. SUFFICES ASSUME events[d].chat = k PROVE FALSE OBVIOUS
      <4>2. box[k] \in qs BY <3>2, <4>1 DEF qs
      <4> QED BY <1>5, <3>1, <3>2, <4>1, <4>2 DEF Among
    <3> QED BY <1>1, <2>1, <3>2, <3>3
  <2>3. events'[d].state = "late" => events[d].state = "late" BY <1>5
  <2> QED BY <1>0, <1>6, <2>2, <2>3 DEF Located
<1>10. Passed'
  <2> SUFFICES ASSUME NEW c \in Ids, NEW d \in Ids, Before(order, c, d),
                      events[c].chat = events[d].chat, events[d].chat \notin reaped,
                      events'[d].state \in {"handling", "handled"}
               PROVE  events'[c].state \notin {"queued", "late", "handling"}
    BY <1>1, <1>2, <1>5 DEF Passed
  <2>1. events[d].state \in {"handling", "handled"} BY <1>5
  <2>2. events[c].state \notin {"queued", "late", "handling"} BY <1>0, <2>1 DEF Passed
  <2> QED BY <1>5, <2>2
<1> QED BY <1>5, <1>8, <1>9, <1>10 DEF Flow

LEMMA FinishFlow ==
  ASSUME Structure, Flow, Finish
  PROVE  Flow'
<1> DEFINE qs == {box[c] : c \in Open}
<1>0. /\ Shapes /\ Fits /\ Alone /\ Puts /\ Sorted /\ Waits /\ Located /\ Passed
  BY DEF Structure, Flow
<1>1. /\ Calm /\ bus = "joining" /\ bus' = "stopped" /\ \A c \in Chats : box'[c] = 0
      /\ Recast(Content(qs), "late") /\ UNCHANGED <<queue, publisher, worker, order>>
  BY FinishEffect
<1>2. reaped' = reaped /\ Ids' = Ids BY <1>1 DEF Calm
<1>3. qs \in SUBSET Queues BY <1>0 DEF Shapes, Open
<1> HIDE DEF qs
<1>5. /\ Held' /\ Puts' /\ Sorted' /\ InHand'
      /\ \A d \in Ids : /\ events'[d].chat = events[d].chat
                        /\ events'[d].state = IF d \in Content(qs) THEN "late" ELSE events[d].state
      /\ \A d \in Content(qs) : \E q \in qs : Among(queue[q], d) /\ events[d].chat = worker[q].chat
      /\ \A q \in qs : \A i \in 1..Len(queue[q]) : queue[q][i] \in Content(qs)
  BY <1>1, <1>3, StrandFlow
\* What is in the chats' queues, where it is and what state it had.
<1>6. ASSUME NEW d \in Content(qs), events[d].chat \notin reaped
      PROVE  /\ box[events[d].chat] \in Queues /\ Among(queue[box[events[d].chat]], d)
             /\ worker[box[events[d].chat]].chat = events[d].chat
             /\ events[d].state \in {"queued", "late"}
  <2>1. PICK q \in qs : Among(queue[q], d) /\ events[d].chat = worker[q].chat BY <1>5
  <2>2. PICK c \in Chats : box[c] = q /\ box[c] # 0 BY <2>1 DEF qs, Open
  <2>3. q \in Queues /\ worker[q].chat = c BY <1>0, <1>3, <2>2 DEF Fits
  <2>4. Served(q) BY <2>2 DEF Served
  <2>5. events[d].state \in {"queued", "late"} BY <1>0, <1>6, <2>1, <2>3, <2>4 DEF Waits, Among
  <2> QED BY <2>1, <2>2, <2>3, <2>5
<1>8. Waits'
  <2> SUFFICES ASSUME NEW r \in Queues, worker[r].chat \notin reaped, Served(r)', NEW i \in 1..Len(queue[r])
               PROVE  events'[queue[r][i]].state \in {"queued", "late"}
    BY <1>1, <1>2 DEF Waits
  <2>0. r # 0 /\ queue[r][i] \in Ids BY <1>0, Sizes DEF Fits
  <2>1. Served(r) BY <1>1, <2>0 DEF Served, Live
  <2>2. events[queue[r][i]].state \in {"queued", "late"} BY <1>0, <2>1 DEF Waits
  <2> QED BY <1>5, <2>0, <2>2
<1>9. Located'
  <2> SUFFICES ASSUME NEW d \in Ids, events[d].chat \notin reaped
               PROVE  /\ events'[d].state # "queued"
                      /\ events'[d].state = "late" =>
                            \E r \in Queues : /\ worker[r].chat = events[d].chat /\ Among(queue[r], d)
                                  /\ \A v \in Queues : Live(v) /\ worker[v].chat = events[d].chat
                                        => worker[v].queue <= r
    BY <1>1, <1>2, <1>5 DEF Located, Live
  <2>1. events'[d].state # "queued"
    <3>1. SUFFICES ASSUME events[d].state = "queued" PROVE d \in Content(qs) BY <1>5
    <3>2. box[events[d].chat] # 0 /\ Among(queue[box[events[d].chat]], d) BY <1>0, <3>1 DEF Located
    <3>3. events[d].chat \in Chats BY <1>0, ChatsHave
    <3>4. box[events[d].chat] \in qs BY <3>2, <3>3 DEF qs, Open
    <3> QED BY <1>5, <3>2, <3>4 DEF Among
  <2>2. ASSUME events'[d].state = "late"
        PROVE  \E r \in Queues : /\ worker[r].chat = events[d].chat /\ Among(queue[r], d)
                     /\ \A v \in Queues : Live(v) /\ worker[v].chat = events[d].chat
                           => worker[v].queue <= r
    <3>1. events[d].state # "late" BY <1>0, <1>1 DEF Located
    <3>2. d \in Content(qs) BY <1>5, <2>2, <3>1
    <3> DEFINE r == box[events[d].chat]
    <3>3. r \in Queues /\ worker[r].chat = events[d].chat /\ Among(queue[r], d) BY <1>6, <3>2
    <3>4. ASSUME NEW v \in Queues, Live(v), worker[v].chat = events[d].chat PROVE worker[v].queue <= r
      <4>1. r = v /\ worker[v].queue \in {0, v} BY <1>0, <1>1, <3>4 DEF Alone
      <4>2. v \in Nat BY Sizes
      <4> QED BY <4>1, <4>2
    <3> HIDE DEF r
    <3> QED BY <3>3, <3>4
  <2> QED BY <2>1, <2>2
<1>10. Passed'
  <2> SUFFICES ASSUME NEW c \in Ids, NEW d \in Ids, Before(order, c, d),
                      events[c].chat = events[d].chat, events[d].chat \notin reaped,
                      events'[d].state \in {"handling", "handled"}
               PROVE  events'[c].state \notin {"queued", "late", "handling"}
    BY <1>1, <1>2, <1>5 DEF Passed
  <2>1. events[d].state \in {"handling", "handled"} BY <1>5
  <2>2. events[c].state \notin {"queued", "late", "handling"} BY <1>0, <2>1 DEF Passed
  <2>3. c \notin Content(qs) BY <1>6, <2>2
  <2> QED BY <1>5, <2>2, <2>3
<1> QED BY <1>5, <1>8, <1>9, <1>10 DEF Flow

-----------------------------------------------------------------------------
(* The counts, and what stop() waits for.                                  *)

LEMMA InWorkIs == \A row : InWork(row) \in {0, 1} /\ (row.at = "busy" <=> InWork(row) = 1)
BY DEF InWork

LEMMA StepCases ==
  ASSUME Next
  PROVE  \/ \E p \in Publishers, c \in Chats : Publish(p, c)
         \/ \E p \in Publishers : Create(p)
         \/ \E p \in Publishers : Put(p)
         \/ \E w \in Queues : Take(w)
         \/ \E w \in Queues : Waiting(w)
         \/ \E w \in Queues : Ending(w)
         \/ \E w \in Queues : Clean(w)
         \/ Finish
         \/ Aside
BY DEF Next, Enqueue, Work, StopStep, Waiting, Ending, Aside

LEMMA StructureStep ==
  ASSUME Structure, Next
  PROVE  Structure'
<1>1. CASE \E p \in Publishers, c \in Chats : Publish(p, c) BY <1>1, PublishStructure
<1>2. CASE \E p \in Publishers : Create(p) BY <1>2, CreateStructure
<1>3. CASE \E p \in Publishers : Put(p) BY <1>3, PutEffect, CalmStructure
<1>4. CASE \E w \in Queues : Take(w) BY <1>4, TakeEffect, CalmStructure
<1>5. CASE \E w \in Queues : Waiting(w) BY <1>5, WaitingEffect, CalmStructure
<1>6. CASE \E w \in Queues : Ending(w) BY <1>6, EndingEffect, CalmStructure
<1>7. CASE \E w \in Queues : Clean(w) BY <1>7, CleanEffect, CalmStructure
<1>8. CASE Finish BY <1>8, FinishEffect, CalmStructure
<1>9. CASE Aside BY <1>9, AsideEffect, CalmStructure
<1> QED BY <1>1, <1>2, <1>3, <1>4, <1>5, <1>6, <1>7, <1>8, <1>9, StepCases

LEMMA FlowStep ==
  ASSUME Structure, Flow, Next
  PROVE  Flow'
BY StepCases, PublishFlow, CreateFlow, PutFlow, TakeFlow, WaitingFlow, EndingFlow, CleanFlow,
   FinishFlow, AsideFlow

\* While the bus runs, an event that waits or is in work is counted at its
\* chat's queue.
LEMMA WorkAtTheQueue ==
  ASSUME Structure, Flow, NEW e \in Ids, events[e].chat \notin reaped, bus # "stopped",
         events[e].state \in {"queued", "handling"}
  PROVE  /\ events[e].chat \in Chats /\ box[events[e].chat] \in Queues
         /\ Len(queue[box[events[e].chat]]) + InWork(worker[box[events[e].chat]]) >= 1
<1> DEFINE c == events[e].chat
<1>0. Shapes /\ Fits /\ Alone /\ InHand /\ Located BY DEF Structure, Flow
<1>1. c \in Chats /\ box[c] \in {0} \cup Queues BY <1>0, ChatsHave DEF Shapes
<1>2. CASE events[e].state = "queued"
  <2>1. box[c] \in Queues /\ Among(queue[box[c]], e) BY <1>0, <1>1, <1>2 DEF Located
  <2>2. Len(queue[box[c]]) \in Nat /\ Len(queue[box[c]]) # 0 BY <1>0, <2>1, ChatsHave DEF Among
  <2>3. InWork(worker[box[c]]) \in {0, 1} BY InWorkIs
  <2>4. Len(queue[box[c]]) + InWork(worker[box[c]]) >= 1 BY <2>2, <2>3
  <2> QED BY <1>1, <2>1, <2>4
<1>3. CASE events[e].state = "handling"
  <2>1. PICK w \in Queues : worker[w].at = "busy" /\ worker[w].event = e BY <1>0, <1>3 DEF InHand
  <2>2. Live(w) /\ worker[w].chat = c BY <1>0, <2>1 DEF Fits, Live
  <2>3. box[c] = w BY <1>0, <2>2 DEF Alone
  <2>4. Len(queue[w]) \in Nat BY <1>0, ChatsHave
  <2> QED BY <1>1, <2>1, <2>3, <2>4, InWorkIs
<1> QED BY <1>2, <1>3

LEMMA TakenWaited ==
  ASSUME Structure, Flow, NEW w \in Queues, Take(w), worker[w].chat \notin reaped
  PROVE  events[worker'[w].event].state \in {"queued", "late"}
<1> DEFINE q == worker[w].queue
<1>0. Shapes /\ Fits /\ Alone /\ Waits BY DEF Structure, Flow
<1>1. /\ worker[w].at = "get" /\ q \in Queues /\ Popped(q) /\ worker'[w].event = queue[q][1] BY TakeEffect
<1>2. Live(w) BY <1>1 DEF Live
<1>3. q = w BY <1>0, <1>1, <1>2, Sizes DEF Alone
<1>4. Served(q) BY <1>2, <1>3 DEF Served
<1>5. 1 \in 1..Len(queue[q]) BY <1>0, <1>1, ChatsHave DEF Popped
<1> QED BY <1>0, <1>1, <1>3, <1>4, <1>5 DEF Waits

LEMMA ContentWaited ==
  ASSUME Structure, Flow, NEW d \in Content({box[c] : c \in Open}), events[d].chat \notin reaped
  PROVE  d \in Ids /\ events[d].state \in {"queued", "late"}
<1>0. Shapes /\ Fits /\ Waits BY DEF Structure, Flow
<1>1. PICK c \in Open : \E i \in 1..Len(queue[box[c]]) : queue[box[c]][i] = d BY DEF Content
<1>2. c \in Chats /\ box[c] # 0 /\ box[c] \in Queues BY <1>0, <1>1 DEF Open, Shapes
<1>3. PICK i \in 1..Len(queue[box[c]]) : queue[box[c]][i] = d BY <1>1
<1>4. worker[box[c]].chat = c /\ events[d].chat = c /\ d \in Ids BY <1>0, <1>2, <1>3 DEF Fits
<1>5. Served(box[c]) BY <1>2 DEF Served
<1> QED BY <1>0, <1>2, <1>3, <1>4, <1>5 DEF Waits

\* Two chats have not the same queue.
LEMMA BoxesApart ==
  ASSUME Shapes, Fits
  PROVE  \A c \in Chats : box[c] # 0 => /\ box[c] \in Queues /\ worker[box[c]].chat = c
                                        /\ unfinished[box[c]] \in Nat /\ Len(queue[box[c]]) \in Nat
BY ChatsHave DEF Shapes, Fits

LEMMA PendingStep ==
  ASSUME Structure, Flow, Pending, Next
  PROVE  Pending'
<1>0. Shapes /\ Fits /\ Alone BY DEF Structure
<1> DEFINE Counted(c) == unfinished[box[c]] >= Len(queue[box[c]]) + InWork(worker[box[c]])
<1>1. CASE \E p \in Publishers, c \in Chats : Publish(p, c)
  BY <1>1, PublishEffect DEF Pending
<1>2. CASE \E p \in Publishers : Create(p)
  <2>1. PICK p \in Publishers : Create(p) BY <1>2
  <2> DEFINE k == Chat(p)
             n == Created + 1
  <2>2. /\ Shapes' /\ UNCHANGED <<queue, unfinished, bus>> /\ k \in Chats /\ reaped \subseteq reaped'
        /\ \A c \in Chats \ {k} : box'[c] \in {0, box[c]}
        /\ OldQueue(k) \/ NewQueue(k, n)
    BY <2>1, CreateEffect
  <2> HIDE DEF k, n
  <2> SUFFICES ASSUME NEW c \in Chats, c \notin reaped', bus # "stopped", box'[c] # 0
               PROVE  unfinished[box'[c]] >= Len(queue[box'[c]]) + InWork(worker'[box'[c]])
    BY <2>2 DEF Pending
  <2>3. CASE c = k /\ NewQueue(k, n)
    <3>1. /\ box'[c] = n /\ n \in Queues /\ Len(queue[n]) = 0 /\ worker'[n].at # "busy"
      BY <2>3 DEF NewQueue
    <3>2. unfinished[n] \in Nat BY <1>0, <3>1 DEF Shapes
    <3> QED BY <3>1, <3>2, InWorkIs
  <2>4. CASE ~(c = k /\ NewQueue(k, n))
    <3>1. box'[c] = box[c] /\ box[c] # 0 BY <2>2, <2>4 DEF OldQueue
    <3>2. box[c] \in Queues /\ worker[box[c]].chat = c BY <1>0, <3>1, BoxesApart
    <3>3. worker'[box[c]] = worker[box[c]]
      <4>1. worker[box[c]].at # "unborn" BY <1>0, <3>2 DEF Fits
      <4> QED BY <2>2, <3>2, <4>1 DEF OldQueue, NewQueue
    <3>4. Counted(c) BY <2>2, <3>1 DEF Pending
    <3> QED BY <3>1, <3>3, <3>4, InWorkIs
  <2> QED BY <2>3, <2>4
<1>3. CASE \E p \in Publishers : Put(p)
  <2>1. PICK p \in Publishers : Put(p) BY <1>3
  <2> DEFINE q == box[Chat(p)]
             e == Holds(p)
  <2>2. /\ worker' = worker /\ box' = box /\ bus' = bus /\ reaped' = reaped
        /\ \/ q \in Queues /\ Appended(q, e)
           \/ queue' = queue /\ unfinished' = unfinished
    BY <2>1, PutEffect DEF Calm
  <2> HIDE DEF q, e
  <2> SUFFICES ASSUME NEW c \in Chats, c \notin reaped, bus # "stopped", box[c] # 0
               PROVE  unfinished'[box[c]] >= Len(queue'[box[c]]) + InWork(worker[box[c]])
    BY <2>2 DEF Pending
  <2>3. Counted(c) /\ box[c] \in Queues /\ unfinished[box[c]] \in Nat /\ Len(queue[box[c]]) \in Nat
    BY <1>0, BoxesApart DEF Pending
  <2>4. CASE Appended(q, e) /\ box[c] = q
    <3>1. unfinished'[q] = unfinished[q] + 1 /\ Len(queue'[q]) = Len(queue[q]) + 1 BY <2>4 DEF Appended
    <3> QED BY <2>3, <2>4, <3>1, InWorkIs
  <2>5. CASE Appended(q, e) /\ box[c] # q
    <3>1. unfinished'[box[c]] = unfinished[box[c]] /\ queue'[box[c]] = queue[box[c]]
      BY <2>3, <2>5 DEF Appended
    <3> QED BY <2>3, <3>1
  <2>6. CASE queue' = queue /\ unfinished' = unfinished BY <2>3, <2>6
  <2> QED BY <2>2, <2>4, <2>5, <2>6
<1>4. CASE \E w \in Queues : Take(w)
  <2>1. PICK w \in Queues : Take(w) BY <1>4
  <2> DEFINE q == worker[w].queue
  <2>2. /\ worker[w].at = "get" /\ q \in Queues /\ Popped(q) /\ worker'[w].at = "busy"
        /\ \A v \in Queues \ {w} : worker'[v] = worker[v]
        /\ box' = box /\ bus' = bus /\ unfinished' = unfinished /\ reaped' = reaped
    BY <2>1, TakeEffect DEF Calm, WorkerOnly
  <2>3. worker[q].chat = worker[w].chat BY <1>0, <2>2, Sizes DEF Fits
  <2>4. Live(w) BY <2>2 DEF Live
  <2> HIDE DEF q
  <2> SUFFICES ASSUME NEW c \in Chats, c \notin reaped, bus # "stopped", box[c] # 0
               PROVE  unfinished[box[c]] >= Len(queue'[box[c]]) + InWork(worker'[box[c]])
    BY <2>2 DEF Pending
  <2>5. /\ Counted(c) /\ box[c] \in Queues /\ unfinished[box[c]] \in Nat /\ Len(queue[box[c]]) \in Nat
        /\ worker[box[c]].chat = c
    BY <1>0, BoxesApart DEF Pending
  <2>6. CASE c = worker[w].chat
    <3>1. box[c] = w /\ q = w BY <1>0, <2>2, <2>4, <2>6, Sizes DEF Alone, q
    <3>2. Len(queue'[w]) = Len(queue[w]) - 1 BY <2>2, <3>1 DEF Popped
    <3> QED BY <2>2, <2>5, <3>1, <3>2, InWorkIs
  <2>7. CASE c # worker[w].chat
    <3>1. box[c] # w /\ box[c] # q BY <2>3, <2>5, <2>7
    <3>2. queue'[box[c]] = queue[box[c]] /\ worker'[box[c]] = worker[box[c]]
      BY <2>2, <2>5, <3>1 DEF Popped
    <3> QED BY <2>5, <3>2, InWorkIs
  <2> QED BY <2>6, <2>7
<1>5. CASE \E w \in Queues : Waiting(w)
  <2>1. PICK w \in Queues : Waiting(w) BY <1>5
  <2>2. /\ worker'[w].at # "busy" /\ worker[w].at # "busy"
        /\ \A v \in Queues \ {w} : worker'[v] = worker[v]
        /\ UNCHANGED <<box, queue, unfinished, bus>> /\ reaped' = reaped
    BY <2>1, WaitingEffect DEF Calm, WorkerOnly, Rounded
  <2>3. \A v \in Queues : InWork(worker'[v]) = InWork(worker[v])
    <3> SUFFICES ASSUME NEW v \in Queues PROVE InWork(worker'[v]) = InWork(worker[v]) OBVIOUS
    <3>1. CASE v = w BY <2>2, <3>1 DEF InWork
    <3>2. CASE v # w
      <4>1. worker'[v] = worker[v] BY <2>2, <3>2
      <4> QED BY <4>1
    <3> QED BY <3>1, <3>2
  <2>4. \A c \in Chats : box[c] # 0 => box[c] \in Queues BY <1>0, BoxesApart
  <2> SUFFICES ASSUME NEW c \in Chats, c \notin reaped, bus # "stopped", box[c] # 0
               PROVE  unfinished[box[c]] >= Len(queue[box[c]]) + InWork(worker'[box[c]])
    BY <2>2 DEF Pending
  <2>5. InWork(worker'[box[c]]) = InWork(worker[box[c]]) BY <2>3, <2>4
  <2> QED BY <2>5 DEF Pending
<1>6. CASE \E w \in Queues : Ending(w)
  <2>1. PICK w \in Queues : Ending(w) BY <1>6
  <2> DEFINE k == worker[w].chat
  <2>2. /\ worker[w].at = "busy" /\ worker'[w].at # "busy" /\ k \in Chats
        /\ \A v \in Queues \ {w} : worker'[v] = worker[v]
        /\ UNCHANGED <<box, queue, bus>> /\ reaped' = reaped /\ Shapes'
        /\ \A r \in Queues : /\ r # box[k] => unfinished'[r] = unfinished[r]
                             /\ unfinished[r] > 0 => unfinished'[r] >= unfinished[r] - 1
    BY <2>1, EndingEffect DEF Calm, WorkerOnly, Rounded
  <2>3. Live(w) BY <2>2 DEF Live
  <2> SUFFICES ASSUME NEW c \in Chats, c \notin reaped, bus # "stopped", box[c] # 0
               PROVE  unfinished'[box[c]] >= Len(queue[box[c]]) + InWork(worker'[box[c]])
    BY <2>2 DEF Pending
  <2>4. /\ Counted(c) /\ box[c] \in Queues /\ unfinished[box[c]] \in Nat /\ Len(queue[box[c]]) \in Nat
        /\ worker[box[c]].chat = c /\ unfinished'[box[c]] \in Nat
    BY <1>0, <2>2, BoxesApart DEF Pending, Shapes
  <2>5. CASE c = k
    <3>1. box[c] = w BY <1>0, <2>3, <2>5 DEF Alone
    <3>2. unfinished[w] >= Len(queue[w]) + 1 BY <2>2, <2>4, <3>1, InWorkIs
    <3>3. unfinished'[w] >= unfinished[w] - 1 BY <2>2, <2>4, <3>1, <3>2
    <3> QED BY <2>2, <2>4, <3>1, <3>2, <3>3, InWorkIs
  <2>6. CASE c # k
    <3>1. box[c] # w /\ box[c] # box[k]
      <4>1. box[k] # 0 => worker[box[k]].chat = k BY <1>0, <2>2, BoxesApart
      <4> QED BY <2>4, <2>6, <4>1
    <3>2. unfinished'[box[c]] = unfinished[box[c]] /\ worker'[box[c]] = worker[box[c]]
      BY <2>2, <2>4, <3>1
    <3> QED BY <2>4, <3>2, InWorkIs
  <2> QED BY <2>5, <2>6
<1>7. CASE \E w \in Queues : Clean(w)
  <2>1. PICK w \in Queues : Clean(w) BY <1>7
  <2> DEFINE k == worker[w].chat
  <2>2. /\ \A v \in Queues \ {w} : worker'[v] = worker[v]
        /\ box'[k] = 0 /\ \A c \in Chats \ {k} : box'[c] = box[c]
        /\ UNCHANGED <<queue, unfinished, bus>> /\ reaped' = reaped
    BY <2>1, CleanEffect DEF Calm, WorkerOnly
  <2> SUFFICES ASSUME NEW c \in Chats, c \notin reaped, bus # "stopped", box'[c] # 0
               PROVE  unfinished[box'[c]] >= Len(queue[box'[c]]) + InWork(worker'[box'[c]])
    BY <2>2 DEF Pending
  <2>3. c # k /\ box'[c] = box[c] BY <2>2
  <2>4. Counted(c) /\ box[c] \in Queues /\ worker[box[c]].chat = c
    BY <1>0, <2>3, BoxesApart DEF Pending
  <2>5. worker'[box[c]] = worker[box[c]] BY <2>2, <2>3, <2>4
  <2> QED BY <2>3, <2>4, <2>5, InWorkIs
<1>8. CASE Finish BY <1>8, FinishEffect DEF Pending
<1>9. CASE Aside
  <2>1. /\ UNCHANGED <<box, queue, unfinished, worker>> /\ reaped' = reaped
        /\ bus = "stopped" => bus' = "stopped"
    BY <1>9, AsideEffect DEF Calm
  <2> QED BY <2>1 DEF Pending
<1> QED BY <1>1, <1>2, <1>3, <1>4, <1>5, <1>6, <1>7, <1>8, <1>9, StepCases

LEMMA DrainedStep ==
  ASSUME Structure, Flow, Pending, Drained, Next
  PROVE  Drained'
<1>0. Shapes /\ Fits /\ Alone /\ Held /\ InHand /\ Located BY DEF Structure, Flow
<1>1. CASE \E p \in Publishers, c \in Chats : Publish(p, c)
  <2>1. /\ Ids' = Ids \cup {Len(events) + 1} /\ \A e \in Ids : events'[e] = events[e]
        /\ box' = box /\ bus' = bus /\ mark' = mark /\ joined' = joined /\ reaped' = reaped
    BY <1>1, PublishEffect
  <2>2. ~(Len(events) + 1 <= mark) BY <1>0 DEF Shapes
  <2>3. \A e \in Ids' : Early(e)' => e \in Ids /\ Early(e) BY <2>1, <2>2 DEF Early
  <2> QED BY <2>1, <2>3 DEF Drained
<1>2. CASE \E p \in Publishers : Create(p)
  <2>1. PICK p \in Publishers : Create(p) BY <1>2
  <2> DEFINE k == Chat(p)
             n == Created + 1
  <2>2. /\ events' = events /\ bus' = bus /\ mark' = mark /\ joined' = joined
        /\ k \in Chats /\ reaped \subseteq reaped'
        /\ \A c \in Chats \ {k} : c \in reaped' \/ box'[c] = box[c]
        /\ OldQueue(k) \/ NewQueue(k, n)
    BY <2>1, CreateEffect
  <2> HIDE DEF k, n
  <2>3. Ids' = Ids BY <2>2 DEF Ids
  <2>4. \A e \in Ids : Early(e)' => Early(e) /\ events[e].chat \notin reaped' BY <2>2 DEF Early
  <2>5. ASSUME NEW e \in Ids, Early(e)', bus = "joining", events[e].state \in {"queued", "handling"}
        PROVE  box'[events[e].chat] = box[events[e].chat]
    <3>1. events[e].chat \notin reaped /\ events[e].chat \notin reaped' BY <2>2, <2>4, <2>5
    <3>2. events[e].chat \in Chats /\ box[events[e].chat] \in Queues BY <2>5, <3>1, WorkAtTheQueue
    <3>3. CASE events[e].chat = k BY <2>2, <3>1, <3>2, <3>3, Sizes DEF OldQueue, NewQueue
    <3>4. CASE events[e].chat # k BY <2>2, <3>1, <3>2, <3>4
    <3> QED BY <3>3, <3>4
  <2> QED BY <2>2, <2>3, <2>4, <2>5 DEF Drained
<1>3. CASE \E p \in Publishers : Put(p)
  <2>1. PICK p \in Publishers : Put(p) BY <1>3
  <2> DEFINE h == Holds(p)
  <2>2. /\ box' = box /\ bus' = bus /\ mark' = mark /\ joined' = joined /\ reaped' = reaped
        /\ h \in Ids /\ Ids' = Ids /\ publisher[p].at = "put"
        /\ \A e \in Ids : events'[e].chat = events[e].chat /\ events'[e].by = events[e].by
        /\ \A e \in Ids : e # h => events'[e].state = events[e].state
    BY <2>1, PutEffect DEF Calm, Recast
  <2>3. events[h].state = "published" BY <1>0, <2>2 DEF Held, Holds
  <2> HIDE DEF h
  <2>4. \A e \in Ids : Early(e)' => Early(e) BY <2>2 DEF Early
  <2>5. Early(h) => bus \notin {"joining", "stopped"} BY <2>2, <2>3 DEF Drained
  <2> QED BY <2>2, <2>4, <2>5 DEF Drained
<1>4. CASE \E w \in Queues : Take(w)
  <2>1. PICK w \in Queues : Take(w) BY <1>4
  <2> DEFINE h == worker'[w].event
  <2>2. /\ box' = box /\ bus' = bus /\ mark' = mark /\ joined' = joined /\ reaped' = reaped
        /\ h \in Ids /\ Ids' = Ids /\ events[h].chat = worker[w].chat /\ Recast({h}, "handling")
    BY <2>1, TakeEffect DEF Calm
  <2>3. worker[w].chat \notin reaped => events[h].state \in {"queued", "late"} BY <2>1, TakenWaited
  <2> HIDE DEF h
  <2>4. /\ \A e \in Ids : Early(e)' => Early(e)
        /\ \A e \in Ids : events'[e].chat = events[e].chat
        /\ \A e \in Ids : e # h => events'[e].state = events[e].state
        /\ events'[h].state = "handling"
    BY <2>2 DEF Early, Recast
  <2>5. Early(h) => \/ events[h].state = "queued"
                    \/ events[h].state = "late" /\ bus = "stopped"
    BY <1>0, <2>2, <2>3 DEF Early, Located
  <2>6. Early(h) => bus # "stopped" BY <2>2, <2>5 DEF Drained
  <2>7. Early(h) /\ bus = "joining" => box[events[h].chat] \in joined BY <2>2, <2>5 DEF Drained
  <2> QED BY <2>2, <2>4, <2>6, <2>7 DEF Drained
<1>5. CASE \E w \in Queues : Waiting(w)
  <2>1. UNCHANGED <<events, box, bus, mark, joined>> /\ reaped' = reaped /\ Ids' = Ids
    BY <1>5, WaitingEffect DEF Calm
  <2> QED BY <2>1 DEF Drained, Early
<1>6. CASE \E w \in Queues : Ending(w)
  <2>1. PICK w \in Queues : Ending(w) BY <1>6
  <2> DEFINE h == worker[w].event
  <2>2. /\ Recast({h}, "handled") /\ Ids' = Ids
        /\ UNCHANGED <<box, bus, mark, joined>> /\ reaped' = reaped
    BY <2>1, EndingEffect DEF Calm
  <2> HIDE DEF h
  <2>3. /\ \A e \in Ids : Early(e)' => Early(e)
        /\ \A e \in Ids : events'[e].chat = events[e].chat
        /\ \A e \in Ids : events'[e].state \in {events[e].state, "handled"}
    BY <2>2 DEF Early, Recast
  <2> QED BY <2>2, <2>3 DEF Drained
<1>7. CASE \E w \in Queues : Clean(w)
  <2>1. PICK w \in Queues : Clean(w) BY <1>7
  <2> DEFINE k == worker[w].chat
             gone == Content({box[k]} \ {0})
  <2>2. /\ worker[w].at = "expired" /\ k \in Chats
        /\ \A c \in Chats \ {k} : box'[c] = box[c]
        /\ Recast(gone, "stranded") /\ Ids' = Ids
        /\ UNCHANGED <<bus, mark, joined>> /\ reaped' = reaped
    BY <2>1, CleanEffect DEF Calm
  <2>3. ASSUME NEW e \in Ids, events[e].chat = k, k \notin reaped
        PROVE  /\ events[e].state # "handling"
               /\ events[e].state = "queued" => e \in gone
    <3>1. CASE events[e].state = "handling"
      <4>1. PICK v \in Queues : worker[v].at = "busy" /\ worker[v].event = e BY <1>0, <3>1 DEF InHand
      <4>2. worker[v].chat = k /\ Live(v) /\ Live(w) BY <1>0, <2>2, <2>3, <4>1 DEF Fits, Live
      <4>3. v = w BY <1>0, <2>3, <4>2 DEF Alone
      <4> QED BY <2>2, <4>1, <4>3
    <3>2. CASE events[e].state = "queued"
      <4>1. box[k] # 0 /\ Among(queue[box[k]], e) BY <1>0, <2>3, <3>2 DEF Located
      <4> QED BY <3>2, <4>1 DEF Content, Among
    <3> QED BY <3>1, <3>2
  <2>4. /\ \A e \in Ids : Early(e)' => Early(e) /\ events[e].chat \notin reaped
        /\ \A e \in Ids : events'[e].chat = events[e].chat
        /\ \A e \in Ids : events'[e].state = IF e \in gone THEN "stranded" ELSE events[e].state
    BY <2>2 DEF Early, Recast
  <2>5. \A e \in Ids : events[e].chat \in Chats BY <1>0, ChatsHave
  <2> HIDE DEF k, gone
  <2>6. ASSUME NEW e \in Ids, Early(e)', bus = "joining", events'[e].state \in {"queued", "handling"}
        PROVE  box'[events[e].chat] \in joined
    <3>1. events[e].chat # k /\ events[e].state \in {"queued", "handling"} BY <2>2, <2>3, <2>4, <2>6
    <3>2. box'[events[e].chat] = box[events[e].chat] BY <2>2, <2>5, <3>1
    <3> QED BY <2>4, <2>6, <3>1, <3>2 DEF Drained
  <2> QED BY <2>2, <2>4, <2>6 DEF Drained
<1>8. CASE Finish
  <2> DEFINE late == Content({box[c] : c \in Open})
  <2>1. /\ bus = "joining" /\ bus' = "stopped" /\ joined = {} /\ mark' = mark /\ reaped' = reaped
        /\ Recast(late, "late") /\ Ids' = Ids
    BY <1>8, FinishEffect DEF Calm
  <2>2. \A e \in late : events[e].chat \notin reaped => events[e].state \in {"queued", "late"}
    BY ContentWaited
  <2> HIDE DEF late
  <2>3. /\ \A e \in Ids : Early(e)' => Early(e) /\ events[e].chat \notin reaped
        /\ \A e \in Ids : events'[e].state = IF e \in late THEN "late" ELSE events[e].state
    BY <2>1 DEF Early, Recast
  <2>4. ASSUME NEW e \in Ids, Early(e)
        PROVE  events[e].state \notin {"published", "queued", "handling", "late"}
    <3>1. events[e].chat \notin reaped BY <2>4 DEF Early
    <3>2. events[e].state # "late" BY <1>0, <2>1, <3>1 DEF Located
    <3> QED BY <2>1, <2>4, <3>2 DEF Drained
  <2>5. ASSUME NEW e \in Ids, Early(e)' PROVE events'[e].state = events[e].state /\ Early(e)
    BY <2>2, <2>3, <2>4, <2>5
  <2> QED BY <2>1, <2>4, <2>5 DEF Drained
<1>9. CASE Aside
  <2>1. /\ events' = events /\ box' = box /\ reaped' = reaped /\ Ids' = Ids BY <1>9, AsideEffect DEF Calm
  <2>2. CASE bus' = bus /\ mark' = mark /\ joined' = joined BY <2>1, <2>2 DEF Drained, Early
  <2>3. CASE bus' = "draining" BY <2>3 DEF Drained
  <2>4. CASE /\ bus = "draining" /\ bus' = "joining" /\ mark' = mark /\ publisher[Processor] = Idle
             /\ joined' = {box[c] : c \in Open}
    <3> SUFFICES ASSUME NEW e \in Ids, Early(e)'
                 PROVE  /\ events[e].state # "published"
                        /\ events[e].state \in {"queued", "handling"} => box[events[e].chat] \in joined'
      BY <2>1, <2>4 DEF Drained
    <3>1. events[e].by = Processor /\ events[e].chat \notin reaped BY <2>1, <2>4 DEF Early
    <3>2. publisher[Processor].at = "idle" BY <2>4 DEF Idle
    <3>3. events[e].state # "published" BY <1>0, <3>1, <3>2 DEF Held
    <3>4. CASE events[e].state \in {"queued", "handling"}
      <4>1. events[e].chat \in Chats /\ box[events[e].chat] \in Queues
        BY <2>4, <3>1, <3>4, WorkAtTheQueue
      <4>2. box[events[e].chat] # 0 BY <4>1, Sizes
      <4>3. events[e].chat \in Open BY <4>1, <4>2 DEF Open
      <4> QED BY <2>4, <3>3, <4>3
    <3> QED BY <3>3, <3>4
  <2>5. CASE /\ bus = "joining" /\ bus' = "joining" /\ mark' = mark
             /\ \E q \in Queues : unfinished[q] = 0 /\ joined' = joined \ {q}
    <3>1. PICK q \in Queues : unfinished[q] = 0 /\ joined' = joined \ {q} BY <2>5
    <3> SUFFICES ASSUME NEW e \in Ids, Early(e)'
                 PROVE  /\ events[e].state # "published"
                        /\ events[e].state \in {"queued", "handling"} => box[events[e].chat] \in joined'
      BY <2>1, <2>5 DEF Drained
    <3>2. Early(e) /\ events[e].chat \notin reaped BY <2>1, <2>5 DEF Early
    <3>3. CASE events[e].state \in {"queued", "handling"}
      <4> DEFINE b == box[events[e].chat]
                 l == Len(queue[b])
                 i == InWork(worker[b])
      <4>1. /\ events[e].chat \in Chats /\ b \in Queues /\ l + i >= 1
        BY <2>5, <3>2, <3>3, WorkAtTheQueue
      <4>2. l \in Nat /\ i \in {0, 1} /\ unfinished[b] \in Nat BY <1>0, <4>1, ChatsHave, InWorkIs DEF Shapes
      <4>3. unfinished[b] >= l + i BY <2>5, <3>2, <4>1, Sizes DEF Pending
      <4> HIDE DEF l, i
      <4>4. unfinished[b] # 0 BY <4>1, <4>2, <4>3
      <4>5. b \in joined BY <2>5, <3>2, <3>3 DEF Drained
      <4> QED BY <3>1, <3>2, <3>3, <4>4, <4>5, <2>5 DEF Drained
    <3> QED BY <2>5, <3>2, <3>3 DEF Drained
  <2> QED BY <1>9, <2>2, <2>3, <2>4, <2>5, AsideEffect
<1> QED BY <1>1, <1>2, <1>3, <1>4, <1>5, <1>6, <1>7, <1>8, <1>9, StepCases

-----------------------------------------------------------------------------
(* The theorems.                                                           *)

LEMMA InitInv ==
  ASSUME Init
  PROVE  IInv
<1>1. /\ events = <<>> /\ box = [c \in Chats |-> 0] /\ queue = [q \in Queues |-> <<>>]
      /\ unfinished = [q \in Queues |-> 0] /\ worker = [w \in Queues |-> Unborn]
      /\ publisher = [p \in Publishers |-> Idle] /\ bus = "running"
      /\ order = <<>> /\ mark = 0 /\ reaped = {} /\ quiet = {} /\ joined = {}
  BY DEF Init
<1>2. Len(events) = 0 /\ Ids = {} BY <1>1 DEF Ids
<1>3. \A q \in Queues : Len(queue[q]) = 0 BY <1>1
<1>4. \A w \in Queues : /\ worker[w].at = "unborn" /\ worker[w].chat = None
                        /\ worker[w].queue = 0 /\ worker[w].event = 0
  BY <1>1 DEF Unborn
<1>5. \A p \in Publishers : publisher[p] = Idle /\ publisher[p].at = "idle" BY <1>1 DEF Idle
<1>6. \A c \in Chats : box[c] = 0 BY <1>1
<1>7. Shapes
  <2>1. Unborn \in WorkerRows BY DEF Unborn, WorkerRows
  <2>2. events \in Seq(EventRows) /\ order \in Seq(Nat) /\ <<>> \in Seq(Nat) BY <1>1
  <2>3. /\ worker \in [Queues -> WorkerRows] /\ publisher \in [Publishers -> PublisherRows]
        /\ queue \in [Queues -> Seq(Nat)]
    BY <1>1, <2>1, <2>2, IdleRow
  <2>4. mark \in Nat /\ mark <= Len(events) BY <1>1, <1>2
  <2> QED BY <1>1, <2>2, <2>3, <2>4 DEF Shapes
<1>8. Fits BY <1>3, <1>4, <1>5, <1>6, Sizes DEF Fits
<1>9. Room
  <2>1. BornWorkers = {} /\ Creating = {} BY <1>4, <1>5 DEF BornWorkers, Creating
  <2>2. Created = 0 /\ Cardinality(Creating) = 0 BY <2>1, FS_EmptySet DEF Created, BornWorkers
  <2>3. \A p \in Publishers : By(p) = {} BY <1>2 DEF By
  <2>4. \A p \in Publishers : Cardinality(By(p)) = 0 BY <2>3, FS_EmptySet
  <2>5. \A p \in Publishers : Limit(p) \in Nat BY Sizes DEF Limit
  <2>6. 1..Created = {} BY <2>2
  <2> QED BY <1>2, <2>1, <2>2, <2>4, <2>5, <2>6 DEF Room
<1>10. BoxServed /\ Latest /\ Alone
  BY <1>4, <1>6 DEF BoxServed, Open, Latest, Alone, Live
<1>11. Flow
  <2>1. Held /\ InHand /\ Located /\ Passed
    BY <1>2, <1>4, <1>5 DEF Held, InHand, Located, Passed
  <2>2. \A q \in Queues : 1..Len(queue[q]) = {} BY <1>3
  <2>3. Len(order) = 0 BY <1>1
  <2>4. 1..Len(order) = {} BY <2>3
  <2> QED BY <2>1, <2>2, <2>4 DEF Flow, Puts, Sorted, Waits
<1>12. Pending /\ Drained BY <1>2, <1>6 DEF Pending, Drained
<1> QED BY <1>7, <1>8, <1>9, <1>10, <1>11, <1>12 DEF IInv, Structure

LEMMA KeptInv ==
  ASSUME IInv, UNCHANGED vars
  PROVE  IInv'
<1>1. /\ UNCHANGED <<events, box, queue, unfinished, worker, quiet, publisher>>
      /\ UNCHANGED <<bus, joined, order, mark, reaped>> /\ Ids' = Ids
  BY DEF vars, Ids
<1>2. Structure'
  <2>1. Created' = Created BY <1>1 DEF Created
  <2>2. Shapes' /\ Fits' BY <1>1 DEF IInv, Structure, Shapes, Fits
  <2>3. Room' BY <1>1, <2>1 DEF IInv, Structure, Room, BornWorkers, Creating, By, Limit
  <2>4. BoxServed' /\ Latest' /\ Alone'
    BY <1>1 DEF IInv, Structure, BoxServed, Open, Latest, Alone, Live
  <2> QED BY <2>2, <2>3, <2>4 DEF Structure
<1>3. Flow'
  <2>1. Held' /\ Puts' /\ Sorted' BY <1>1 DEF IInv, Flow, Held, Puts, Sorted
  <2>2. InHand' /\ Waits' BY <1>1 DEF IInv, Flow, InHand, Waits, Served, Live
  <2>3. Located' /\ Passed' BY <1>1 DEF IInv, Flow, Located, Live, Passed
  <2> QED BY <2>1, <2>2, <2>3 DEF Flow
<1>4. Pending' /\ Drained' BY <1>1 DEF IInv, Pending, Drained, Early
<1> QED BY <1>2, <1>3, <1>4 DEF IInv

\* The inductive invariant holds of every behaviour.
THEOREM Invariance == Spec => []IInv
<1>1. ASSUME IInv, [Next]_vars PROVE IInv'
  <2>1. CASE Next BY <1>1, <2>1, StructureStep, FlowStep, PendingStep, DrainedStep DEF IInv
  <2>2. CASE UNCHANGED vars BY <1>1, <2>2, KeptInv
  <2> QED BY <1>1, <2>1, <2>2
<1>2. Init => IInv BY InitInv
<1> QED BY <1>1, <1>2, PTL DEF Spec

\* Every state is of the declared shape, and what points to an event, a queue
\* or a worker points to one of the same chat: the records of event_bus.py's
\* publish(), _create_user_queue() and _user_worker().
THEOREM Types == Spec => []TypeOK
<1>1. ASSUME IInv PROVE TypeOK
  <2>0. Shapes /\ Fits BY <1>1 DEF IInv, Structure
  <2>1. \A e \in Ids : events[e] \in EventRows BY <2>0 DEF Shapes, Ids
  <2>2. \A q \in Queues : Range(queue[q]) \subseteq Ids
    <3>1. ASSUME NEW q \in Queues PROVE DOMAIN queue[q] = 1..Len(queue[q]) BY <2>0 DEF Shapes
    <3> QED BY <2>0, <3>1 DEF Fits, Range
  <2>3. \A w \in Queues : worker[w] \in WorkerRows BY <2>0 DEF Shapes
  <2>4. \A p \in Publishers : publisher[p] \in PublisherRows BY <2>0 DEF Shapes
  <2>5. \A w \in Queues : /\ worker[w].at \in {"unborn", "poll", "get", "busy", "expired", "gone"}
                          /\ worker[w].at # "unborn" <=> worker[w].chat # None
                          /\ worker[w].at = "busy" => events[worker[w].event].chat = worker[w].chat
    BY <2>0, <2>3 DEF Fits, WorkerRows
  <2>6. \A p \in Publishers : publisher[p].at \in {"idle", "create", "put"} BY <2>4 DEF PublisherRows
  <2>7. \A c \in Chats : box[c] # 0 => worker[box[c]].chat = c BY <2>0 DEF Fits
  <2>8. \A q \in Queues : Len(queue[q]) <= QueueSize BY <2>0 DEF Fits
  <2> QED BY <2>0, <2>1, <2>2, <2>5, <2>6, <2>7, <2>8 DEF TypeOK, Shapes, EventRows, States
<1> QED BY <1>1, Invariance, PTL

\* A chat's queue has its worker as long as the bus runs: neither the idle
\* worker's own cleanup nor another thread's leaves a queue that nobody serves.
THEOREM QueuesAreServed == Spec => []BoxServed
<1>1. IInv => BoxServed BY DEF IInv, Structure
<1> QED BY <1>1, Invariance, PTL

\* The events of a chat are handled one at a time, whatever the cleanups and
\* the workers created after them, unless another thread cleaned the chat up.
THEOREM OneAtATime == Spec => []SerialQueue
<1>1. IInv => SerialQueue BY DEF IInv, Structure, Alone, SerialQueue, Live
<1> QED BY <1>1, Invariance, PTL

\* A chat's events are completed in the order they were put, over the queues
\* and workers the chat had one after the other.
THEOREM CompletedInOrder == Spec => []InOrder
<1>1. ASSUME IInv PROVE InOrder
  <2>0. Shapes /\ Puts /\ Passed BY <1>1 DEF IInv, Structure, Flow
  <2> DEFINE d(i) == events[order[i]]
  <2>1. DOMAIN order = 1..Len(order) BY <2>0 DEF Shapes
  <2>2. ASSUME NEW i \in DOMAIN order, NEW j \in DOMAIN order, i < j, d(i).chat = d(j).chat,
               d(j).state = "handled", d(i).chat \notin reaped
        PROVE  d(i).state \notin {"queued", "handling"}
    <3>1. order[i] \in Ids /\ order[j] \in Ids BY <2>0, <2>1 DEF Puts
    <3>2. Before(order, order[i], order[j]) BY <2>1, <2>2 DEF Before
    <3> QED BY <2>0, <2>2, <3>1, <3>2 DEF Passed
  <2> QED BY <2>2 DEF InOrder
<1> QED BY <1>1, Invariance, PTL

\* When stop() has come back, nothing the processor received before it is
\* waiting or in work: what its joins wait for covers every such event.
THEOREM StopHasDrained == Spec => []StopDrains
<1>1. ASSUME IInv PROVE StopDrains
  <2>0. Shapes /\ Drained BY <1>1 DEF IInv, Structure
  <2> SUFFICES ASSUME bus = "stopped", NEW e \in 1..mark, events[e].by = Processor,
                      events[e].chat \notin reaped
               PROVE  events[e].state \notin {"published", "queued", "handling", "late"}
    BY DEF StopDrains
  <2>1. e \in Ids BY <2>0 DEF Shapes, Ids
  <2>2. Early(e) BY DEF Early
  <2> QED BY <2>0, <2>1, <2>2 DEF Drained
<1> QED BY <1>1, Invariance, PTL
=============================================================================
