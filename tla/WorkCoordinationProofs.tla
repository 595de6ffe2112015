------------------------ MODULE WorkCoordinationProofs ------------------------
(***************************************************************************)
(* Theorems about WorkCoordination, for every set of workers, identities   *)
(* and slots and every number of rows.                                     *)
(*                                                                         *)
(* The claims lean on the shape of the table (the rows in use are the      *)
(* first ones, so a new row replaces none, and it is the newest of its     *)
(* identity); the sends lean on what a worker between the reservation and  *)
(* the result of a send knows of its slot.                                 *)
(***************************************************************************)
EXTENDS WorkCoordination, FiniteSetTheorems, WellFoundedInduction, TLAPS

USE CoordinationAssumption

\* The rows in use are the first ones, and have an identity.
Shape == /\ \A w \in Rows : work[w].status = "none" <=> work[w].identity = None
         /\ \E n \in 0..MaxRows : Used = 1..n

\* No row is running but the newest of its identity, as long as it was not
\* reclassified.
OlderIdle == \A v, w \in Used :
    v < w /\ work[v].identity = work[w].identity /\ v \notin moved => work[v].status # "running"

\* What a worker knows of the slot it sends.
At(p) == <<job[p].row, job[p].slot>>
Sends(p) == job[p].at \in {"sending", "called"}
SendsKnown ==
    /\ \A w \in Rows, s \in Slots : /\ calls[w][s] \in {0, 1}
                                    /\ delivery[w][s] = "none" => calls[w][s] = 0
    /\ \A p \in Workers : Sends(p) =>
         /\ job[p].row \in Rows /\ job[p].slot \in Slots
         /\ delivery[job[p].row][job[p].slot] = "sending"
         /\ calls[job[p].row][job[p].slot] = IF job[p].at = "called" THEN 1 ELSE 0
    /\ \A p, q \in Workers : Sends(p) /\ Sends(q) /\ p # q => At(p) # At(q)

-----------------------------------------------------------------------------
(* The newest row.                                                         *)

LEMMA LeastExists ==
  ASSUME NEW T, T \subseteq Nat, T # {}
  PROVE  \E x \in T : \A y \in T : x <= y
<1>1. PICK x \in T : \A y \in T : ~ (<<y, x>> \in OpToRel(<, Nat))
  BY NatLessThanWellFounded, WFMin, Zenon
<1>2. \A y \in T : ~ (y < x) BY <1>1 DEF OpToRel
<1> QED BY <1>2

LEMMA LargestExists ==
  ASSUME NEW n \in Nat, NEW T, T \subseteq 0..n, T # {}
  PROVE  Max(T) \in T /\ \A y \in T : y <= Max(T)
<1> DEFINE U == {x \in 0..n : n - x \in T}
<1>1. U \subseteq Nat /\ U # {}
  <2>1. PICK y \in T : TRUE OBVIOUS
  <2>2. y \in 0..n /\ n - (n - y) = y /\ n - y \in 0..n BY <2>1
  <2> QED BY <2>1, <2>2
<1>2. PICK x \in U : \A y \in U : x <= y BY <1>1, LeastExists
<1>3. n - x \in T /\ \A y \in T : n - x >= y
  <2>1. ASSUME NEW y \in T PROVE n - x >= y
    <3>1. y \in 0..n /\ n - (n - y) = y /\ n - y \in 0..n BY <2>1
    <3>2. n - y \in U BY <3>1
    <3> QED BY <1>2, <3>1, <3>2
  <2> QED BY <1>2, <2>1
<1>4. Max(T) \in T /\ \A y \in T : Max(T) >= y BY <1>3 DEF Max
<1> QED BY <1>4

LEMMA NewestFacts ==
  ASSUME NEW i \in Identities
  PROVE  /\ Newest(i) \in Rows \cup {0} /\ Newest(i) \in Nat
         /\ Newest(i) # 0 => Newest(i) \in Rows /\ work[Newest(i)].identity = i
         /\ \A w \in Rows : work[w].identity = i => w <= Newest(i) /\ Newest(i) # 0
<1>1. Of(i) \cup {0} \subseteq 0..MaxRows BY DEF Of, Rows
<1>2. /\ Newest(i) \in Of(i) \cup {0}
      /\ \A y \in Of(i) \cup {0} : y <= Newest(i)
  BY <1>1, LargestExists DEF Newest
<1> QED BY <1>2 DEF Of, Rows

\* A number with these two properties is the newest row.
LEMMA NewestIs ==
  ASSUME NEW i \in Identities, NEW n \in Of(i) \cup {0}, \A w \in Of(i) : w <= n
  PROVE  Newest(i) = n
<1>1. Of(i) \cup {0} \subseteq 0..MaxRows BY DEF Of, Rows
<1>2. /\ Newest(i) \in Of(i) \cup {0}
      /\ \A y \in Of(i) \cup {0} : y <= Newest(i)
  BY <1>1, LargestExists DEF Newest
<1> QED BY <1>1, <1>2

LEMMA UsedCount ==
  ASSUME NEW n \in 0..MaxRows, Used = 1..n
  PROVE  Cardinality(Used) = n
  BY FS_Interval

\* What claim() finds and where it writes.
LEMMA TargetFacts ==
  ASSUME TypeOK, Shape, NEW i \in Identities, NEW force \in BOOLEAN, Target(i, force) \in Rows
  PROVE  /\ Newest(i) # 0 => Newest(i) \in Used
         /\ Acquires(i, force) => Target(i, force) = Newest(i) \/ Target(i, force) \notin Used
         /\ ~Acquires(i, force) => Target(i, force) = Newest(i) /\ Newest(i) \in Used
         /\ \A w \in Used : w < Target(i, force) \/ Target(i, force) = Newest(i)
         /\ \E n \in 0..MaxRows : Used \cup {Target(i, force)} = 1..n
<1>1. PICK n \in 0..MaxRows : Used = 1..n BY DEF Shape
<1>2. Cardinality(Used) = n BY <1>1, UsedCount
<1>3. Newest(i) # 0 => Newest(i) \in Used
  <2> SUFFICES ASSUME Newest(i) # 0 PROVE Newest(i) \in Used OBVIOUS
  <2>1. Newest(i) \in Rows /\ work[Newest(i)].identity = i /\ i # None
    BY NewestFacts DEF Identities
  <2> QED BY <2>1 DEF Shape, Used
<1>4. CASE Target(i, force) = Newest(i)
  <2>1. Target(i, force) # 0 BY DEF Rows
  <2>2. Used \cup {Target(i, force)} = 1..n BY <1>1, <1>3, <1>4, <2>1
  <2> QED BY <1>3, <1>4, <2>1, <2>2
<1>5. CASE Target(i, force) # Newest(i)
  <2>1. Target(i, force) = n + 1 /\ Acquires(i, force) BY <1>2, <1>5 DEF Target
  <2>2. n + 1 \in 0..MaxRows BY <2>1 DEF Rows
  <2>3. Used \cup {Target(i, force)} = 1..(n + 1) BY <1>1, <2>1
  <2> QED BY <1>1, <1>3, <2>1, <2>2, <2>3
<1> QED BY <1>4, <1>5

LEMMA FoundFacts ==
  ASSUME TypeOK, NEW i \in Identities
  PROVE  /\ Newest(i) = 0 => Found(i) = "none"
         /\ Newest(i) # 0 => /\ Found(i) \in {work[Newest(i)].status, "interrupted"}
                             /\ Found(i) = "running" => work[Newest(i)].status = "running"
  BY DEF Found

\* What claim() changes.
LEMMA AdmitFacts ==
  ASSUME TypeOK, Shape, NEW i \in Identities, NEW force \in BOOLEAN, Admit(i, force)
  PROVE  /\ work' \in [Rows -> Entry] /\ Shape'
         /\ \A w \in Used : w \in Used' /\ work'[w].identity = work[w].identity
         /\ \A w \in Used' \ Used : Acquires(i, force) /\ w = Target(i, force) /\ work'[w].identity = i
         /\ \A w \in Rows : ~(Acquires(i, force) /\ w = Target(i, force)) =>
              /\ work'[w].identity = work[w].identity
              /\ work'[w].status = IF w = Newest(i) THEN Found(i) ELSE work[w].status
         /\ Acquires(i, force) => Target(i, force) \in Used'
         /\ Target(i, force) \in Used'
<1> DEFINE T == Target(i, force) N == Newest(i) A == Acquires(i, force) D == {w \in {T} : A}
<1>1. T \in Rows BY DEF Admit
<1>2. /\ N # 0 => N \in Used /\ N \in Rows /\ work[N].identity = i
      /\ A => T = N \/ T \notin Used
      /\ ~A => T = N /\ N \in Used
      /\ \E n \in 0..MaxRows : Used \cup {T} = 1..n
  BY <1>1, TargetFacts, NewestFacts
<1>3. Found(i) \in Ends \cup {"none", "running", "interrupted"} /\ (N # 0 => Found(i) # "none")
  BY <1>2, FoundFacts DEF TypeOK, Entry, Used
<1>4. DOMAIN work' = Rows /\ work' = [w \in Rows |-> work'[w]] BY DEF Admit
<1>5. /\ D \subseteq {T} /\ (A => D = {T}) /\ (~A => D = {})
      /\ \A w \in D : w = N \/ w \notin Used
      /\ \E n \in 0..MaxRows : Used \cup D = 1..n
      /\ \A w \in Rows : w \in D <=> w = T /\ A
  BY <1>1, <1>2 DEF Shape
<1>6. /\ \A w \in D : work'[w] = [identity |-> i, status |-> "running", live |-> TRUE, fresh |-> work[w].fresh]
      /\ \A w \in Rows \ D : w # N => work'[w] = work[w]
      /\ \A w \in Rows \ D : w = N => work'[w] = [work[w] EXCEPT !.status = Found(i)]
  BY <1>1, <1>5 DEF Admit
<1> HIDE DEF T, N, A, D
<1>7. \A w \in Rows \ D :
         /\ work'[w].identity = work[w].identity
         /\ work'[w].status = IF w = N THEN Found(i) ELSE work[w].status
         /\ work'[w] \in Entry
  <2> SUFFICES ASSUME NEW w \in Rows \ D
               PROVE  /\ work'[w].identity = work[w].identity
                      /\ work'[w].status = IF w = N THEN Found(i) ELSE work[w].status
                      /\ work'[w] \in Entry
    OBVIOUS
  <2>1. work[w] \in Entry BY DEF TypeOK
  <2>2. CASE w # N BY <1>6, <2>1, <2>2
  <2>3. CASE w = N
    <3>1. work'[w] = [work[w] EXCEPT !.status = Found(i)] BY <1>6, <2>3
    <3> QED BY <1>3, <2>1, <2>3, <3>1 DEF Entry
  <2> QED BY <2>2, <2>3
<1>8. \A w \in D : work'[w].identity = i /\ work'[w].status = "running" /\ work'[w] \in Entry
  <2>1. \A w \in D : w \in Rows BY <1>1, <1>5
  <2> SUFFICES ASSUME NEW w \in D
               PROVE  work'[w].identity = i /\ work'[w].status = "running" /\ work'[w] \in Entry
    OBVIOUS
  <2>2. work[w].fresh \in BOOLEAN BY <2>1 DEF TypeOK, Entry
  <2>3. work'[w] = [identity |-> i, status |-> "running", live |-> TRUE, fresh |-> work[w].fresh] BY <1>6
  <2> QED BY <2>2, <2>3 DEF Entry
<1>9. work' \in [Rows -> Entry]
  <2>1. \A w \in Rows : work'[w] \in Entry BY <1>7, <1>8
  <2> QED BY <1>4, <2>1
<1>10. Used' = Used \cup D
  <2>1. \A w \in Rows \ D : work'[w].status = "none" <=> work[w].status = "none"
    BY <1>2, <1>3, <1>7 DEF Used, Rows
  <2> QED BY <1>5, <1>1, <1>8, <2>1 DEF Used
<1>11. i # None BY DEF Identities
<1>12. \A w \in Rows : work'[w].status = "none" <=> work'[w].identity = None
  <2>1. \A w \in Rows \ D : work'[w].status = "none" <=> work[w].status = "none"
    BY <1>2, <1>3, <1>7 DEF Used, Rows
  <2>2. \A w \in Rows \ D : work'[w].status = "none" <=> work'[w].identity = None
    BY <1>7, <2>1 DEF Shape
  <2> QED BY <1>8, <1>11, <2>2
<1>13. \E n \in 0..MaxRows : Used' = 1..n BY <1>5, <1>10
<1>14. Shape' BY <1>12, <1>13 DEF Shape
<1>15. \A w \in Used : w \in Used' /\ work'[w].identity = work[w].identity
  <2>1. \A w \in Used \ D : work'[w].identity = work[w].identity BY <1>7 DEF Used
  <2>2. \A w \in Used \cap D : work'[w].identity = work[w].identity BY <1>5, <1>2, <1>8
  <2> QED BY <1>10, <2>1, <2>2
<1>16. T \in Used' BY <1>5, <1>2, <1>10
<1>17. \A w \in Used' \ Used : A /\ w = T /\ work'[w].identity = i
  <2>1. \A w \in D : A /\ w = T BY <1>5, <1>1
  <2> QED BY <1>8, <1>10, <2>1
<1>18. \A w \in Rows : ~(A /\ w = T) => w \in Rows \ D BY <1>5
<1> QED BY <1>7, <1>9, <1>14, <1>15, <1>16, <1>17, <1>18 DEF T, N, A

\* What a step that writes the status of a used row changes.
LEMMA StatusFacts ==
  ASSUME TypeOK, Shape, NEW w \in Used, NEW st \in Ends, work' = Status(w, st)
  PROVE  /\ work' \in [Rows -> Entry] /\ Used' = Used /\ Shape'
         /\ \A v \in Rows : /\ work'[v].identity = work[v].identity
                            /\ work'[v].status = "running" => work[v].status = "running"
<1> DEFINE f == work[w].fresh \/ (st = "completed" /\ work[w].status # "completed")
<1>1. f \in BOOLEAN OBVIOUS
<1>2. work' = [work EXCEPT ![w].status = st, ![w].live = TRUE, ![w].fresh = f]
  BY DEF Status, TypeOK, Entry, Used
<1> HIDE DEF f
<1>0. w \in Rows /\ work[w] \in Entry BY DEF TypeOK, Used
<1>4. work' \in [Rows -> Entry]
  <2> DEFINE a == [work EXCEPT ![w].status = st]
             b == [a EXCEPT ![w].live = TRUE]
             c == [b EXCEPT ![w].fresh = f]
  <2>1. a \in [Rows -> Entry] BY <1>0 DEF TypeOK, Entry
  <2> HIDE DEF a
  <2>2. b \in [Rows -> Entry] BY <1>0, <2>1 DEF Entry
  <2> HIDE DEF b
  <2>3. c \in [Rows -> Entry] BY <1>0, <1>1, <2>2 DEF Entry
  <2>4. work' = c BY <1>2 DEF a, b
  <2> QED BY <2>3, <2>4
<1>5. \A v \in Rows : /\ work'[v].identity = work[v].identity
                      /\ work'[v].status = IF v = w THEN st ELSE work[v].status
  <2>1. \A v \in Rows \ {w} : work'[v] = work[v] BY <1>2 DEF TypeOK
  <2>2. work'[w].identity = work[w].identity BY <1>0, <1>2 DEF TypeOK, Entry
  <2>3. work'[w].status = st BY <1>0, <1>2 DEF TypeOK, Entry
  <2> QED BY <2>1, <2>2, <2>3
<1>6. Used' = Used BY <1>5 DEF Used, Ends
<1>7. Shape' BY <1>5, <1>6 DEF Shape, Used, Ends
<1> QED BY <1>4, <1>5, <1>6, <1>7 DEF Ends

-----------------------------------------------------------------------------
(* Type correctness and the shape of the table.                            *)

\* The used rows stay used.
RowsGrow == work' \in [Rows -> Entry] /\ Used \subseteq Used'

\* A worker moves on to a used row, or is idle.
LEMMA JobsOK ==
  ASSUME TypeOK, RowsGrow, NEW p \in Workers, NEW j \in Job, j = Idle \/ j.row \in Used',
         job' = [job EXCEPT ![p] = j],
         moved' \in SUBSET Rows, calls' \in [Rows -> [Slots -> Nat]],
         delivery' \in [Rows -> [Slots -> {"none", "sending", "sent", "uncertain"}]]
  PROVE  TypeOK'
<1>1. job' \in [Workers -> Job] BY DEF TypeOK
<1>2. \A q \in Workers : job'[q] # Idle => job'[q].row \in Used'
  BY DEF TypeOK, RowsGrow, Used, Job
<1>3. \A q \in Workers : job'[q] # Idle => job'[q].row # 0 /\ work'[job'[q].row].status # "none"
  BY <1>2 DEF Used, Rows
<1> QED BY <1>1, <1>3 DEF TypeOK, RowsGrow

LEMMA JobsSame ==
  ASSUME TypeOK, RowsGrow, job' = job,
         moved' \in SUBSET Rows, calls' = calls, delivery' = delivery
  PROVE  TypeOK'
<1>1. \A q \in Workers : job[q] # Idle => job[q].row \in Used
  BY DEF TypeOK, Used, Job
<1>2. \A q \in Workers : job[q] # Idle => job[q].row # 0 /\ work'[job[q].row].status # "none"
  BY <1>1 DEF RowsGrow, Used, Rows
<1> QED BY <1>2 DEF TypeOK, RowsGrow

LEMMA JobRow ==
  ASSUME TypeOK, NEW p \in Workers
  PROVE  /\ job[p] \in Job /\ (job[p] # Idle => job[p].row \in Used /\ job[p].row \in Rows)
         /\ job[p].at # "idle" => job[p].row \in Used /\ job[p].row \in Rows
  BY DEF TypeOK, Used, Job, Idle

LEMMA ResumeType ==
  ASSUME TypeOK, Shape, NEW p \in Workers, job[p].at = "working" \/ job[p].at = "called", Resume(p),
         moved' = moved, calls' = calls,
         delivery' \in [Rows -> [Slots -> {"none", "sending", "sent", "uncertain"}]]
  PROVE  /\ TypeOK' /\ Shape' /\ Used' = Used
         /\ \A v \in Rows : /\ work'[v].identity = work[v].identity
                            /\ work'[v].status = "running" => work[v].status = "running"
<1> DEFINE j == IF job[p].role = "owner" THEN [job[p] EXCEPT !.at = "working", !.slot = None] ELSE Idle
<1>1. job[p] \in Job /\ job[p].row \in Used BY JobRow
<1>2. j \in Job /\ (j = Idle \/ j.row \in Used) BY <1>1 DEF Job, Idle
<1>3. job' = [job EXCEPT ![p] = j] BY DEF Resume
<1> HIDE DEF j
<1>4. /\ RowsGrow /\ Shape' /\ Used' = Used
      /\ \A v \in Rows : /\ work'[v].identity = work[v].identity
                         /\ work'[v].status = "running" => work[v].status = "running"
  <2>1. CASE work' = work BY <2>1 DEF RowsGrow, TypeOK, Shape, Used
  <2>2. CASE work' = Status(job[p].row, "completed")
    BY <1>1, <2>2, StatusFacts DEF RowsGrow, Ends
  <2> QED BY <2>1, <2>2 DEF Resume
<1>5. TypeOK' BY <1>2, <1>3, <1>4, JobsOK DEF TypeOK
<1> QED BY <1>4, <1>5

LEMMA InitShape == Init => TypeOK /\ Shape /\ OlderIdle /\ SendsKnown
<1> SUFFICES ASSUME Init PROVE TypeOK /\ Shape /\ OlderIdle /\ SendsKnown OBVIOUS
<1>1. Absent \in Entry /\ Idle \in Job BY DEF Absent, Idle, Entry, Job
<1>2. TypeOK
  <2>1. work \in [Rows -> Entry] /\ job \in [Workers -> Job] /\ moved \in SUBSET Rows
    BY <1>1 DEF Init
  <2>2. delivery \in [Rows -> [Slots -> {"none", "sending", "sent", "uncertain"}]]
    BY DEF Init
  <2>3. calls \in [Rows -> [Slots -> Nat]] BY DEF Init
  <2> QED BY <2>1, <2>2, <2>3 DEF Init, TypeOK
<1>3. Used = {} BY DEF Init, Used, Absent
<1>4. Used = 1..0 BY <1>3
<1>5. Shape
  <2>1. 0 \in 0..MaxRows OBVIOUS
  <2>2. \A w \in Rows : work[w] = Absent BY DEF Init
  <2> QED BY <1>4, <2>1, <2>2 DEF Shape, Absent
<1>6. OlderIdle BY <1>3 DEF OlderIdle
<1>7. SendsKnown BY DEF Init, SendsKnown, Sends, Idle
<1> QED BY <1>2, <1>5, <1>6, <1>7

\* The facts every step of the table keeps, and what is left to say of it.
Basic == TypeOK /\ Shape /\ OlderIdle
TableKept == /\ TypeOK' /\ Shape' /\ Used' = Used /\ moved' = moved
             /\ \A v \in Rows : /\ work'[v].identity = work[v].identity
                                /\ work'[v].status = "running" => work[v].status = "running"

LEMMA KeptBasic ==
  ASSUME Basic, TableKept
  PROVE  Basic'
<1>1. Used \subseteq Rows BY DEF Used
<1> QED BY <1>1 DEF Basic, TableKept, OlderIdle

LEMMA ClaimBasic ==
  ASSUME Basic, NEW i \in Identities, NEW force \in BOOLEAN, Admit(i, force), TypeOK', moved' = moved
  PROVE  Basic'
<1> DEFINE T == Target(i, force) N == Newest(i) A == Acquires(i, force)
<1>1. T \in Rows BY DEF Admit
<1>2. /\ Shape'
      /\ \A w \in Used : w \in Used' /\ work'[w].identity = work[w].identity
      /\ \A w \in Used' \ Used : A /\ w = T /\ work'[w].identity = i
      /\ \A w \in Rows : ~(A /\ w = T) => /\ work'[w].identity = work[w].identity
                                         /\ work'[w].status = IF w = N THEN Found(i) ELSE work[w].status
  BY AdmitFacts DEF Basic
<1>3. /\ A => T = N \/ T \notin Used
      /\ \A w \in Used : w < T \/ T = N
      /\ \A w \in Used : work[w].identity = i => w <= N
      /\ N # 0 => N \in Used /\ work[N].identity = i
  BY <1>1, TargetFacts, NewestFacts DEF Basic, Used
<1>4. A => Found(i) # "running" BY DEF Acquires
<1>5. Found(i) = "running" => work[N].status = "running" \/ N = 0 BY FoundFacts DEF Basic
<1>6. Used \subseteq Nat /\ Used' \subseteq Rows /\ Rows \subseteq Nat /\ T \in Nat /\ N \in Nat /\ 0 \notin Rows
  BY <1>1, NewestFacts DEF Used, Rows
<1> HIDE DEF T, N, A
<1>7. OlderIdle'
  <2> SUFFICES ASSUME NEW v \in Used', NEW w \in Used', v < w, work'[v].identity = work'[w].identity, v \notin moved
               PROVE  work'[v].status # "running"
    BY DEF OlderIdle
  <2>1. CASE v \in Used /\ w \in Used /\ ~(A /\ (v = T \/ w = T))
    <3>1. work[v].status # "running" BY <1>2, <2>1 DEF Basic, OlderIdle
    <3> QED BY <1>2, <1>5, <1>6, <2>1, <3>1
  <2>2. CASE A /\ w = T
    <3>1. v # T /\ v \in Used /\ work[v].identity = work'[v].identity BY <1>2, <1>6, <2>2
    <3>2. work'[w].identity = i
      <4>1. CASE w \in Used BY <1>2, <1>3, <1>6, <2>2, <4>1
      <4>2. CASE w \notin Used BY <1>2, <4>2
      <4> QED BY <4>1, <4>2
    <3>3. CASE v = N BY <1>2, <1>4, <1>6, <2>2, <3>1, <3>3
    <3>4. CASE v # N
      <4>0. work[v].identity = i BY <3>1, <3>2
      <4>3. v <= N /\ v \in Nat BY <1>3, <1>6, <3>1, <4>0
      <4>4. N # 0 BY <1>6, <3>1, <4>3
      <4>1. v < N /\ N \in Used /\ work[N].identity = i BY <1>3, <1>6, <3>4, <4>3, <4>4
      <4>2. work[v].status # "running" BY <3>1, <3>2, <4>1 DEF Basic, OlderIdle
      <4> QED BY <1>2, <1>6, <2>2, <3>1, <3>4, <4>2
    <3> QED BY <3>3, <3>4
  <2>3. CASE A /\ v = T
    <3>1. w # T /\ w \in Used /\ work[w].identity = work'[w].identity BY <1>2, <1>6, <2>3
    <3>2. work'[v].identity = i BY <1>2, <1>3, <2>3, <1>6
    <3>3. w <= N BY <1>3, <3>1, <3>2
    <3>4. T = N BY <1>3, <1>6, <3>1, <2>3
    <3> QED BY <1>6, <2>3, <3>3, <3>4
  <2>4. (v \in Used \/ (A /\ v = T)) /\ (w \in Used \/ (A /\ w = T)) BY <1>2
  <2> QED BY <2>1, <2>2, <2>3, <2>4
<1> QED BY <1>2, <1>7 DEF Basic

\* A step that leaves the table alone, or only its leases.
LEMMA SameTable ==
  ASSUME Basic, work' = work, moved' = moved, TypeOK'
  PROVE  TableKept
  BY DEF Basic, TableKept, Shape, Used

LEMMA LeaseTable ==
  ASSUME Basic, NEW w \in Rows, NEW b \in BOOLEAN, moved' = moved,
         work' = [work EXCEPT ![w].live = b] \/ work' = [work EXCEPT ![w].fresh = b]
  PROVE  /\ RowsGrow /\ Shape' /\ Used' = Used
         /\ \A v \in Rows : /\ work'[v].identity = work[v].identity /\ work'[v].status = work[v].status
<1>0. work \in [Rows -> Entry] BY DEF Basic, TypeOK
<1>1. work' \in [Rows -> Entry]
  <2>1. CASE work' = [work EXCEPT ![w].live = b] BY <1>0, <2>1 DEF Entry
  <2>2. CASE work' = [work EXCEPT ![w].fresh = b] BY <1>0, <2>2 DEF Entry
  <2> QED BY <2>1, <2>2
<1>2. \A v \in Rows : /\ work'[v].identity = work[v].identity /\ work'[v].status = work[v].status
  <2>1. CASE work' = [work EXCEPT ![w].live = b] BY <1>0, <2>1 DEF Entry
  <2>2. CASE work' = [work EXCEPT ![w].fresh = b] BY <1>0, <2>2 DEF Entry
  <2> QED BY <2>1, <2>2
<1>3. Used' = Used BY <1>2 DEF Used
<1>4. Shape' BY <1>2, <1>3 DEF Basic, Shape
<1> QED BY <1>1, <1>2, <1>3, <1>4 DEF RowsGrow

\* What a step does to the table: nothing a claim depends on, a claim, or a
\* reclassification.
Kind == \/ TableKept
        \/ \E i \in Identities, force \in BOOLEAN : Admit(i, force) /\ TypeOK' /\ moved' = moved
        \/ \E p \in Workers, i \in Identities : Reclassify(p, i)

LEMMA ReclassifyBasic ==
  ASSUME Basic, NEW p \in Workers, NEW i \in Identities, Reclassify(p, i)
  PROVE  Basic'
<1> USE DEF Basic
<1>1. job[p].row \in Used /\ job[p].row \in Rows BY JobRow DEF Reclassify
<1> DEFINE r == job[p].row
<1>2. /\ work' = [work EXCEPT ![r].identity = i] /\ moved' = moved \cup {r} /\ i \in Identities /\ i # None
      /\ UNCHANGED <<job, delivery, calls>> /\ \A w \in Of(i) : work[w].status # "running"
  BY DEF Reclassify, Identities
<1> HIDE DEF r
<1>3. r \in Used /\ r \in Rows BY <1>1 DEF r
<1>4. work' \in [Rows -> Entry] BY <1>2, <1>3 DEF TypeOK, Entry
<1>5. \A w \in Rows : /\ work'[w].status = work[w].status
                      /\ work'[w].identity = IF w = r THEN i ELSE work[w].identity
  BY <1>2, <1>3 DEF TypeOK, Entry
<1>6. Used' = Used BY <1>5 DEF Used
<1>7. Shape' BY <1>2, <1>3, <1>5, <1>6 DEF Shape, Used
<1>8. TypeOK' BY <1>2, <1>3, <1>4, <1>6, JobsSame DEF RowsGrow, TypeOK
<1>9. OlderIdle'
  <2> SUFFICES ASSUME NEW v \in Used, NEW w \in Used, v < w, work'[v].identity = work'[w].identity, v \notin moved'
               PROVE  work'[v].status # "running"
    BY <1>6 DEF OlderIdle
  <2>1. v # r /\ v \in Rows /\ w \in Rows /\ v \notin moved BY <1>2 DEF Used
  <2>2. CASE w = r
    <3>1. v \in Of(i) BY <1>5, <2>1, <2>2 DEF Of
    <3> QED BY <1>2, <1>5, <2>1, <3>1
  <2>3. CASE w # r BY <1>5, <2>1, <2>3 DEF OlderIdle
  <2> QED BY <2>2, <2>3
<1> QED BY <1>7, <1>8, <1>9

LEMMA StepKind ==
  ASSUME Basic, [Next]_vars
  PROVE  Kind
<1> USE DEF Basic
<1>1. ASSUME NEW p \in Workers, NEW i \in Identities, NEW force \in BOOLEAN, Claim(p, i, force) PROVE Kind
  <2>1. Admit(i, force) BY <1>1 DEF Claim
  <2>2. RowsGrow /\ Target(i, force) \in Used' BY <2>1, AdmitFacts DEF RowsGrow
  <2>3. CASE job' = job BY <1>1, <2>1, <2>2, <2>3, JobsSame DEF Kind, Claim, TypeOK
  <2>4. CASE job' = [job EXCEPT ![p] = [Idle EXCEPT !.at = "working", !.row = Target(i, force), !.role = "owner"]]
    <3> DEFINE j == [Idle EXCEPT !.at = "working", !.row = Target(i, force), !.role = "owner"]
    <3>1. j \in Job /\ j.row \in Used' BY <2>1, <2>2 DEF Job, Idle, Admit
    <3> HIDE DEF j
    <3>2. job' = [job EXCEPT ![p] = j] BY <2>4 DEF j
    <3>3. TypeOK' BY <1>1, <2>2, <3>1, <3>2, JobsOK DEF Claim, TypeOK
    <3> QED BY <1>1, <2>1, <3>3 DEF Kind, Claim
  <2> QED BY <1>1, <2>3, <2>4 DEF Claim
<1>2. ASSUME NEW p \in Workers, NEW i \in Identities, Observe(p, i) PROVE Kind
  <2>1. Admit(i, FALSE) BY <1>2 DEF Observe
  <2>2. RowsGrow /\ Target(i, FALSE) \in Used' BY <2>1, AdmitFacts DEF RowsGrow
  <2> DEFINE j == [Idle EXCEPT !.at = "working", !.row = Target(i, FALSE), !.role = "reply"]
  <2>3. j \in Job /\ j.row \in Used' BY <2>1, <2>2 DEF Job, Idle, Admit
  <2>4. job' = [job EXCEPT ![p] = j] BY <1>2 DEF Observe
  <2> HIDE DEF j
  <2>5. TypeOK' BY <1>2, <2>2, <2>3, <2>4, JobsOK DEF Observe, TypeOK
  <2> QED BY <1>2, <2>1, <2>5 DEF Kind, Observe
<1>3. ASSUME NEW p \in Workers, NEW w \in Rows, Fetch(p, w) PROVE Kind
  <2> DEFINE j == [Idle EXCEPT !.at = "working", !.row = w, !.role = "courier"]
  <2>1. j \in Job /\ j.row \in Used BY <1>3 DEF Job, Idle, Fetch
  <2>2. job' = [job EXCEPT ![p] = j] /\ RowsGrow /\ Used' = Used BY <1>3 DEF Fetch, RowsGrow, TypeOK, Used
  <2> HIDE DEF j
  <2>3. TypeOK' BY <1>3, <2>1, <2>2, JobsOK DEF Fetch, TypeOK
  <2> QED BY <1>3, <2>3, SameTable DEF Kind, Fetch
<1>4. ASSUME NEW p \in Workers, Beat(p) PROVE Kind
  <2>1. job[p].row \in Rows BY <1>4, JobRow DEF Beat
  <2>2. /\ RowsGrow /\ Shape' /\ Used' = Used /\ moved' = moved
        /\ \A v \in Rows : /\ work'[v].identity = work[v].identity /\ work'[v].status = work[v].status
    BY <1>4, <2>1, LeaseTable DEF Beat
  <2>3. TypeOK' BY <1>4, <2>2, JobsSame DEF Beat, TypeOK
  <2> QED BY <2>2, <2>3 DEF Kind, TableKept
<1>5. ASSUME NEW p \in Workers, Send(p) PROVE Kind
  <2>0. job[p].at # "idle" BY <1>5 DEF Send, Reserve, Reuse, Call, Raise, Settle
  <2>1. job[p] \in Job /\ job[p].row \in Used /\ job[p].row \in Rows BY <2>0, JobRow
  <2>2. ASSUME NEW s \in Slots, Reserve(p, s) PROVE Kind
    <3> DEFINE j == [job[p] EXCEPT !.at = "sending", !.slot = s]
    <3>1. j \in Job /\ j.row = job[p].row BY <2>1 DEF Job
    <3>2. job' = [job EXCEPT ![p] = j] BY <2>2 DEF Reserve, TypeOK
    <3>3. delivery' \in [Rows -> [Slots -> {"none", "sending", "sent", "uncertain"}]]
      BY <2>1, <2>2 DEF Reserve, TypeOK
    <3>4. RowsGrow /\ Used' = Used BY <2>2 DEF Reserve, RowsGrow, TypeOK, Used
    <3> HIDE DEF j
    <3>5. moved' \in SUBSET Rows /\ calls' \in [Rows -> [Slots -> Nat]] BY <2>2, <3>3 DEF Reserve, TypeOK
    <3>6. delivery' \in [Rows -> [Slots -> {"none", "sending", "sent", "uncertain"}]] BY <2>2, <3>3 DEF Reserve, TypeOK
    <3>7. j = Idle \/ j.row \in Used' BY <2>1, <3>1, <3>4
    <3>8. TypeOK' BY <3>1, <3>2, <3>4, <3>5, <3>6, <3>7, JobsOK
    <3> QED BY <2>2, <3>8, SameTable DEF Kind, Reserve
  <2>3. ASSUME NEW s \in Slots, Reuse(p, s) PROVE Kind
    <3>1. delivery' \in [Rows -> [Slots -> {"none", "sending", "sent", "uncertain"}]]
      BY <2>3 DEF Reuse, TypeOK
    <3>2. TableKept BY <2>3, <3>1, ResumeType DEF Reuse, TableKept
    <3> QED BY <3>2 DEF Kind
  <2>4. CASE Call(p)
    <3> DEFINE j == [job[p] EXCEPT !.at = "called"]
    <3>1. j \in Job /\ j.row = job[p].row BY <2>1 DEF Job
    <3>2. job' = [job EXCEPT ![p] = j] BY <2>4 DEF Call, TypeOK
    <3>3. calls' \in [Rows -> [Slots -> Nat]]
      <4> DEFINE r == job[p].row t == job[p].slot n == calls[r][t] + 1
      <4>1. calls' = [calls EXCEPT ![r] = [@ EXCEPT ![t] = n]] BY <2>4 DEF Call
      <4>2. t \in Slots => n \in Nat BY <2>1 DEF TypeOK
      <4>3. r \in Rows /\ calls[r] \in [Slots -> Nat] BY <2>1 DEF TypeOK
      <4> HIDE DEF n, t, r
      <4>4. [calls[r] EXCEPT ![t] = n] \in [Slots -> Nat] BY <4>2, <4>3
      <4> QED BY <4>1, <4>3, <4>4 DEF TypeOK
    <3>4. RowsGrow /\ Used' = Used BY <2>4 DEF Call, RowsGrow, TypeOK, Used
    <3> HIDE DEF j
    <3>5. moved' \in SUBSET Rows /\ calls' \in [Rows -> [Slots -> Nat]] BY <2>4, <3>3 DEF Call, TypeOK
    <3>6. delivery' \in [Rows -> [Slots -> {"none", "sending", "sent", "uncertain"}]] BY <2>4, <3>3 DEF Call, TypeOK
    <3>7. j = Idle \/ j.row \in Used' BY <2>1, <3>1, <3>4
    <3>8. TypeOK' BY <3>1, <3>2, <3>4, <3>5, <3>6, <3>7, JobsOK
    <3> QED BY <2>4, <3>8, SameTable DEF Kind, Call
  <2>5. CASE Raise(p)
    <3> DEFINE j == IF job[p].role = "owner" THEN [job[p] EXCEPT !.at = "working", !.slot = None] ELSE Idle
    <3>1. j \in Job /\ (j = Idle \/ j.row = job[p].row) BY <2>1 DEF Job, Idle
    <3>2. job' = [job EXCEPT ![p] = j] BY <2>5 DEF Raise, TypeOK
    <3>3. delivery' \in [Rows -> [Slots -> {"none", "sending", "sent", "uncertain"}]]
      BY <2>1, <2>5 DEF Raise, TypeOK
    <3>4. RowsGrow /\ Used' = Used BY <2>5 DEF Raise, RowsGrow, TypeOK, Used
    <3> HIDE DEF j
    <3>5. moved' \in SUBSET Rows /\ calls' \in [Rows -> [Slots -> Nat]] BY <2>5, <3>3 DEF Raise, TypeOK
    <3>6. delivery' \in [Rows -> [Slots -> {"none", "sending", "sent", "uncertain"}]] BY <2>5, <3>3 DEF Raise, TypeOK
    <3>7. j = Idle \/ j.row \in Used' BY <2>1, <3>1, <3>4
    <3>8. TypeOK' BY <3>1, <3>2, <3>4, <3>5, <3>6, <3>7, JobsOK
    <3> QED BY <2>5, <3>8, SameTable DEF Kind, Raise
  <2>6. ASSUME NEW st \in {"sent", "uncertain"}, Settle(p, st) PROVE Kind
    <3>1. delivery' \in [Rows -> [Slots -> {"none", "sending", "sent", "uncertain"}]]
      BY <2>1, <2>6 DEF Settle, TypeOK
    <3>2. TableKept BY <2>6, <3>1, ResumeType DEF Settle, TableKept
    <3> QED BY <3>2 DEF Kind
  <2> QED BY <1>5, <2>2, <2>3, <2>4, <2>5, <2>6 DEF Send
<1>6. ASSUME NEW p \in Workers, NEW st \in Ends, End(p, st) PROVE Kind
  <2>1. job[p] \in Job /\ job[p].row \in Used BY <1>6, JobRow DEF End
  <2> DEFINE j == [job[p] EXCEPT !.at = st]
  <2>2. j \in Job /\ j.row = job[p].row BY <2>1 DEF Job, Ends
  <2>3. job' = [job EXCEPT ![p] = j] BY <1>6 DEF End, TypeOK
  <2>4. /\ RowsGrow /\ Used' = Used /\ Shape'
        /\ \A v \in Rows : /\ work'[v].identity = work[v].identity
                           /\ work'[v].status = "running" => work[v].status = "running"
    BY <1>6, <2>1, StatusFacts DEF End, RowsGrow
  <2> HIDE DEF j
  <2>5. TypeOK' BY <1>6, <2>1, <2>2, <2>3, <2>4, JobsOK DEF End, TypeOK
  <2> QED BY <1>6, <2>4, <2>5 DEF Kind, End, TableKept
<1>7. ASSUME NEW p \in Workers, Close(p) PROVE Kind
  <2>1. job[p] \in Job /\ job[p].row \in Used BY <1>7, JobRow DEF Close, Ends
  <2>2. Idle \in Job BY DEF Idle, Job
  <2>3. /\ RowsGrow /\ Used' = Used /\ Shape'
        /\ \A v \in Rows : /\ work'[v].identity = work[v].identity
                           /\ work'[v].status = "running" => work[v].status = "running"
    <3>1. CASE work' = work BY <3>1 DEF RowsGrow, Shape, Used, TypeOK
    <3>2. ASSUME NEW st \in {"failed", "cancelled"}, work' = Status(job[p].row, st)
          PROVE  /\ RowsGrow /\ Used' = Used /\ Shape'
                 /\ \A v \in Rows : /\ work'[v].identity = work[v].identity
                                    /\ work'[v].status = "running" => work[v].status = "running"
      <4>1. st \in Ends BY DEF Ends
      <4> QED BY <2>1, <3>2, <4>1, StatusFacts DEF RowsGrow
    <3> QED BY <1>7, <3>1, <3>2 DEF Close
  <2>4. TypeOK' BY <1>7, <2>2, <2>3, JobsOK DEF Close, TypeOK
  <2> QED BY <1>7, <2>3, <2>4 DEF Kind, Close, TableKept
<1>8. ASSUME NEW p \in Workers, NEW i \in Identities, Reclassify(p, i) PROVE Kind BY <1>8 DEF Kind
<1>9. ASSUME NEW w \in Rows, Lapse(w) \/ Age(w) PROVE Kind
  <2>1. /\ RowsGrow /\ Shape' /\ Used' = Used /\ moved' = moved
        /\ \A v \in Rows : /\ work'[v].identity = work[v].identity /\ work'[v].status = work[v].status
    BY <1>9, LeaseTable DEF Lapse, Age
  <2>2. TypeOK' BY <1>9, <2>1, JobsSame DEF Lapse, Age, TypeOK
  <2> QED BY <2>1, <2>2 DEF Kind, TableKept
<1>10. CASE Crash
  <2>1. Idle \in Job BY DEF Idle, Job
  <2>2. TypeOK' BY <1>10, <2>1 DEF Crash, TypeOK
  <2> QED BY <1>10, <2>2, SameTable DEF Kind, Crash
<1>11. CASE UNCHANGED vars
  <2>1. TypeOK' BY <1>11 DEF vars, TypeOK
  <2> QED BY <1>11, <2>1, SameTable DEF Kind, vars
<1> QED BY <1>1, <1>2, <1>3, <1>4, <1>5, <1>6, <1>7, <1>8, <1>9, <1>10, <1>11 DEF Next

LEMMA StepBasic ==
  ASSUME Basic, [Next]_vars
  PROVE  Basic'
<1>1. Kind BY StepKind
<1>2. CASE TableKept BY <1>2, KeptBasic
<1>3. ASSUME NEW i \in Identities, NEW force \in BOOLEAN, Admit(i, force), TypeOK', moved' = moved PROVE Basic'
  BY <1>3, ClaimBasic
<1>4. ASSUME NEW p \in Workers, NEW i \in Identities, Reclassify(p, i) PROVE Basic' BY <1>4, ReclassifyBasic
<1> QED BY <1>1, <1>2, <1>3, <1>4 DEF Kind

-----------------------------------------------------------------------------
(* What the senders know of their slots.                                   *)

LEMMA CellFacts ==
  ASSUME NEW S, NEW f \in [Rows -> [Slots -> S]], NEW r \in Rows, NEW s \in Slots, NEW x, NEW g,
         g = [f EXCEPT ![r][s] = x]
  PROVE  \A w \in Rows, t \in Slots : g[w][t] = IF w = r /\ t = s THEN x ELSE f[w][t]
<1> SUFFICES ASSUME NEW w \in Rows, NEW t \in Slots
             PROVE  g[w][t] = IF w = r /\ t = s THEN x ELSE f[w][t]
  OBVIOUS
<1>1. g[w] = IF w = r THEN [f[r] EXCEPT ![s] = x] ELSE f[w] OBVIOUS
<1>2. f[r] \in [Slots -> S] OBVIOUS
<1> QED BY <1>1, <1>2

Cells == [Rows -> [Slots -> {"none", "sending", "sent", "uncertain"}]]

\* What a step of the sender p writes to its slot, and what it knows then.
LEMMA SenderStep ==
  ASSUME TypeOK, SendsKnown, NEW p \in Workers, NEW r \in Rows, NEW s \in Slots,
         \A q \in Workers \ {p} : job'[q] = job[q],
         \A q \in Workers \ {p} : Sends(q) => At(q) # <<r, s>>,
         \A w \in Rows, t \in Slots : <<w, t>> # <<r, s>> =>
            delivery'[w][t] = delivery[w][t] /\ calls'[w][t] = calls[w][t],
         calls'[r][s] \in {0, 1}, delivery'[r][s] = "none" => calls'[r][s] = 0,
         Sends(p)' => /\ job'[p].row = r /\ job'[p].slot = s /\ delivery'[r][s] = "sending"
                      /\ calls'[r][s] = IF job'[p].at = "called" THEN 1 ELSE 0
  PROVE  SendsKnown'
<1>1. \A q \in Workers \ {p} : Sends(q)' => /\ Sends(q) /\ job'[q] = job[q] /\ At(q)' = At(q)
                                            /\ <<job[q].row, job[q].slot>> # <<r, s>>
  BY DEF Sends, At
<1>2. \A w \in Rows, t \in Slots : /\ calls'[w][t] \in {0, 1}
                                   /\ delivery'[w][t] = "none" => calls'[w][t] = 0
  <2> SUFFICES ASSUME NEW w \in Rows, NEW t \in Slots
               PROVE  calls'[w][t] \in {0, 1} /\ (delivery'[w][t] = "none" => calls'[w][t] = 0)
    OBVIOUS
  <2>1. CASE <<w, t>> # <<r, s>> BY <2>1 DEF SendsKnown
  <2>2. CASE <<w, t>> = <<r, s>> BY <2>2
  <2> QED BY <2>1, <2>2
<1>3. ASSUME NEW q \in Workers, Sends(q)'
      PROVE  /\ job'[q].row \in Rows /\ job'[q].slot \in Slots
             /\ delivery'[job'[q].row][job'[q].slot] = "sending"
             /\ calls'[job'[q].row][job'[q].slot] = IF job'[q].at = "called" THEN 1 ELSE 0
  <2>1. CASE q = p BY <1>3, <2>1
  <2>2. CASE q # p
    <3>1. /\ Sends(q) /\ job'[q] = job[q] /\ <<job[q].row, job[q].slot>> # <<r, s>> BY <1>1, <1>3, <2>2
    <3>2. /\ job[q].row \in Rows /\ job[q].slot \in Slots
          /\ delivery[job[q].row][job[q].slot] = "sending"
          /\ calls[job[q].row][job[q].slot] = IF job[q].at = "called" THEN 1 ELSE 0
      BY <3>1 DEF SendsKnown
    <3> QED BY <3>1, <3>2
  <2> QED BY <2>1, <2>2
<1>4. ASSUME NEW q \in Workers, NEW o \in Workers, Sends(q)', Sends(o)', q # o PROVE At(q)' # At(o)'
  <2>1. CASE q = p BY <1>1, <1>4, <2>1 DEF At
  <2>2. CASE o = p BY <1>1, <1>4, <2>2 DEF At
  <2>3. CASE q # p /\ o # p BY <1>1, <1>4, <2>3 DEF SendsKnown
  <2> QED BY <2>1, <2>2, <2>3
<1> QED BY <1>2, <1>3, <1>4 DEF SendsKnown

\* A step that moves no slot, and after which only earlier senders send.
LEMMA SendsSame ==
  ASSUME SendsKnown, delivery' = delivery, calls' = calls,
         \A q \in Workers : Sends(q)' => Sends(q) /\ job'[q] = job[q]
  PROVE  SendsKnown'
<1>1. \A q \in Workers : Sends(q)' => Sends(q) /\ job'[q] = job[q] /\ At(q)' = At(q) BY DEF At
<1>2. ASSUME NEW q \in Workers, Sends(q)'
      PROVE  /\ job'[q].row \in Rows /\ job'[q].slot \in Slots
             /\ delivery'[job'[q].row][job'[q].slot] = "sending"
             /\ calls'[job'[q].row][job'[q].slot] = IF job'[q].at = "called" THEN 1 ELSE 0
  BY <1>1, <1>2 DEF SendsKnown
<1>3. ASSUME NEW q \in Workers, NEW o \in Workers, Sends(q)', Sends(o)', q # o PROVE At(q)' # At(o)'
  BY <1>1, <1>3 DEF SendsKnown
<1> QED BY <1>2, <1>3 DEF SendsKnown

\* What the four steps of a send do to the slot, and to the sender.
SlotWrites(p, r, s, o, n) ==
    /\ job[p].row = r /\ r \in Rows /\ s \in Slots
    /\ \A q \in Workers \ {p} : job'[q] = job[q]
    /\ \A w \in Rows, t \in Slots :
         /\ delivery'[w][t] = IF w = r /\ t = s THEN o ELSE delivery[w][t]
         /\ calls'[w][t] = IF w = r /\ t = s THEN n ELSE calls[w][t]

LEMMA ReserveWrites ==
  ASSUME TypeOK, SendsKnown, NEW p \in Workers, NEW s \in Slots, Reserve(p, s)
  PROVE  /\ SlotWrites(p, job[p].row, s, "sending", 0) /\ delivery[job[p].row][s] = "none"
         /\ job'[p].at = "sending" /\ job'[p].row = job[p].row /\ job'[p].slot = s
         /\ calls[job[p].row][s] = 0
<1> DEFINE r == job[p].row
<1>1. r \in Rows /\ job[p] \in Job BY JobRow DEF Reserve
<1>2. delivery \in Cells BY DEF TypeOK, Cells
<1>3. \A w \in Rows, t \in Slots : delivery'[w][t] = IF w = r /\ t = s THEN "sending" ELSE delivery[w][t]
  BY <1>1, <1>2, CellFacts DEF Reserve, Cells
<1>4. delivery[r][s] = "none" /\ calls[r][s] = 0 BY <1>1 DEF Reserve, SendsKnown
<1>5. job'[p].at = "sending" /\ job'[p].row = r /\ job'[p].slot = s
  <2>1. job[p] \in [at : Ends \cup {"idle", "working", "sending", "called"}, row : Rows \cup {0},
                    slot : Slots \cup {None}, role : {"none", "owner", "reply", "courier"}]
    BY <1>1 DEF Job
  <2>2. job'[p] = [job[p] EXCEPT !.at = "sending", !.slot = s] BY DEF Reserve, TypeOK
  <2> QED BY <2>1, <2>2
<1>6. \A q \in Workers \ {p} : job'[q] = job[q] BY DEF Reserve, TypeOK
<1>7. calls' = calls BY DEF Reserve
<1> QED BY <1>1, <1>3, <1>4, <1>5, <1>6, <1>7 DEF SlotWrites

LEMMA CallWrites ==
  ASSUME TypeOK, SendsKnown, NEW p \in Workers, Call(p)
  PROVE  /\ SlotWrites(p, job[p].row, job[p].slot, "sending", 1)
         /\ delivery[job[p].row][job[p].slot] = "sending" /\ calls[job[p].row][job[p].slot] = 0
         /\ job'[p].at = "called" /\ job'[p].row = job[p].row /\ job'[p].slot = job[p].slot
<1> DEFINE r == job[p].row s == job[p].slot
<1>1. /\ r \in Rows /\ s \in Slots /\ delivery[r][s] = "sending" /\ calls[r][s] = 0
      /\ job[p] \in Job
  BY JobRow DEF Call, SendsKnown, Sends
<1>2. calls \in [Rows -> [Slots -> Nat]] BY DEF TypeOK
<1>3. calls' = [calls EXCEPT ![r][s] = calls[r][s] + 1] BY DEF Call
<1>4. \A w \in Rows, t \in Slots : calls'[w][t] = IF w = r /\ t = s THEN calls[r][s] + 1 ELSE calls[w][t]
  BY <1>1, <1>2, <1>3, CellFacts
<1>5. job'[p] = [job[p] EXCEPT !.at = "called"] BY DEF Call, TypeOK
<1>6. job'[p].at = "called" /\ job'[p].row = r /\ job'[p].slot = s BY <1>1, <1>5 DEF Job
<1>7. \A q \in Workers \ {p} : job'[q] = job[q] BY DEF Call, TypeOK
<1>8. delivery' = delivery BY DEF Call
<1> QED BY <1>1, <1>4, <1>6, <1>7, <1>8 DEF SlotWrites

\* The end of a send: confirmed only after a call, else uncertain.
LEMMA DoneWrites ==
  ASSUME TypeOK, SendsKnown, NEW p \in Workers, NEW st \in {"sent", "uncertain"},
         (Raise(p) /\ st = "uncertain") \/ Settle(p, st)
  PROVE  /\ SlotWrites(p, job[p].row, job[p].slot, st, calls[job[p].row][job[p].slot])
         /\ delivery[job[p].row][job[p].slot] = "sending"
         /\ calls[job[p].row][job[p].slot] \in {0, 1}
         /\ st = "sent" => calls[job[p].row][job[p].slot] = 1
         /\ ~Sends(p)'
<1> DEFINE r == job[p].row s == job[p].slot
<1>1. /\ r \in Rows /\ s \in Slots /\ delivery[r][s] = "sending" /\ calls[r][s] \in {0, 1}
      /\ job[p].at = "called" => calls[r][s] = 1
      /\ job[p] \in Job /\ (st = "sent" => job[p].at = "called")
  BY JobRow DEF Raise, Settle, SendsKnown, Sends
<1>2. delivery \in Cells BY DEF TypeOK, Cells
<1>3. delivery' = [delivery EXCEPT ![r][s] = st] /\ calls' = calls BY DEF Raise, Settle
<1>4. \A w \in Rows, t \in Slots : delivery'[w][t] = IF w = r /\ t = s THEN st ELSE delivery[w][t]
  BY <1>1, <1>2, <1>3, CellFacts DEF Cells
<1> DEFINE j == IF job[p].role = "owner" THEN [job[p] EXCEPT !.at = "working", !.slot = None] ELSE Idle
<1>5. job' = [job EXCEPT ![p] = j] BY DEF Raise, Settle, Resume
<1>6. j.at \in {"working", "idle"} BY <1>1 DEF Job, Idle
<1> HIDE DEF j
<1>7. ~Sends(p)' /\ \A q \in Workers \ {p} : job'[q] = job[q] BY <1>5, <1>6 DEF Sends, TypeOK
<1> QED BY <1>1, <1>3, <1>4, <1>7 DEF SlotWrites

LEMMA StepSends ==
  ASSUME Basic, SendsKnown, [Next]_vars
  PROVE  SendsKnown'
<1> USE DEF Basic
<1>1. ASSUME NEW p \in Workers, NEW s \in Slots, Reserve(p, s) PROVE SendsKnown'
  <2>1. /\ SlotWrites(p, job[p].row, s, "sending", 0) /\ delivery[job[p].row][s] = "none"
        /\ job'[p].at = "sending" /\ job'[p].row = job[p].row /\ job'[p].slot = s
    BY <1>1, ReserveWrites
  <2>2. \A q \in Workers \ {p} : Sends(q) => At(q) # <<job[p].row, s>> BY <2>1 DEF SendsKnown, At
  <2> QED BY <2>1, <2>2, SenderStep DEF SlotWrites
<1>2. ASSUME NEW p \in Workers, Call(p) PROVE SendsKnown'
  <2>1. /\ SlotWrites(p, job[p].row, job[p].slot, "sending", 1)
        /\ job'[p].at = "called" /\ job'[p].row = job[p].row /\ job'[p].slot = job[p].slot
    BY <1>2, CallWrites
  <2>2. \A q \in Workers \ {p} : Sends(q) => At(q) # <<job[p].row, job[p].slot>>
    BY <1>2 DEF Call, SendsKnown, At, Sends
  <2>3. \A w \in Rows, t \in Slots : <<w, t>> # <<job[p].row, job[p].slot>> =>
            delivery'[w][t] = delivery[w][t] /\ calls'[w][t] = calls[w][t]
    BY <2>1 DEF SlotWrites
  <2> QED BY <2>1, <2>2, <2>3, SenderStep DEF SlotWrites
<1>3. ASSUME NEW p \in Workers, NEW st \in {"sent", "uncertain"},
             (Raise(p) /\ st = "uncertain") \/ Settle(p, st)
      PROVE  SendsKnown'
  <2>1. /\ SlotWrites(p, job[p].row, job[p].slot, st, calls[job[p].row][job[p].slot])
        /\ calls[job[p].row][job[p].slot] \in {0, 1} /\ ~Sends(p)'
    BY <1>3, DoneWrites
  <2>2. \A q \in Workers \ {p} : Sends(q) => At(q) # <<job[p].row, job[p].slot>>
    BY <1>3 DEF Raise, Settle, SendsKnown, At, Sends
  <2>3. \A w \in Rows, t \in Slots : <<w, t>> # <<job[p].row, job[p].slot>> =>
            delivery'[w][t] = delivery[w][t] /\ calls'[w][t] = calls[w][t]
    BY <2>1 DEF SlotWrites
  <2> QED BY <2>1, <2>2, <2>3, SenderStep DEF SlotWrites
<1>4. ASSUME NEW p \in Workers, NEW j, job' = [job EXCEPT ![p] = j], j.at \notin {"sending", "called"},
             UNCHANGED <<delivery, calls>>
      PROVE  SendsKnown'
  <2>1. \A q \in Workers : Sends(q)' => Sends(q) /\ job'[q] = job[q]
    BY <1>4 DEF Sends, TypeOK
  <2> QED BY <1>4, <2>1, SendsSame
<1>5. ASSUME UNCHANGED <<job, delivery, calls>> PROVE SendsKnown'
  BY <1>5, SendsSame DEF Sends
<1>6. ASSUME NEW p \in Workers, NEW i \in Identities, NEW force \in BOOLEAN, Claim(p, i, force) PROVE SendsKnown'
  <2> DEFINE j == [Idle EXCEPT !.at = "working", !.row = Target(i, force), !.role = "owner"]
  <2>1. j.at = "working" BY DEF Idle
  <2> HIDE DEF j
  <2>2. job' = job \/ job' = [job EXCEPT ![p] = j] BY <1>6 DEF Claim, j
  <2> QED BY <1>4, <1>5, <1>6, <2>1, <2>2 DEF Claim
<1>7. ASSUME NEW p \in Workers, NEW i \in Identities, Observe(p, i) PROVE SendsKnown'
  <2> DEFINE j == [Idle EXCEPT !.at = "working", !.row = Target(i, FALSE), !.role = "reply"]
  <2>1. j.at = "working" BY DEF Idle
  <2> HIDE DEF j
  <2>2. job' = [job EXCEPT ![p] = j] BY <1>7 DEF Observe, j
  <2> QED BY <1>4, <1>7, <2>1, <2>2 DEF Observe
<1>8. ASSUME NEW p \in Workers, NEW w \in Rows, Fetch(p, w) PROVE SendsKnown'
  <2> DEFINE j == [Idle EXCEPT !.at = "working", !.row = w, !.role = "courier"]
  <2>1. j.at = "working" BY DEF Idle
  <2> HIDE DEF j
  <2>2. job' = [job EXCEPT ![p] = j] BY <1>8 DEF Fetch, j
  <2> QED BY <1>4, <1>8, <2>1, <2>2 DEF Fetch
<1>9. ASSUME NEW p \in Workers, NEW s \in Slots, Reuse(p, s) PROVE SendsKnown'
  <2> DEFINE j == IF job[p].role = "owner" THEN [job[p] EXCEPT !.at = "working", !.slot = None] ELSE Idle
  <2>0. job[p] \in Job BY JobRow
  <2>1. j.at \in {"working", "idle"} BY <2>0 DEF Idle, Job
  <2> HIDE DEF j
  <2>2. job' = [job EXCEPT ![p] = j] BY <1>9 DEF Reuse, Resume, j
  <2> QED BY <1>4, <1>9, <2>1, <2>2 DEF Reuse
<1>10. ASSUME NEW p \in Workers, NEW st \in Ends, End(p, st) PROVE SendsKnown'
  <2> DEFINE j == [job[p] EXCEPT !.at = st]
  <2>0. job[p] \in Job BY JobRow
  <2>1. j.at = st BY <2>0 DEF Job
  <2> HIDE DEF j
  <2>2. job' = [job EXCEPT ![p] = j] BY <1>10 DEF End, TypeOK, j
  <2> QED BY <1>4, <1>10, <2>1, <2>2 DEF End, Ends
<1>11. ASSUME NEW p \in Workers, Close(p) PROVE SendsKnown'
  <2>1. Idle.at = "idle" BY DEF Idle
  <2> QED BY <1>4, <1>11, <2>1 DEF Close
<1>12. ASSUME Crash PROVE SendsKnown'
  <2>1. \A q \in Workers : ~Sends(q)' BY <1>12 DEF Crash, Sends, Idle
  <2> QED BY <1>12, <2>1, SendsSame DEF Crash
<1>13. ASSUME NEW p \in Workers, Send(p) PROVE SendsKnown'
  BY <1>1, <1>2, <1>3, <1>9, <1>13 DEF Send
<1>14. ASSUME NEW p \in Workers, Beat(p) \/ \E i \in Identities : Reclassify(p, i) PROVE SendsKnown'
  BY <1>5, <1>14 DEF Beat, Reclassify
<1>15. ASSUME NEW w \in Rows, Lapse(w) \/ Age(w) PROVE SendsKnown'
  BY <1>5, <1>15 DEF Lapse, Age
<1>16. CASE UNCHANGED vars BY <1>5, <1>16 DEF vars
<1> QED BY <1>6, <1>7, <1>8, <1>10, <1>11, <1>12, <1>13, <1>14, <1>15, <1>16 DEF Next

-----------------------------------------------------------------------------
(* The theorems.                                                           *)

IInv == Basic /\ SendsKnown

LEMMA WorkInvariant == Spec => []IInv
<1>1. Init => IInv BY InitShape DEF IInv, Basic
<1>2. IInv /\ [Next]_vars => IInv' BY StepBasic, StepSends DEF IInv
<1> QED BY <1>1, <1>2, PTL DEF Spec

\* Rows, slots and workers have their types, and a busy worker has a row.
THEOREM WorkTyped == Spec => []TypeOK
<1>1. IInv => TypeOK BY DEF IInv, Basic
<1> QED BY <1>1, WorkInvariant, PTL

\* claim(): over every order of claims, lapses, late updates, forced attempts
\* and crashes, an identity has two running rows only by reclassify().
THEOREM ClaimsKeepOneRow == Spec => []OneRunningRow
<1>1. IInv => OneRunningRow
  <2> SUFFICES ASSUME OlderIdle, NEW v \in Used \ moved, NEW w \in Used \ moved, v # w,
                      work[v].identity = work[w].identity,
                      "running" \in {work[v].status} \cap {work[w].status}
               PROVE  FALSE
    BY DEF IInv, Basic, OneRunningRow
  <2>1. v \in Nat /\ w \in Nat BY DEF Used, Rows
  <2>2. CASE v < w BY <2>2 DEF OlderIdle
  <2>3. CASE w < v BY <2>3 DEF OlderIdle
  <2> QED BY <2>1, <2>2, <2>3
<1> QED BY <1>1, WorkInvariant, PTL

\* The step of UncertainHolds for one identity.
Holds(i) == Unresolved(Newest(i)) /\ (\A w \in Used : work'[w].identity = work[w].identity)
              => /\ Newest(i)' = Newest(i)
                 /\ work'[Newest(i)].status = "running" => work[Newest(i)].status = "running"

LEMMA SameNewest ==
  ASSUME NEW i \in Identities, \A w \in Rows : work'[w].identity = i <=> work[w].identity = i
  PROVE  Newest(i)' = Newest(i)
<1>1. Of(i)' = Of(i) BY DEF Of
<1> QED BY <1>1 DEF Newest

LEMMA ClaimHolds ==
  ASSUME Basic, NEW i \in Identities, NEW k \in Identities, NEW force \in BOOLEAN, Admit(k, force),
         Unresolved(Newest(i))
  PROVE  /\ Newest(i)' = Newest(i)
         /\ work'[Newest(i)].status = "running" => work[Newest(i)].status = "running"
<1> DEFINE T == Target(k, force) N == Newest(i) M == Newest(k) A == Acquires(k, force)
<1>1. N # 0 /\ N \in Rows /\ work[N].identity = i BY NewestFacts DEF Unresolved
<1>2. T \in Rows BY DEF Admit
<1>3. /\ A => T = M \/ T \notin Used
      /\ ~A => T = M /\ M \in Used
      /\ M # 0 => M \in Rows /\ work[M].identity = k
  BY <1>2, TargetFacts, NewestFacts DEF Basic
<1>4. /\ Shape'
      /\ \A w \in Used : w \in Used' /\ work'[w].identity = work[w].identity
      /\ \A w \in Used' \ Used : A /\ w = T /\ work'[w].identity = k
      /\ \A w \in Rows : ~(A /\ w = T) => /\ work'[w].identity = work[w].identity
                                         /\ work'[w].status = IF w = M THEN Found(k) ELSE work[w].status
  BY AdmitFacts DEF Basic
<1>5. /\ i # None /\ k # None
      /\ \A w \in Rows : w \in Used <=> work[w].identity # None
      /\ \A w \in Rows : w \in Used' <=> work'[w].identity # None
  BY <1>4 DEF Identities, Basic, Shape, Used
<1>6. i = k => ~A BY DEF Acquires
<1>7. Found(k) = "running" => work[M].status = "running" \/ M = 0 BY FoundFacts DEF Basic
<1> HIDE DEF T, N, M, A
<1>8. \A w \in Rows : work'[w].identity = i <=> work[w].identity = i
  <2> SUFFICES ASSUME NEW w \in Rows PROVE work'[w].identity = i <=> work[w].identity = i OBVIOUS
  <2>1. CASE w \in Used BY <1>4, <2>1
  <2>2. CASE w \notin Used /\ w \notin Used' BY <1>5, <2>2
  <2>3. CASE w \in Used' \ Used BY <1>4, <1>5, <1>6, <2>3
  <2> QED BY <2>1, <2>2, <2>3
<1>9. N' = N BY <1>8, SameNewest DEF N
<1>10. ~(A /\ N = T)
  <2>1. CASE A /\ N = T /\ T = M BY <1>1, <1>3, <1>6, <2>1
  <2>2. CASE A /\ N = T /\ T \notin Used BY <1>1, <1>5, <2>2
  <2> QED BY <1>3, <2>1, <2>2
<1>11. work'[N].status = "running" => work[N].status = "running" BY <1>1, <1>4, <1>7, <1>10
<1> QED BY <1>9, <1>11 DEF N

\* claim() and deliver(): work with an unresolved send is not started again,
\* whoever claims it and however it is forced.
THEOREM UncertainSendHolds == Spec => UncertainHolds
<1>1. IInv /\ [Next]_vars => \A i \in Identities : Holds(i)
  <2> SUFFICES ASSUME Basic, [Next]_vars, NEW i \in Identities, Unresolved(Newest(i)),
                      \A w \in Used : work'[w].identity = work[w].identity
               PROVE  /\ Newest(i)' = Newest(i)
                      /\ work'[Newest(i)].status = "running" => work[Newest(i)].status = "running"
    BY DEF IInv, Holds
  <2>1. Kind BY StepKind
  <2>2. Newest(i) \in Rows BY NewestFacts DEF Unresolved
  <2>3. CASE TableKept
    <3>1. Newest(i)' = Newest(i) BY <2>3, SameNewest DEF TableKept
    <3> QED BY <2>2, <2>3, <3>1 DEF TableKept
  <2>4. ASSUME NEW k \in Identities, NEW force \in BOOLEAN, Admit(k, force)
        PROVE  /\ Newest(i)' = Newest(i)
               /\ work'[Newest(i)].status = "running" => work[Newest(i)].status = "running"
    BY <2>4, ClaimHolds
  <2>5. ASSUME NEW p \in Workers, NEW k \in Identities, Reclassify(p, k) PROVE FALSE
    <3>1. job[p].row \in Used /\ job[p].row \in Rows BY <2>5, JobRow DEF Reclassify, Basic
    <3>2. work' = [work EXCEPT ![job[p].row].identity = k] /\ k # work[job[p].row].identity
      BY <2>5 DEF Reclassify
    <3>3. work[job[p].row] \in Entry /\ work \in [Rows -> Entry] BY <3>1 DEF Basic, TypeOK
    <3>4. work'[job[p].row].identity = k BY <3>1, <3>2, <3>3 DEF Entry
    <3> QED BY <3>1, <3>2, <3>4
  <2> QED BY <2>1, <2>3, <2>4, <2>5 DEF Kind
<1>2. IInv /\ [Next]_vars =>
        [\A i \in Identities : Holds(i)]_vars
  BY <1>1
<1>3. (\A i \in Identities : Holds(i)) =>
        \A i \in Identities :
           Unresolved(Newest(i)) /\ (\A w \in Used : work'[w].identity = work[w].identity)
             => /\ Newest(i)' = Newest(i)
                /\ work'[Newest(i)].status = "running" => work[Newest(i)].status = "running"
  BY DEF Holds
<1> QED BY <1>2, <1>3, WorkInvariant, PTL DEF Spec, UncertainHolds

-----------------------------------------------------------------------------
(* The deliveries of this table implement SendOnce.                        *)

Effects == Rows \X Slots
Told == [e \in Effects |-> delivery[e[1]][e[2]]]
Sent == [e \in Effects |-> calls[e[1]][e[2]]]

\* A step that writes one slot writes one effect.
LEMMA EffectWrites ==
  ASSUME NEW p \in Workers, NEW r, NEW s, NEW o, NEW n, SlotWrites(p, r, s, o, n)
  PROVE  /\ <<r, s>> \in Effects
         /\ Told' = [Told EXCEPT ![<<r, s>>] = o]
         /\ Sent' = [Sent EXCEPT ![<<r, s>>] = n]
         /\ Told[<<r, s>>] = delivery[r][s] /\ Sent[<<r, s>>] = calls[r][s]
<1>1. <<r, s>> \in Effects BY DEF SlotWrites, Effects
<1>2. \A e \in Effects : e[1] \in Rows /\ e[2] \in Slots /\ (e = <<r, s>> <=> e[1] = r /\ e[2] = s)
  BY DEF Effects
<1>3. \A e \in Effects : Told'[e] = IF e = <<r, s>> THEN o ELSE Told[e]
  BY <1>2 DEF Told, SlotWrites
<1>4. \A e \in Effects : Sent'[e] = IF e = <<r, s>> THEN n ELSE Sent[e]
  BY <1>2 DEF Sent, SlotWrites
<1> QED BY <1>1, <1>3, <1>4 DEF Told, Sent

LEMMA EffectsSame == ASSUME delivery' = delivery, calls' = calls PROVE Told' = Told /\ Sent' = Sent
  BY DEF Told, Sent

\* The steps of SendOnce, in terms of the slots.
LEMMA OutboxSteps ==
  ASSUME NEW e \in Effects,
         \/ Told[e] = "none" /\ Told' = [Told EXCEPT ![e] = "sending"] /\ Sent' = Sent
         \/ Told[e] = "sending" /\ Sent[e] = 0 /\ Sent' = [Sent EXCEPT ![e] = 1] /\ Told' = Told
         \/ Told[e] = "sending" /\ Sent[e] = 1 /\ Told' = [Told EXCEPT ![e] = "sent"] /\ Sent' = Sent
         \/ Told[e] = "sending" /\ Told' = [Told EXCEPT ![e] = "uncertain"] /\ Sent' = Sent
  PROVE  Outbox!Next
<1>1. CASE Told[e] = "none" /\ Told' = [Told EXCEPT ![e] = "sending"] /\ Sent' = Sent
  <2>1. Outbox!Reserve(e) BY <1>1 DEF Outbox!Reserve, Told, Sent, Effects
  <2> QED BY <2>1 DEF Outbox!Next, Effects
<1>2. CASE Told[e] = "sending" /\ Sent[e] = 0 /\ Sent' = [Sent EXCEPT ![e] = 1] /\ Told' = Told
  <2>1. Outbox!Call(e) BY <1>2 DEF Outbox!Call, Told, Sent, Effects
  <2> QED BY <2>1 DEF Outbox!Next, Effects
<1>3. CASE Told[e] = "sending" /\ Sent[e] = 1 /\ Told' = [Told EXCEPT ![e] = "sent"] /\ Sent' = Sent
  <2>1. Outbox!Confirm(e) BY <1>3 DEF Outbox!Confirm, Told, Sent, Effects
  <2> QED BY <2>1 DEF Outbox!Next, Effects
<1>4. CASE Told[e] = "sending" /\ Told' = [Told EXCEPT ![e] = "uncertain"] /\ Sent' = Sent
  <2>1. Outbox!Doubt({e}) BY <1>4 DEF Outbox!Doubt, Told, Sent, Effects
  <2>2. {e} \in SUBSET (Rows \X Slots) BY DEF Effects
  <2> QED BY <2>1, <2>2 DEF Outbox!Next
<1> QED BY <1>1, <1>2, <1>3, <1>4

\* The docstring of deliver(), "never retry a send whose outcome is unknown":
\* reservations, calls and results of the slots are steps of SendOnce.
THEOREM DeliveriesImplementOutbox == Spec => OutboxSpec
<1>1. Init => Outbox!Init
  <2> SUFFICES ASSUME Init PROVE Outbox!Init OBVIOUS
  <2>1. \A e \in Rows \X Slots : delivery[e[1]][e[2]] = "none" /\ calls[e[1]][e[2]] = 0 BY DEF Init
  <2> QED BY <2>1 DEF Outbox!Init
<1>2. IInv /\ [Next]_vars => [Outbox!Next]_<<Told, Sent>>
  <2> SUFFICES ASSUME IInv, [Next]_vars PROVE Outbox!Next \/ (Told' = Told /\ Sent' = Sent)
    OBVIOUS
  <2> USE DEF IInv, Basic
  <2>1. ASSUME NEW p \in Workers, NEW s \in Slots, Reserve(p, s) PROVE Outbox!Next
    <3> DEFINE e == <<job[p].row, s>>
    <3>1. /\ SlotWrites(p, job[p].row, s, "sending", 0)
          /\ delivery[job[p].row][s] = "none" /\ calls[job[p].row][s] = 0
      BY <2>1, ReserveWrites
    <3>2. /\ e \in Effects /\ Told' = [Told EXCEPT ![e] = "sending"] /\ Told[e] = "none"
          /\ Sent' = [Sent EXCEPT ![e] = 0] /\ Sent[e] = 0
      BY <3>1, EffectWrites
    <3>3. Sent' = Sent BY <3>2 DEF Sent
    <3> QED BY <3>2, <3>3, OutboxSteps
  <2>2. ASSUME NEW p \in Workers, Call(p) PROVE Outbox!Next
    <3> DEFINE e == <<job[p].row, job[p].slot>>
    <3>1. /\ SlotWrites(p, job[p].row, job[p].slot, "sending", 1)
          /\ delivery[job[p].row][job[p].slot] = "sending" /\ calls[job[p].row][job[p].slot] = 0
      BY <2>2, CallWrites
    <3>2. /\ e \in Effects /\ Told' = [Told EXCEPT ![e] = "sending"] /\ Told[e] = "sending"
          /\ Sent' = [Sent EXCEPT ![e] = 1] /\ Sent[e] = 0
      BY <3>1, EffectWrites
    <3>3. Told' = Told BY <3>2 DEF Told
    <3> QED BY <3>2, <3>3, OutboxSteps
  <2>3. ASSUME NEW p \in Workers, NEW st \in {"sent", "uncertain"},
               (Raise(p) /\ st = "uncertain") \/ Settle(p, st)
        PROVE  Outbox!Next
    <3> DEFINE e == <<job[p].row, job[p].slot>>
    <3>1. /\ SlotWrites(p, job[p].row, job[p].slot, st, calls[job[p].row][job[p].slot])
          /\ delivery[job[p].row][job[p].slot] = "sending"
          /\ st = "sent" => calls[job[p].row][job[p].slot] = 1
      BY <2>3, DoneWrites
    <3>2. /\ e \in Effects /\ Told' = [Told EXCEPT ![e] = st] /\ Told[e] = "sending"
          /\ Sent' = [Sent EXCEPT ![e] = Sent[e]] /\ (st = "sent" => Sent[e] = 1)
      BY <3>1, EffectWrites
    <3>3. Sent' = Sent BY <3>2 DEF Sent
    <3> QED BY <3>2, <3>3, OutboxSteps
  <2>4. ASSUME UNCHANGED <<delivery, calls>> PROVE Told' = Told /\ Sent' = Sent BY <2>4, EffectsSame
  <2>5. ASSUME NEW p \in Workers, Send(p) PROVE Outbox!Next \/ (Told' = Told /\ Sent' = Sent)
    BY <2>1, <2>2, <2>3, <2>4, <2>5 DEF Send, Reuse
  <2>6. ASSUME NEW p \in Workers,
               \/ \E i \in Identities, force \in BOOLEAN : Claim(p, i, force)
               \/ \E i \in Identities : Observe(p, i) \/ Reclassify(p, i)
               \/ \E w \in Rows : Fetch(p, w)
               \/ Beat(p) \/ Close(p) \/ \E st \in Ends : End(p, st)
        PROVE  Told' = Told /\ Sent' = Sent
    BY <2>4, <2>6 DEF Claim, Observe, Reclassify, Fetch, Beat, Close, End
  <2>7. ASSUME (\E w \in Rows : Lapse(w) \/ Age(w)) \/ Crash \/ UNCHANGED vars
        PROVE  Told' = Told /\ Sent' = Sent
    BY <2>4, <2>7 DEF Lapse, Age, Crash, vars
  <2> QED BY <2>5, <2>6, <2>7 DEF Next
<1>3. <<Told, Sent>> = <<[e \in Rows \X Slots |-> delivery[e[1]][e[2]]],
                         [e \in Rows \X Slots |-> calls[e[1]][e[2]]]>>
  BY DEF Told, Sent, Effects
<1>4. IInv /\ [Next]_vars => [Outbox!Next]_<<[e \in Rows \X Slots |-> delivery[e[1]][e[2]]],
                                             [e \in Rows \X Slots |-> calls[e[1]][e[2]]]>>
  BY <1>2 DEF Told, Sent, Effects
<1> QED BY <1>1, <1>4, WorkInvariant, PTL DEF Spec, OutboxSpec, Outbox!Spec

\* The transport is never called twice for a slot of a row.
THEOREM DeliveriesSendOnce == Spec => []Outbox!AtMostOnce
<1>1. Outbox!Spec => []Outbox!AtMostOnce BY Outbox!SendsOnce
<1> QED BY <1>1, DeliveriesImplementOutbox, PTL DEF OutboxSpec
===============================================================================
