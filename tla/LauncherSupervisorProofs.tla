----------------------- MODULE LauncherSupervisorProofs -----------------------
(***************************************************************************)
(* Theorems about LauncherSupervisor, for every set of services, every     *)
(* number of generations and every crash limit.                            *)
(*                                                                         *)
(* The safety invariants lean on each other and on four facts about the    *)
(* generations: what waits was started under an earlier or the present     *)
(* one, what shutdown() swept came after its flag, a service the user      *)
(* stopped has nothing left that could start it, and a restart that is     *)
(* still valid waits for a service without a process.                      *)
(***************************************************************************)
EXTENDS LauncherSupervisor, TLAPS

USE LauncherAssumption

\* Timers were armed under the present generation or an earlier one.
Earlier == \A t \in timers : t.generation <= runtime[t.service].generation

\* Only shutdown() sweeps.
SweptDown == swept # {} => down

\* A stop leaves nothing that could start the service again.
Held == \A s \in unwanted \ overtaken :
    /\ runtime[s].expected_stop
    /\ \A t \in timers : t.service = s => ~t.checked /\ t.generation # runtime[s].generation

\* A restart that is still valid waits for a service without a process, that
\* did not crash too often.
Valid == \A t \in timers : t.generation = runtime[t.service].generation
    => runtime[t.service].process = 0 /\ runtime[t.service].crashes <= CrashLimit

-----------------------------------------------------------------------------
(* What a process is.                                                      *)

LEMMA ProcessFacts ==
  ASSUME NEW p \in Processes
  PROVE  /\ p = <<p[1], p[2]>> /\ p[1] \in Services
         /\ p[2] \in Nat /\ p[2] # 0 /\ p[2] <= MaxGen[p[1]]
<1>1. PICK s \in Services : p \in {s} \X (1..MaxGen[s]) BY DEF Processes
<1> QED BY <1>1

LEMMA NewProcess ==
  ASSUME NEW s \in Services, NEW g \in Nat, g # 0, g <= MaxGen[s]
  PROVE  <<s, g>> \in Processes
<1>1. <<s, g>> \in {s} \X (1..MaxGen[s]) OBVIOUS
<1> QED BY <1>1 DEF Processes

\* A service without a process is not up.
LEMMA UpProcess ==
  ASSUME TypeOK, NEW s \in Services, Up(s)
  PROVE  runtime[s].process # 0
<1>1. Process(s) \in Processes BY DEF TypeOK, Up
<1> QED BY <1>1, ProcessFacts DEF Process

\* Whatever runs and did not outlive its kill makes its service up.
LEMMA RunsUp ==
  ASSUME OneProcess, NEW p \in alive \ survived
  PROVE  Up(p[1]) /\ Process(p[1]) = p
  BY DEF OneProcess, Up

\* What start_service() may do.
Created(s, automatic, created) == LET g == runtime[s].generation + 1 IN
    /\ runtime' = [runtime EXCEPT
         ![s] = [process |-> IF created THEN g ELSE runtime[s].process, generation |-> g, expected_stop |-> FALSE,
                 crashes |-> IF automatic THEN runtime[s].crashes ELSE 0,
                 status |-> IF created THEN "starting" ELSE "error"]]
    /\ alive' = IF created THEN alive \cup {<<s, g>>} ELSE alive
    /\ watched' = IF created THEN watched \cup {<<s, g>>} ELSE watched

LEMMA StartCases ==
  ASSUME TypeOK, NEW s \in Services, NEW automatic \in BOOLEAN, Start(s, automatic)
  PROVE  /\ pending' \in BOOLEAN /\ blocked' \in BOOLEAN
         /\ \/ UNCHANGED <<runtime, alive, watched>>
            \/ /\ runtime' = [runtime EXCEPT ![s].status = "error"]
               /\ UNCHANGED <<alive, watched>>
            \/ /\ ~down /\ ~Up(s) /\ runtime[s].generation < MaxGen[s]
               /\ \E created \in BOOLEAN : Created(s, automatic, created)
<1>1. CASE ~MayStart(s) /\ UNCHANGED <<runtime, alive, watched, pending, blocked>>
  BY <1>1 DEF TypeOK
<1>2. CASE /\ MayStart(s) /\ Restore(s, FALSE)
           /\ runtime' = [runtime EXCEPT ![s].status = "error"]
           /\ UNCHANGED <<alive, watched>>
  <2>1. pending' \in BOOLEAN /\ blocked' \in BOOLEAN BY <1>2 DEF Restore, TypeOK
  <2> QED BY <1>2, <2>1
<1>3. CASE ~(~MayStart(s) /\ UNCHANGED <<runtime, alive, watched, pending, blocked>>)
           /\ ~(/\ MayStart(s) /\ Restore(s, FALSE)
                /\ runtime' = [runtime EXCEPT ![s].status = "error"]
                /\ UNCHANGED <<alive, watched>>)
  <2>1. MayStart(s) /\ Restore(s, TRUE) /\ runtime[s].generation < MaxGen[s]
    BY <1>3 DEF Start
  <2>2. pending' \in BOOLEAN /\ blocked' \in BOOLEAN BY <2>1 DEF Restore, TypeOK
  <2>3. \E created \in BOOLEAN : LET g == runtime[s].generation + 1 IN
            /\ runtime' = [runtime EXCEPT
                 ![s] = [process |-> IF created THEN g ELSE @.process, generation |-> g, expected_stop |-> FALSE,
                         crashes |-> IF automatic THEN @.crashes ELSE 0,
                         status |-> IF created THEN "starting" ELSE "error"]]
            /\ alive' = alive \cup {p \in {<<s, g>>} : created}
            /\ watched' = watched \cup {p \in {<<s, g>>} : created}
    BY <1>3, Zenon DEF Start
  <2>4. \E created \in BOOLEAN : Created(s, automatic, created) BY <2>3 DEF Created
  <2> QED BY <2>1, <2>2, <2>4 DEF MayStart
<1> QED BY <1>1, <1>2, <1>3

\* At most one process comes, and it is of the service that starts.
LEMMA StartAlive ==
  ASSUME TypeOK, NEW s \in Services, NEW automatic \in BOOLEAN, Start(s, automatic), NEW p \in alive'
  PROVE  p \in alive \/ p[1] = s
<1>1. CASE alive' = alive BY <1>1
<1>2. CASE \E created \in BOOLEAN : Created(s, automatic, created)
  <2>1. PICK created \in BOOLEAN : Created(s, automatic, created) BY <1>2
  <2>2. alive' \subseteq alive \cup {<<s, runtime[s].generation + 1>>} BY <2>1 DEF Created
  <2>3. p \in alive \/ p = <<s, runtime[s].generation + 1>> BY <2>2
  <2> QED BY <2>3
<1> QED BY <1>1, <1>2, StartCases

-----------------------------------------------------------------------------
(* Type correctness.                                                       *)

Runtimes == [process : Nat, generation : Nat, crashes : Nat,
             expected_stop : BOOLEAN, status : Shown \cup {"stopped", "error"}]

LEMMA StartType ==
  ASSUME TypeOK, NEW s \in Services, NEW automatic \in BOOLEAN, Start(s, automatic)
  PROVE  /\ runtime' \in [Services -> Runtimes]
         /\ \A x \in Services : runtime'[x].process <= runtime'[x].generation
         /\ alive' \subseteq Processes /\ watched' \subseteq Processes
         /\ pending' \in BOOLEAN /\ blocked' \in BOOLEAN
<1>1. pending' \in BOOLEAN /\ blocked' \in BOOLEAN BY StartCases
<1>2. CASE UNCHANGED <<runtime, alive, watched>> BY <1>1, <1>2 DEF TypeOK, Runtimes
<1>3. CASE runtime' = [runtime EXCEPT ![s].status = "error"] /\ UNCHANGED <<alive, watched>>
  BY <1>1, <1>3 DEF TypeOK, Runtimes
<1>4. CASE /\ runtime[s].generation < MaxGen[s]
           /\ \E created \in BOOLEAN : Created(s, automatic, created)
  <2>1. PICK created \in BOOLEAN : Created(s, automatic, created) BY <1>4
  <2> DEFINE g == runtime[s].generation + 1
  <2>2. g \in Nat /\ g # 0 /\ g <= MaxGen[s] BY <1>4 DEF TypeOK
  <2>3. <<s, g>> \in Processes BY <2>2, NewProcess
  <2> DEFINE r == [process |-> IF created THEN g ELSE runtime[s].process, generation |-> g, expected_stop |-> FALSE,
                   crashes |-> IF automatic THEN runtime[s].crashes ELSE 0,
                   status |-> IF created THEN "starting" ELSE "error"]
  <2>4. runtime' = [runtime EXCEPT ![s] = r] BY <2>1 DEF Created
  <2>5. r \in Runtimes /\ r.process <= r.generation
    BY <2>2 DEF TypeOK, Runtimes, Shown
  <2>6. alive' \subseteq Processes /\ watched' \subseteq Processes BY <2>1, <2>3 DEF Created, TypeOK
  <2> HIDE DEF r, g
  <2> QED BY <1>1, <2>4, <2>5, <2>6 DEF TypeOK, Runtimes
<1> QED BY <1>2, <1>3, <1>4, StartCases

LEMMA InitType == Init => TypeOK
<1> SUFFICES ASSUME Init PROVE TypeOK OBVIOUS
<1>1. runtime \in [Services -> Runtimes] /\ \A s \in Services : runtime[s].process <= runtime[s].generation
  BY DEF Init, Runtimes
<1>2. {pending, blocked, down} \subseteq BOOLEAN BY DEF Init
<1> QED BY <1>1, <1>2 DEF Init, TypeOK, Runtimes

LEMMA StepType ==
  ASSUME TypeOK, [Next]_vars
  PROVE  TypeOK'
<1>1. ASSUME NEW s \in Services, UserStart(s) PROVE TypeOK'
  BY <1>1, StartType DEF UserStart, TypeOK, Runtimes
<1>2. ASSUME NEW s \in Services, Stop(s) PROVE TypeOK'
  <2>1. stopping' \subseteq Processes BY <1>2 DEF Stop, TypeOK, Up
  <2> QED BY <1>2, <2>1 DEF Stop, TypeOK
<1>3. ASSUME NEW s \in Services, Probe(s) PROVE TypeOK'
  BY <1>3 DEF Probe, TypeOK, Histories
<1>4. ASSUME NEW s \in Services, Forget(s) PROVE TypeOK'
  BY <1>4 DEF Forget, TypeOK, Histories
<1>5. ASSUME NEW s \in Services, NEW st \in {"running", "degraded", "same"}, Report(s, st) PROVE TypeOK'
  BY <1>5 DEF Report, TypeOK, Histories, Shown
<1>6. ASSUME NEW p \in Processes, Exit(p) PROVE TypeOK'
  BY <1>6 DEF Exit, TypeOK, Histories
<1>7. ASSUME NEW p \in Processes, Watch(p) PROVE TypeOK'
  <2>1. p[1] \in Services /\ p[2] \in Nat BY ProcessFacts
  <2>2. Process(p[1]) = p => p[2] = runtime[p[1]].process BY ProcessFacts DEF Process
  <2>3. runtime' \in [Services -> Runtimes] /\ \A s \in Services : runtime'[s].process <= runtime'[s].generation
    <3>1. CASE runtime' = runtime BY <3>1 DEF TypeOK, Runtimes
    <3>2. CASE runtime' = [runtime EXCEPT ![p[1]].process = 0, ![p[1]].status = "stopped"]
      BY <2>1, <3>2 DEF TypeOK, Runtimes
    <3>3. CASE runtime' = [runtime EXCEPT ![p[1]].process = 0, ![p[1]].status = "error",
                                          ![p[1]].crashes = runtime[p[1]].crashes + 1]
      BY <2>1, <3>3 DEF TypeOK, Runtimes
    <3> QED BY <1>7, <3>1, <3>2, <3>3 DEF Watch
  <2>4. timers' \subseteq [service : Services, generation : Nat, checked : BOOLEAN]
    BY <1>7, <2>1 DEF Watch, TypeOK
  <2> QED BY <1>7, <2>3, <2>4 DEF Watch, TypeOK, Histories, Runtimes
<1>8. ASSUME NEW p \in Processes, StopEnd(p) PROVE TypeOK'
  BY <1>8, ProcessFacts DEF StopEnd, TypeOK
<1>9. ASSUME NEW t \in timers, Check(t) PROVE TypeOK'
  <2>1. t \in [service : Services, generation : Nat, checked : BOOLEAN] BY DEF TypeOK
  <2> QED BY <1>9, <2>1 DEF Check, TypeOK, Histories
<1>10. ASSUME NEW t \in timers, Restart(t) PROVE TypeOK'
  <2>1. t.service \in Services BY DEF TypeOK
  <2> QED BY <1>10, <2>1, StartType DEF Restart, TypeOK, Runtimes, Histories
<1>11. CASE Plan BY <1>11 DEF Plan, TypeOK, Histories
<1>12. CASE Shutdown BY <1>12 DEF Shutdown, TypeOK
<1>13. CASE UNCHANGED vars BY <1>13 DEF vars, TypeOK
<1> QED BY <1>1, <1>2, <1>3, <1>4, <1>5, <1>6, <1>7, <1>8, <1>9, <1>10, <1>11, <1>12, <1>13 DEF Next

\* Type correctness of the supervisor (ServiceRuntime and the sets around it).
THEOREM LauncherTyped == Spec => []TypeOK
<1>1. TypeOK /\ [Next]_vars => TypeOK' BY StepType
<1> QED BY <1>1, InitType, PTL DEF Spec
-----------------------------------------------------------------------------
(* One process for a service, and the status that is shown.                *)

LEMMA StartOne ==
  ASSUME TypeOK, OneProcess, NEW s \in Services, NEW automatic \in BOOLEAN, Start(s, automatic),
         survived' = survived
  PROVE  OneProcess'
<1>1. CASE UNCHANGED <<runtime, alive, watched>> BY <1>1 DEF OneProcess, Process
<1>2. CASE runtime' = [runtime EXCEPT ![s].status = "error"] /\ UNCHANGED <<alive, watched>>
  <2>1. \A x \in Services : runtime'[x].process = runtime[x].process BY <1>2 DEF TypeOK
  <2> QED BY <1>2, <2>1, ProcessFacts DEF OneProcess, Process, TypeOK
<1>3. CASE ~Up(s) /\ \E created \in BOOLEAN : Created(s, automatic, created)
  <2>1. PICK created \in BOOLEAN : Created(s, automatic, created) BY <1>3
  <2> SUFFICES ASSUME NEW p \in alive' \ survived' PROVE (Process(p[1]) = p)'
    BY DEF OneProcess
  <2>2. CASE p \in alive
    <3>1. Process(p[1]) = p /\ p[1] # s /\ p[1] \in Services
      BY <2>2, <1>3, RunsUp, ProcessFacts DEF TypeOK
    <3> QED BY <2>1, <3>1 DEF Process, Created, TypeOK
  <2>3. CASE p \notin alive
    <3>1. created /\ p = <<s, runtime[s].generation + 1>> BY <2>1, <2>3 DEF Created
    <3> QED BY <2>1, <3>1 DEF Process, Created, TypeOK
  <2> QED BY <2>2, <2>3
<1> QED BY <1>1, <1>2, <1>3, StartCases

\* A step that lets go of no process, and lets none in.
LEMMA OneKept ==
  ASSUME TypeOK, OneProcess, alive' \subseteq alive, survived \subseteq survived',
         \A p \in alive' \ survived' : runtime'[p[1]].process = runtime[p[1]].process
  PROVE  OneProcess'
  BY DEF OneProcess, Process

LEMMA StepOne ==
  ASSUME TypeOK, OneProcess, [Next]_vars
  PROVE  OneProcess'
<1>1. ASSUME NEW s \in Services, UserStart(s) PROVE OneProcess'
  BY <1>1, StartOne DEF UserStart
<1>2. ASSUME NEW s \in Services, Stop(s) PROVE OneProcess'
  <2>1. ASSUME NEW p \in alive \ survived PROVE runtime'[p[1]].process = runtime[p[1]].process
    <3>1. p[1] \in Services /\ Up(p[1]) BY RunsUp, ProcessFacts DEF TypeOK
    <3> QED BY <1>2, <3>1 DEF Stop, TypeOK
  <2> QED BY <1>2, <2>1, OneKept DEF Stop
<1>3. ASSUME NEW s \in Services, Probe(s) PROVE OneProcess'
  BY <1>3, OneKept DEF Probe, Histories
<1>4. ASSUME NEW s \in Services, Forget(s) PROVE OneProcess'
  <2>1. \A p \in alive : runtime'[p[1]].process = runtime[p[1]].process
    BY <1>4, ProcessFacts DEF Forget, TypeOK
  <2> QED BY <1>4, <2>1, OneKept DEF Forget, Histories
<1>5. ASSUME NEW s \in Services, NEW st \in {"running", "degraded", "same"}, Report(s, st) PROVE OneProcess'
  <2>1. \A p \in alive : runtime'[p[1]].process = runtime[p[1]].process
    BY <1>5, ProcessFacts DEF Report, TypeOK
  <2> QED BY <1>5, <2>1, OneKept DEF Report, Histories
<1>6. ASSUME NEW p \in Processes, Exit(p) PROVE OneProcess'
  BY <1>6, OneKept DEF Exit, Histories
<1>7. ASSUME NEW p \in Processes, Watch(p) PROVE OneProcess'
  <2>1. ASSUME NEW q \in alive \ survived PROVE runtime'[q[1]].process = runtime[q[1]].process
    <3>1. q[1] \in Services /\ Process(q[1]) = q /\ q # p
      BY <1>7, RunsUp, ProcessFacts DEF TypeOK, Watch
    <3>2. q[1] # p[1] \/ Process(p[1]) # p BY <3>1
    <3>3. p[1] \in Services BY ProcessFacts
    <3> QED BY <1>7, <3>1, <3>2, <3>3 DEF Watch, TypeOK
  <2> QED BY <1>7, <2>1, OneKept DEF Watch, Histories
<1>8. ASSUME NEW p \in Processes, StopEnd(p) PROVE OneProcess'
  <2>1. ASSUME NEW q \in alive \ survived' PROVE runtime'[q[1]].process = runtime[q[1]].process
    <3>1. q \in alive \ survived /\ q # p BY <1>8 DEF StopEnd
    <3>2. q[1] \in Services /\ Process(q[1]) = q BY <3>1, RunsUp, ProcessFacts DEF TypeOK
    <3>3. p[1] \in Services BY ProcessFacts
    <3> QED BY <1>8, <3>1, <3>2, <3>3 DEF StopEnd, TypeOK
  <2> QED BY <1>8, <2>1, OneKept DEF StopEnd
<1>9. ASSUME NEW t \in timers, Check(t) PROVE OneProcess'
  BY <1>9, OneKept DEF Check, Histories
<1>10. ASSUME NEW t \in timers, Restart(t) PROVE OneProcess'
  <2>1. t.service \in Services BY DEF TypeOK
  <2> QED BY <1>10, <2>1, StartOne DEF Restart, Histories
<1>11. CASE Plan BY <1>11, OneKept DEF Plan, Histories
<1>12. CASE Shutdown BY <1>12, OneKept DEF Shutdown
<1>13. CASE UNCHANGED vars BY <1>13, OneKept DEF vars
<1> QED BY <1>1, <1>2, <1>3, <1>4, <1>5, <1>6, <1>7, <1>8, <1>9, <1>10, <1>11, <1>12, <1>13 DEF Next

LEMMA StartShown ==
  ASSUME TypeOK, ShownIsReal, NEW s \in Services, NEW automatic \in BOOLEAN, Start(s, automatic)
  PROVE  ShownIsReal'
<1>1. CASE UNCHANGED <<runtime, alive, watched>> BY <1>1 DEF ShownIsReal
<1>2. CASE runtime' = [runtime EXCEPT ![s].status = "error"] BY <1>2 DEF TypeOK, ShownIsReal, Shown
<1>3. CASE \E created \in BOOLEAN : Created(s, automatic, created)
  BY <1>3 DEF TypeOK, ShownIsReal, Shown, Created
<1> QED BY <1>1, <1>2, <1>3, StartCases

LEMMA StepShown ==
  ASSUME TypeOK, ShownIsReal, [Next]_vars
  PROVE  ShownIsReal'
<1>1. ASSUME NEW s \in Services, UserStart(s) PROVE ShownIsReal'
  BY <1>1, StartShown DEF UserStart
<1>2. ASSUME NEW s \in Services, Stop(s) PROVE ShownIsReal'
  BY <1>2, UpProcess DEF Stop, ShownIsReal, TypeOK, Shown
<1>3. ASSUME NEW s \in Services, Forget(s) PROVE ShownIsReal'
  BY <1>3 DEF Forget, ShownIsReal, TypeOK
<1>4. ASSUME NEW s \in Services, NEW st \in {"running", "degraded", "same"}, Report(s, st) PROVE ShownIsReal'
  BY <1>4 DEF Report, ShownIsReal, TypeOK, Shown
<1>5. ASSUME NEW p \in Processes, Watch(p) PROVE ShownIsReal'
  BY <1>5, ProcessFacts DEF Watch, ShownIsReal, TypeOK, Shown
<1>6. ASSUME NEW p \in Processes, StopEnd(p) PROVE ShownIsReal'
  BY <1>6, ProcessFacts DEF StopEnd, ShownIsReal, TypeOK, Shown
<1>7. ASSUME NEW t \in timers, Restart(t) PROVE ShownIsReal'
  <2>1. t.service \in Services BY DEF TypeOK
  <2> QED BY <1>7, <2>1, StartShown DEF Restart
<1>8. CASE UNCHANGED runtime BY <1>8 DEF ShownIsReal
<1> QED BY <1>1, <1>2, <1>3, <1>4, <1>5, <1>6, <1>7, <1>8 DEF Next, vars, Probe, Exit, Check, Plan, Shutdown
-----------------------------------------------------------------------------
(* The shutdown.                                                           *)

\* A step that starts nothing and neither sweeps nor leaves a stop.
LEMMA FinalKept ==
  ASSUME ShutdownFinal, SweptDown, alive' \subseteq alive, survived \subseteq survived',
         stopping \subseteq stopping', swept' = swept, down => down'
  PROVE  ShutdownFinal' /\ SweptDown'
  BY DEF ShutdownFinal, SweptDown

LEMMA StartFinal ==
  ASSUME TypeOK, ShutdownFinal, SweptDown, NEW s \in Services, NEW automatic \in BOOLEAN, Start(s, automatic),
         UNCHANGED <<survived, stopping, swept, down>>
  PROVE  ShutdownFinal' /\ SweptDown'
<1>1. CASE alive' = alive BY <1>1, FinalKept
<1>2. CASE ~down BY <1>2 DEF ShutdownFinal, SweptDown
<1> QED BY <1>1, <1>2, StartCases

LEMMA StepFinal ==
  ASSUME TypeOK, OneProcess, ShutdownFinal, SweptDown, [Next]_vars
  PROVE  ShutdownFinal' /\ SweptDown'
<1>1. ASSUME NEW s \in Services, UserStart(s) PROVE ShutdownFinal' /\ SweptDown'
  BY <1>1, StartFinal DEF UserStart
<1>2. ASSUME NEW s \in Services, Stop(s) PROVE ShutdownFinal' /\ SweptDown'
  <2>1. SweptDown' BY <1>2 DEF Stop, SweptDown
  <2>2. ASSUME NEW p \in alive \ survived, down, p[1] \in swept' PROVE p \in stopping'
    <3>1. CASE p[1] = s BY <1>2, <3>1, RunsUp DEF Stop
    <3>2. CASE p[1] # s BY <1>2, <2>2, <3>2 DEF Stop, ShutdownFinal
    <3> QED BY <3>1, <3>2
  <2> QED BY <1>2, <2>1, <2>2 DEF Stop, ShutdownFinal
<1>3. ASSUME NEW p \in Processes, StopEnd(p) PROVE ShutdownFinal' /\ SweptDown'
  BY <1>3 DEF StopEnd, ShutdownFinal, SweptDown
<1>4. ASSUME NEW t \in timers, Restart(t) PROVE ShutdownFinal' /\ SweptDown'
  <2>1. t.service \in Services BY DEF TypeOK
  <2> QED BY <1>4, <2>1, StartFinal DEF Restart, Histories
<1>5. ASSUME NEW p \in Processes, Exit(p) PROVE ShutdownFinal' /\ SweptDown'
  BY <1>5, FinalKept DEF Exit, Histories
<1>6. CASE Shutdown BY <1>6 DEF Shutdown, ShutdownFinal, SweptDown
<1>7. CASE UNCHANGED <<alive, stopping>> /\ Histories BY <1>7, FinalKept DEF Histories
<1> QED BY <1>1, <1>2, <1>3, <1>4, <1>5, <1>6, <1>7
        DEF Next, vars, Probe, Forget, Report, Watch, Check, Plan, Histories

-----------------------------------------------------------------------------
(* Timers: what a stop voids, and what crashes end.                        *)

TimersInv == Earlier /\ Held /\ Valid

\* Nothing is armed, and the generations stay.
LEMMA TimersKept ==
  ASSUME TypeOK, TimersInv, timers' \subseteq timers, unwanted' \ overtaken' \subseteq unwanted \ overtaken,
         \A s \in Services : /\ runtime'[s].generation = runtime[s].generation
                             /\ runtime[s].expected_stop => runtime'[s].expected_stop
                             /\ runtime[s].process = 0 => runtime'[s].process = 0
                             /\ runtime[s].crashes <= CrashLimit => runtime'[s].crashes <= CrashLimit
  PROVE  TimersInv'
<1>1. \A t \in timers : t.service \in Services BY DEF TypeOK
<1>2. Earlier' BY <1>1 DEF TimersInv, Earlier
<1>3. Held' BY <1>1 DEF TimersInv, Held, TypeOK
<1>4. Valid' BY <1>1 DEF TimersInv, Valid
<1> QED BY <1>2, <1>3, <1>4 DEF TimersInv

\* A start of a service the user did not stop, or starts now.
LEMMA StartTimers ==
  ASSUME TypeOK, TimersInv, NEW s \in Services, NEW automatic \in BOOLEAN, Start(s, automatic),
         timers' \subseteq timers, unwanted' \ overtaken' \subseteq unwanted \ overtaken,
         s \notin unwanted' \ overtaken'
  PROVE  TimersInv'
<1>1. CASE UNCHANGED <<runtime, alive, watched>> BY <1>1, TimersKept
<1>2. CASE runtime' = [runtime EXCEPT ![s].status = "error"] BY <1>2, TimersKept DEF TypeOK
<1>3. CASE \E created \in BOOLEAN : Created(s, automatic, created)
  <2>1. /\ runtime'[s].generation = runtime[s].generation + 1
        /\ \A x \in Services \ {s} : runtime'[x] = runtime[x]
    BY <1>3 DEF Created, TypeOK
  <2>2. \A t \in timers : t.service \in Services /\ t.generation \in Nat BY DEF TypeOK
  <2>3. runtime[s].generation \in Nat BY DEF TypeOK
  <2>4. Earlier' BY <2>1, <2>2, <2>3 DEF TimersInv, Earlier
  <2>5. Held' BY <2>1, <2>2 DEF TimersInv, Held, TypeOK
  <2>6. Valid' BY <2>1, <2>2, <2>3 DEF TimersInv, Valid, Earlier
  <2> QED BY <2>4, <2>5, <2>6 DEF TimersInv
<1> QED BY <1>1, <1>2, <1>3, StartCases

LEMMA StepTimers ==
  ASSUME TypeOK, TimersInv, [Next]_vars
  PROVE  TimersInv'
<1> USE DEF Histories
<1>1. ASSUME NEW s \in Services, UserStart(s) PROVE TimersInv'
  BY <1>1, StartTimers DEF UserStart
<1>2. ASSUME NEW s \in Services, Stop(s) PROVE TimersInv'
  <2>1. /\ runtime'[s].generation = runtime[s].generation + 1 /\ runtime'[s].expected_stop
        /\ \A x \in Services \ {s} : runtime'[x] = runtime[x]
        /\ timers' = timers
    BY <1>2 DEF Stop, TypeOK
  <2>2. \A t \in timers : t.service \in Services /\ t.generation \in Nat BY DEF TypeOK
  <2>3. runtime[s].generation \in Nat BY DEF TypeOK
  <2>4. Earlier' BY <2>1, <2>2, <2>3 DEF TimersInv, Earlier
  <2>5. Valid' BY <2>1, <2>2, <2>3 DEF TimersInv, Valid, Earlier
  <2>6. ASSUME NEW x \in unwanted' \ overtaken'
        PROVE  /\ runtime'[x].expected_stop
               /\ \A t \in timers : t.service = x => ~t.checked /\ t.generation # runtime'[x].generation
    <3>1. CASE x = s
      <4>1. \A t \in timers : t.service = s => ~t.checked BY <1>2, <2>6, <3>1 DEF Stop
      <4>2. \A t \in timers : t.service = s => t.generation # runtime[s].generation + 1
        BY <2>2, <2>3 DEF TimersInv, Earlier
      <4> QED BY <2>1, <3>1, <4>1, <4>2
    <3>2. CASE x # s
      <4>1. x \in unwanted \ overtaken /\ x \in Services BY <1>2, <2>6, <3>2 DEF Stop, TypeOK
      <4> QED BY <2>1, <3>2, <4>1 DEF TimersInv, Held
    <3> QED BY <3>1, <3>2
  <2>7. Held' BY <2>1, <2>6 DEF Held
  <2> QED BY <2>4, <2>5, <2>7 DEF TimersInv
<1>3. ASSUME NEW s \in Services, Forget(s) PROVE TimersInv'
  BY <1>3, TimersKept DEF Forget, TypeOK
<1>4. ASSUME NEW s \in Services, NEW st \in {"running", "degraded", "same"}, Report(s, st) PROVE TimersInv'
  BY <1>4, TimersKept DEF Report, TypeOK
<1>5. ASSUME NEW p \in Processes, StopEnd(p) PROVE TimersInv'
  BY <1>5, ProcessFacts, TimersKept DEF StopEnd, TypeOK
<1>6. ASSUME NEW p \in Processes, Watch(p) PROVE TimersInv'
  <2> DEFINE s == p[1] n == runtime[s].crashes + 1
  <2>1. p = <<s, p[2]>> /\ s \in Services /\ p[2] \in Nat /\ p[2] # 0 BY ProcessFacts
  <2>2. CASE UNCHANGED <<runtime, timers>> BY <1>6, <2>2, TimersKept DEF Watch
  <2>3. CASE runtime' = [runtime EXCEPT ![s].process = 0, ![s].status = "stopped"] /\ UNCHANGED timers
    BY <1>6, <2>1, <2>3, TimersKept DEF Watch, TypeOK
  <2>4. CASE /\ Process(s) = p /\ ~runtime[s].expected_stop /\ ~down
             /\ runtime' = [runtime EXCEPT ![s].process = 0, ![s].status = "error", ![s].crashes = n]
             /\ timers' = timers \cup {t \in {[service |-> s, generation |-> p[2], checked |-> FALSE]} : Retry(n)}
    <3>1. p[2] = runtime[s].process /\ p[2] <= runtime[s].generation
      BY <2>1, <2>4 DEF Process, TypeOK
    <3>2. /\ runtime'[s].process = 0 /\ runtime'[s].crashes = n /\ runtime'[s].generation = runtime[s].generation
          /\ \A x \in Services \ {s} : runtime'[x] = runtime[x]
      BY <2>1, <2>4 DEF TypeOK
    <3>3. \A t \in timers : t.service \in Services BY DEF TypeOK
    <3>4. \A t \in timers' : \/ t \in timers
                             \/ t.service = s /\ t.generation = p[2] /\ n <= CrashLimit
      BY <2>4 DEF Retry
    <3>5. \A t \in timers : t.service = s => t.generation # runtime[s].generation
      BY <3>1, <2>1 DEF TimersInv, Valid
    <3>6. Earlier' BY <3>1, <3>2, <3>3, <3>4 DEF TimersInv, Earlier
    <3>7. Valid' BY <3>2, <3>3, <3>4, <3>5 DEF TimersInv, Valid
    <3>8. UNCHANGED <<unwanted, overtaken>> BY <1>6 DEF Watch
    <3>9. s \notin unwanted \ overtaken BY <2>4 DEF TimersInv, Held
    <3>10. \A x \in unwanted \ overtaken : x \in Services BY DEF TypeOK
    <3>11. Held' BY <3>2, <3>3, <3>4, <3>8, <3>9, <3>10 DEF TimersInv, Held
    <3> QED BY <3>6, <3>7, <3>11 DEF TimersInv
  <2> QED BY <1>6, <2>2, <2>3, <2>4 DEF Watch
<1>7. ASSUME NEW t \in timers, Check(t) PROVE TimersInv'
  <2>0. t \in [service : Services, generation : Nat, checked : BOOLEAN] BY DEF TypeOK
  <2>1. CASE timers' = timers \ {t} BY <1>7, <2>1, TimersKept DEF Check
  <2>2. CASE /\ runtime[t.service].generation = t.generation
             /\ timers' = (timers \ {t}) \cup {[t EXCEPT !.checked = TRUE]}
    <3> DEFINE c == [t EXCEPT !.checked = TRUE]
    <3>0. c.service = t.service /\ c.generation = t.generation BY <2>0
    <3>1. \A u \in timers' : u \in timers \/ (u.service = t.service /\ u.generation = t.generation)
      <4> HIDE DEF c
      <4>1. timers' = (timers \ {t}) \cup {c} BY <2>2 DEF c
      <4> QED BY <3>0, <4>1
    <3>2. UNCHANGED <<runtime, unwanted, overtaken>> BY <1>7 DEF Check
    <3>3. t.service \notin unwanted \ overtaken BY <2>2 DEF TimersInv, Held
    <3>4. Earlier' BY <3>1, <3>2 DEF TimersInv, Earlier
    <3>5. Valid' BY <3>1, <3>2 DEF TimersInv, Valid
    <3>6. Held' BY <3>1, <3>2, <3>3 DEF TimersInv, Held
    <3> QED BY <3>4, <3>5, <3>6 DEF TimersInv
  <2> QED BY <1>7, <2>1, <2>2 DEF Check
<1>8. ASSUME NEW t \in timers, Restart(t) PROVE TimersInv'
  <2>1. t.service \in Services BY DEF TypeOK
  <2>2. t.service \notin unwanted \ overtaken BY <1>8 DEF Restart, TimersInv, Held
  <2>3. timers' \subseteq timers /\ UNCHANGED <<unwanted, overtaken>> BY <1>8 DEF Restart
  <2> QED BY <1>8, <2>1, <2>2, <2>3, StartTimers DEF Restart
<1>9. CASE UNCHANGED <<runtime, timers, unwanted, overtaken>> BY <1>9, TimersKept
<1> QED BY <1>1, <1>2, <1>3, <1>4, <1>5, <1>6, <1>7, <1>8, <1>9 DEF Next, vars, Probe, Exit, Plan, Shutdown
-----------------------------------------------------------------------------
(* What the user stopped.                                                  *)

LEMMA StepHolds ==
  ASSUME TypeOK, OneProcess, TimersInv, StopHolds, [Next]_vars
  PROVE  StopHolds'
<1> USE DEF Histories
<1>1. ASSUME NEW s \in Services, UserStart(s) PROVE StopHolds'
  <2> SUFFICES ASSUME NEW p \in alive' \ survived', p[1] \in unwanted' \ overtaken' PROVE p \in stopping'
    BY DEF StopHolds
  <2>1. p[1] # s /\ p[1] \in unwanted \ overtaken BY <1>1 DEF UserStart
  <2>2. p \in alive BY <1>1, <2>1, StartAlive DEF UserStart
  <2> QED BY <1>1, <2>1, <2>2 DEF UserStart, StopHolds
<1>2. ASSUME NEW s \in Services, Stop(s) PROVE StopHolds'
  <2>1. ASSUME NEW p \in alive \ survived, p[1] \in unwanted' \ overtaken' PROVE p \in stopping'
    <3>1. CASE p[1] = s BY <1>2, <3>1, RunsUp DEF Stop
    <3>2. CASE p[1] # s BY <1>2, <2>1, <3>2 DEF Stop, StopHolds
    <3> QED BY <3>1, <3>2
  <2> QED BY <1>2, <2>1 DEF Stop, StopHolds
<1>3. ASSUME NEW p \in Processes, StopEnd(p) PROVE StopHolds'
  BY <1>3 DEF StopEnd, StopHolds
<1>4. ASSUME NEW t \in timers, Restart(t) PROVE StopHolds'
  <2>1. t.service \in Services /\ t.service \notin unwanted \ overtaken
    BY <1>4 DEF Restart, TypeOK, TimersInv, Held
  <2>2. \A p \in alive' : p \in alive \/ p[1] = t.service BY <1>4, <2>1, StartAlive DEF Restart
  <2> QED BY <1>4, <2>1, <2>2 DEF Restart, StopHolds
<1>5. ASSUME NEW p \in Processes, Exit(p) PROVE StopHolds'
  BY <1>5 DEF Exit, StopHolds
<1>6. CASE UNCHANGED <<alive, stopping, survived, unwanted, overtaken>> BY <1>6 DEF StopHolds
<1> QED BY <1>1, <1>2, <1>3, <1>4, <1>5, <1>6
        DEF Next, vars, Probe, Forget, Report, Watch, Check, Plan, Shutdown

-----------------------------------------------------------------------------
(* The inductive invariant, and what follows from it.                      *)

IInv == /\ TypeOK /\ OneProcess /\ ShownIsReal
        /\ ShutdownFinal /\ SweptDown /\ TimersInv /\ StopHolds

LEMMA Invariance == Spec => []IInv
<1>1. Init => IInv
  BY InitType DEF Init, IInv, OneProcess, ShownIsReal, Shown, ShutdownFinal, SweptDown,
     TimersInv, Earlier, Held, Valid, StopHolds
<1>2. IInv /\ [Next]_vars => IInv'
  BY StepType, StepOne, StepShown, StepFinal, StepTimers, StepHolds DEF IInv
<1> QED BY <1>1, <1>2, PTL DEF Spec

\* No service has two processes that run, unless one outlived its kill: what
\* stop, watch and restart act on is the process there is.
THEOREM ServicesHaveOneProcess == Spec => []OneProcess
<1>1. IInv => OneProcess BY DEF IInv
<1> QED BY <1>1, Invariance, PTL

\* The status that is shown agrees with the process, whatever is reported late.
THEOREM StatusIsReal == Spec => []ShownIsReal
<1>1. IInv => ShownIsReal BY DEF IInv
<1> QED BY <1>1, Invariance, PTL

\* After shutdown() stopped a service nothing starts it again.
THEOREM ShutdownIsFinal == Spec => []ShutdownFinal
<1>1. IInv => ShutdownFinal BY DEF IInv
<1> QED BY <1>1, Invariance, PTL

\* A service the user stopped stays stopped, unless a restart was past its
\* check.
THEOREM StopsHold == Spec => []StopHolds
<1>1. IInv => StopHolds BY DEF IInv
<1> QED BY <1>1, Invariance, PTL

\* A pending restore is only applied while no process runs that a stop could
\* still end.
THEOREM RestoresAlone == Spec => RestoreAlone
<1>1. ASSUME TypeOK, OneProcess, NEW s \in Services, NEW ok \in BOOLEAN, Restore(s, ok), pending, ~pending'
      PROVE  alive \subseteq survived
  <2>1. \A x \in Services : ~Up(x) BY <1>1 DEF Restore
  <2> QED BY <1>1, <2>1, RunsUp, ProcessFacts DEF TypeOK
<1>2. ASSUME TypeOK, OneProcess, NEW s \in Services, NEW automatic \in BOOLEAN, Start(s, automatic),
             pending, ~pending'
      PROVE  alive \subseteq survived
  <2>1. \E ok \in BOOLEAN : Restore(s, ok) BY <1>2 DEF Start
  <2> QED BY <1>1, <1>2, <2>1
<1>3. IInv /\ [Next]_vars => [pending /\ ~pending' => alive \subseteq survived]_vars
  <2> SUFFICES ASSUME TypeOK, OneProcess, Next, pending, ~pending' PROVE alive \subseteq survived
    BY DEF IInv
  <2>1. \A t \in timers : t.service \in Services BY DEF TypeOK
  <2> QED BY <1>2, <2>1 DEF Next, UserStart, Stop, Probe, Forget, Report, Exit, Watch, StopEnd,
                            Check, Restart, Plan, Shutdown
<1> QED BY <1>3, Invariance, PTL DEF Spec, RestoreAlone
===============================================================================
