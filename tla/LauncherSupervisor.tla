------------------------- MODULE LauncherSupervisor -------------------------
(***************************************************************************)
(* The launcher's supervisor of the service processes                      *)
(* (src/mabobot_launcher/supervisor.py): start, stop, the watch thread and *)
(* the restart timer of each process, the health monitor, the restore that *)
(* must come before any service, and the shutdown.  One action is one      *)
(* critical section of _lock, or what happens to a process between two.    *)
(*                                                                         *)
(* A process is named by its service and the generation that started it;   *)
(* 0 is no process.  Crashes are counted while they are less than five     *)
(* minutes old.                                                            *)
(***************************************************************************)
EXTENDS Naturals, FiniteSets

CONSTANTS Services,
          MaxGen,      \* bound on the generations of each service
          CrashLimit   \* crashes in five minutes that are followed by a restart

ASSUME LauncherAssumption == MaxGen \in [Services -> Nat] /\ CrashLimit \in Nat

Processes == UNION {{s} \X (1..MaxGen[s]) : s \in Services}
Shown == {"starting", "running", "degraded", "stopping"}

VARIABLES runtime,   \* ServiceRuntime
          alive,     \* the processes that run
          watched,   \* the processes whose watch thread waits
          timers,    \* restarts after a crash: waiting for the timer, or past the check
          stopping,  \* the processes stop_service() is ending
          probed,    \* the process the health monitor probes, for each service
          pending,   \* pending_restore.json exists
          blocked,   \* _restore_blocked
          down,      \* _shutting_down
          swept,     \* the services shutdown() has begun to stop
          survived,  \* history: the processes that outlived their kill
          unwanted,  \* history: the services the user stopped
          overtaken  \* history: those stopped while a restart was past its check
vars == <<runtime, alive, watched, timers, stopping, probed, pending, blocked, down, swept,
          survived, unwanted, overtaken>>

TypeOK == /\ runtime \in [Services -> [process : Nat, generation : Nat, crashes : Nat,
                                       expected_stop : BOOLEAN, status : Shown \cup {"stopped", "error"}]]
          /\ \A s \in Services : runtime[s].process <= runtime[s].generation
          /\ alive \subseteq Processes /\ watched \subseteq Processes /\ stopping \subseteq Processes
          /\ timers \subseteq [service : Services, generation : Nat, checked : BOOLEAN]
          /\ probed \in [Services -> Nat] /\ survived \subseteq Processes
          /\ {pending, blocked, down} \subseteq BOOLEAN
          /\ swept \subseteq Services /\ unwanted \subseteq Services /\ overtaken \subseteq Services

Init == /\ runtime = [s \in Services |-> [process |-> 0, generation |-> 0, crashes |-> 0,
                                          expected_stop |-> FALSE, status |-> "stopped"]]
        /\ alive = {} /\ watched = {} /\ timers = {} /\ stopping = {}
        /\ probed = [s \in Services |-> 0] /\ pending \in BOOLEAN /\ blocked = FALSE
        /\ down = FALSE /\ swept = {} /\ survived = {} /\ unwanted = {} /\ overtaken = {}

-----------------------------------------------------------------------------
Process(s) == <<s, runtime[s].process>>
Up(s) == Process(s) \in alive
\* What only a user's request changes.
Histories == UNCHANGED <<down, swept, survived, unwanted, overtaken>>

\* A fault: only the service that starts has to be stopped.
RestoreFault(s, ok) ==
    \/ ~pending /\ ok = ~blocked /\ UNCHANGED <<pending, blocked>>
    \/ pending /\ ~Up(s) /\ blocked' = ~ok /\ pending' \in (IF ok THEN {FALSE} ELSE BOOLEAN)
\* _apply_restore_before_services(): a pending restore is applied while no
\* service runs; a failed one blocks every start.
Restore(s, ok) ==
    \/ ~pending /\ ok = ~blocked /\ UNCHANGED <<pending, blocked>>
    \/ pending /\ (\E x \in Services : Up(x)) /\ ~ok /\ UNCHANGED <<pending, blocked>>
    \/ pending /\ (\A x \in Services : ~Up(x)) /\ blocked' = ~ok /\ pending' \in (IF ok THEN {FALSE} ELSE BOOLEAN)

\* A fault: a start does not look at the shutdown.
MayStartFault(s) == ~Up(s)
MayStart(s) == ~down /\ ~Up(s)

\* start_service(): nothing while the launcher ends or the process runs, an
\* error when the restore or the creation of the process fails.
Start(s, automatic) ==
    \/ ~MayStart(s) /\ UNCHANGED <<runtime, alive, watched, pending, blocked>>
    \/ /\ MayStart(s) /\ Restore(s, FALSE)
       /\ runtime' = [runtime EXCEPT ![s].status = "error"]
       /\ UNCHANGED <<alive, watched>>
    \/ /\ MayStart(s) /\ Restore(s, TRUE) /\ runtime[s].generation < MaxGen[s]
       /\ \E created \in BOOLEAN : LET g == runtime[s].generation + 1 IN
            /\ runtime' = [runtime EXCEPT
                 ![s] = [process |-> IF created THEN g ELSE @.process, generation |-> g, expected_stop |-> FALSE,
                         crashes |-> IF automatic THEN @.crashes ELSE 0,
                         status |-> IF created THEN "starting" ELSE "error"]]
            /\ alive' = alive \cup {p \in {<<s, g>>} : created}
            /\ watched' = watched \cup {p \in {<<s, g>>} : created}

\* The user starts a service (start_all, and the second half of a restart).
UserStart(s) ==
    /\ Start(s, FALSE)
    /\ unwanted' = unwanted \ {s} /\ overtaken' = overtaken \ {s}
    /\ UNCHANGED <<timers, stopping, probed, down, swept, survived>>

\* A fault: a stop leaves the generation of a pending restart.
StopFault(s) ==
    /\ runtime' = [runtime EXCEPT ![s].expected_stop = TRUE,
                                  ![s].process = IF Up(s) THEN @ ELSE 0,
                                  ![s].status = IF Up(s) THEN "stopping" ELSE "stopped"]
    /\ stopping' = stopping \cup {p \in {Process(s)} : Up(s)}
    /\ unwanted' = unwanted \cup {s}
    /\ overtaken' = overtaken \cup {x \in {s} : \E t \in timers : t.service = s /\ t.checked}
    /\ swept' = swept \cup {x \in {s} : down}
    /\ UNCHANGED <<alive, watched, timers, probed, pending, blocked, down, survived>>
\* A fault: the generation ends with the process.
StopAnewFault(s) ==
    /\ runtime' = [runtime EXCEPT ![s].expected_stop = TRUE, ![s].generation = 0,
                                  ![s].process = IF Up(s) THEN @ ELSE 0,
                                  ![s].status = IF Up(s) THEN "stopping" ELSE "stopped"]
    /\ stopping' = stopping \cup {p \in {Process(s)} : Up(s)}
    /\ unwanted' = unwanted \cup {s}
    /\ overtaken' = overtaken \cup {x \in {s} : \E t \in timers : t.service = s /\ t.checked}
    /\ swept' = swept \cup {x \in {s} : down}
    /\ UNCHANGED <<alive, watched, timers, probed, pending, blocked, down, survived>>
\* stop_service(), first half: the generation voids what waits for the old one;
\* the process tree is to be ended.
Stop(s) ==
    /\ runtime[s].generation < MaxGen[s]
    /\ runtime' = [runtime EXCEPT ![s].expected_stop = TRUE, ![s].generation = @ + 1,
                                  ![s].process = IF Up(s) THEN @ ELSE 0,
                                  ![s].status = IF Up(s) THEN "stopping" ELSE "stopped"]
    /\ stopping' = stopping \cup {p \in {Process(s)} : Up(s)}
    /\ unwanted' = unwanted \cup {s}
    /\ overtaken' = overtaken \cup {x \in {s} : \E t \in timers : t.service = s /\ t.checked}
    /\ swept' = swept \cup {x \in {s} : down}
    /\ UNCHANGED <<alive, watched, timers, probed, pending, blocked, down, survived>>

\* A fault: the second half forgets whatever process the service has now.
StopEndFault(p) ==
    /\ p \in stopping /\ stopping' = stopping \ {p}
    /\ survived' = survived \cup ({p} \cap alive)
    /\ runtime' = [runtime EXCEPT ![p[1]].process = 0, ![p[1]].status = "stopped"]
    /\ UNCHANGED <<alive, watched, timers, probed, pending, blocked, down, swept, unwanted, overtaken>>
\* Second half: the process ended, or the kill was not effective in time.
StopEnd(p) ==
    /\ p \in stopping /\ stopping' = stopping \ {p}
    /\ survived' = survived \cup ({p} \cap alive)
    /\ runtime' = IF Process(p[1]) = p
                  THEN [runtime EXCEPT ![p[1]].process = 0, ![p[1]].status = "stopped"] ELSE runtime
    /\ UNCHANGED <<alive, watched, timers, probed, pending, blocked, down, swept, unwanted, overtaken>>

\* A process ends: terminated, killed or crashed.
Exit(p) == /\ p \in alive /\ alive' = alive \ {p}
           /\ UNCHANGED <<runtime, watched, timers, stopping, probed, pending, blocked>> /\ Histories

Retry(n) == n <= CrashLimit

\* _watch_process(): an unexpected end is an error; up to five in five minutes
\* are followed by a restart.
Watch(p) ==
    /\ p \in watched \ alive /\ watched' = watched \ {p}
    /\ LET s == p[1] n == runtime[s].crashes + 1 IN
       \/ Process(s) # p /\ UNCHANGED <<runtime, timers>>
       \/ /\ Process(s) = p /\ (runtime[s].expected_stop \/ down)
          /\ runtime' = [runtime EXCEPT ![s].process = 0, ![s].status = "stopped"]
          /\ UNCHANGED timers
       \/ /\ Process(s) = p /\ ~runtime[s].expected_stop /\ ~down
          /\ runtime' = [runtime EXCEPT ![s].process = 0, ![s].status = "error", ![s].crashes = n]
          /\ timers' = timers \cup {t \in {[service |-> s, generation |-> p[2], checked |-> FALSE]} : Retry(n)}
    /\ UNCHANGED <<alive, stopping, probed, pending, blocked>> /\ Histories

\* _restart_after_crash(): the check under the lock, the start after it.
Check(t) ==
    /\ t \in timers /\ ~t.checked
    /\ timers' = IF down \/ runtime[t.service].generation # t.generation \/ runtime[t.service].process # 0
                 THEN timers \ {t} ELSE (timers \ {t}) \cup {[t EXCEPT !.checked = TRUE]}
    /\ UNCHANGED <<runtime, alive, watched, stopping, probed, pending, blocked>> /\ Histories
Restart(t) ==
    /\ t \in timers /\ t.checked /\ timers' = timers \ {t} /\ Start(t.service, TRUE)
    /\ UNCHANGED <<stopping, probed>> /\ Histories

\* _health_loop(): the probe is made outside the lock.
Probe(s) == /\ probed[s] = 0 /\ Up(s) /\ probed' = [probed EXCEPT ![s] = runtime[s].process]
            /\ UNCHANGED <<runtime, alive, watched, timers, stopping, pending, blocked>> /\ Histories
\* A fault: the process that was probed is not compared with the current one.
ReportFault(s, st) ==
    /\ probed[s] # 0 /\ probed' = [probed EXCEPT ![s] = 0] /\ st \in {"running", "degraded", "same"}
    /\ runtime' = IF st = "same" THEN runtime ELSE [runtime EXCEPT ![s].status = st]
    /\ UNCHANGED <<alive, watched, timers, stopping, pending, blocked>> /\ Histories
Report(s, st) ==
    /\ probed[s] # 0 /\ probed' = [probed EXCEPT ![s] = 0] /\ st \in {"running", "degraded", "same"}
    /\ runtime' = IF st = "same" \/ probed[s] # runtime[s].process THEN runtime
                  ELSE [runtime EXCEPT ![s].status = st]
    /\ UNCHANGED <<alive, watched, timers, stopping, pending, blocked>> /\ Histories

\* A restore is planned (by the web service or a user); five minutes pass.
Plan == /\ ~pending /\ pending' = TRUE
        /\ UNCHANGED <<runtime, alive, watched, timers, stopping, probed, blocked>> /\ Histories
Forget(s) == /\ runtime[s].crashes > 0 /\ runtime' = [runtime EXCEPT ![s].crashes = 0]
             /\ UNCHANGED <<alive, watched, timers, stopping, probed, pending, blocked>> /\ Histories

\* shutdown(): the flag; the services are stopped one after the other.
Shutdown == /\ ~down /\ down' = TRUE
            /\ UNCHANGED <<runtime, alive, watched, timers, stopping, probed, pending, blocked,
                           swept, survived, unwanted, overtaken>>

Next == \/ \E s \in Services : UserStart(s) \/ Stop(s) \/ Probe(s) \/ Forget(s)
                               \/ \E st \in {"running", "degraded", "same"} : Report(s, st)
        \/ \E p \in Processes : Exit(p) \/ Watch(p) \/ StopEnd(p)
        \/ \E t \in timers : Check(t) \/ Restart(t)
        \/ Plan \/ Shutdown
Spec == Init /\ [][Next]_vars

-----------------------------------------------------------------------------
\* A service never has two processes: one that runs is the one stop, watch and
\* restart know of, unless it outlived its kill.
OneProcess == \A p \in alive \ survived : Process(p[1]) = p

\* A service shown as starting, running, degraded or stopping has a process,
\* one shown as stopped has none, whatever probe, watch or stop reports late.
ShownIsReal == \A s \in Services : /\ runtime[s].status \in Shown => runtime[s].process # 0
                                   /\ runtime[s].status = "stopped" => runtime[s].process = 0

\* Once shutdown() has stopped a service, no restart, timer or user starts it
\* again: nothing runs that did not outlive its kill.
ShutdownFinal == \A p \in alive \ survived : down /\ p[1] \in swept => p \in stopping

\* "存在待恢复备份，请先停止全部服务": a restore is applied while no service runs.
RestoreAlone == [][pending /\ ~pending' => alive \subseteq survived]_vars

\* What a user stopped stays stopped, unless a restart was already past its
\* check when the stop came.
StopHolds == \A p \in alive \ survived : p[1] \in unwanted \ overtaken => p \in stopping
=============================================================================
