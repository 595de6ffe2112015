-------------------------- MODULE MCScheduledTasks --------------------------
(* Small instances of ScheduledTasks: a rule is the set of its fire times.  *)
EXTENDS ScheduledTasks, FiniteSetsExt

CONSTANTS t1, t2, c1, c2, o1, o2

MCForward ==
  [r \in Rules |-> [t \in Times |->
     LET later == {f \in r : f > t} IN IF later = {} THEN None ELSE Min(later)]]
MCBackward ==
  [r \in Rules |-> [t \in Times |->
     LET past == {f \in r : f <= t} IN IF past = {} THEN None ELSE Max(past)]]

\* Tasks run for c1 and deliver to c2, or to c1 itself.
MCChatOf == [t \in Tasks |-> c1]
MCDestOf == [t \in Tasks |-> c2]

Delays == <<1, 1>>

OneFire == {{1}}
TwoFires == {{1, 2}}
TwoRules == {{1}, {1, 2}}
=============================================================================
