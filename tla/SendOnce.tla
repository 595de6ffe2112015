------------------------------ MODULE SendOnce ------------------------------
(***************************************************************************)
(* What an outbox of this system promises for a logical effect, whoever    *)
(* keeps it: the effect is reserved before the transport is called, the    *)
(* transport is called at most once, and what is not confirmed stays       *)
(* uncertain for good instead of being tried again.  WorkCoordination      *)
(* (deliver) and AssistantTasks (TaskStore.delivery, recover) implement    *)
(* it.                                                                     *)
(***************************************************************************)
EXTENDS Naturals, TLAPS

CONSTANT Effects
VARIABLES outcome,   \* what the outbox records of each effect
          sends      \* how often the transport was called for it

Outcomes == {"none", "sending", "sent", "uncertain", "refused"}

Init == /\ outcome = [e \in Effects |-> "none"]
        /\ sends = [e \in Effects |-> 0]

Reserve(e) == /\ outcome[e] = "none"
              /\ outcome' = [outcome EXCEPT ![e] = "sending"]
              /\ UNCHANGED sends

Call(e) == /\ outcome[e] = "sending" /\ sends[e] = 0
           /\ sends' = [sends EXCEPT ![e] = 1]
           /\ UNCHANGED outcome

Confirm(e) == /\ outcome[e] = "sending" /\ sends[e] = 1
              /\ outcome' = [outcome EXCEPT ![e] = "sent"]
              /\ UNCHANGED sends

Refuse(e) == /\ outcome[e] = "sending" /\ sends[e] = 0
             /\ outcome' = [outcome EXCEPT ![e] = "refused"]
             /\ UNCHANGED sends

\* One send that raises, or every send a restart finds unfinished.
Doubt(E) == /\ \A e \in E : outcome[e] = "sending"
            /\ outcome' = [e \in Effects |-> IF e \in E THEN "uncertain" ELSE outcome[e]]
            /\ UNCHANGED sends

Next == \/ \E e \in Effects : Reserve(e) \/ Call(e) \/ Confirm(e) \/ Refuse(e)
        \/ \E E \in SUBSET Effects : Doubt(E)

Spec == Init /\ [][Next]_<<outcome, sends>>

\* The transport is called at most once for an effect, exactly once for one
\* that is recorded as sent, and never for one that was refused.
AtMostOnce == \A e \in Effects : /\ sends[e] \in {0, 1}
                                 /\ outcome[e] \in Outcomes
                                 /\ outcome[e] = "sent" => sends[e] = 1
                                 /\ outcome[e] \in {"none", "refused"} => sends[e] = 0

\* An effect is never sent a second time, over every order of reservations,
\* calls, confirmations and restarts.
THEOREM SendsOnce == Spec => []AtMostOnce
<1>1. Init => AtMostOnce BY DEF Init, AtMostOnce, Outcomes
<1> DEFINE Typed == /\ outcome \in [Effects -> Outcomes] /\ sends \in [Effects -> {0, 1}]
                    /\ AtMostOnce
<1>2. Init => Typed BY <1>1 DEF Init, Outcomes
<1>3. Typed /\ [Next]_<<outcome, sends>> => Typed'
  <2> SUFFICES ASSUME Typed, [Next]_<<outcome, sends>> PROVE Typed' OBVIOUS
  <2>1. ASSUME NEW e \in Effects, Reserve(e) \/ Call(e) \/ Confirm(e) \/ Refuse(e) PROVE Typed'
    BY <2>1 DEF Reserve, Call, Confirm, Refuse, AtMostOnce, Outcomes
  <2>2. ASSUME NEW E \in SUBSET Effects, Doubt(E) PROVE Typed'
    BY <2>2 DEF Doubt, AtMostOnce, Outcomes
  <2>3. CASE UNCHANGED <<outcome, sends>> BY <2>3 DEF AtMostOnce
  <2> QED BY <2>1, <2>2, <2>3 DEF Next
<1>4. Typed => AtMostOnce OBVIOUS
<1> QED BY <1>2, <1>3, <1>4, PTL DEF Spec
=============================================================================
