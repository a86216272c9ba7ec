------------------------------- MODULE TimerSet -------------------------------
(***************************************************************************)
(* What Timer promises: a set of armed timers with their times.  A timer   *)
(* is armed and disarmed by its owner; it fires when its time has come,    *)
(* never before one that is due earlier, and a repeating one is armed      *)
(* again.  The promise ends at the first step after which ok is false.     *)
(***************************************************************************)
EXTENDS Naturals

CONSTANT Timers

VARIABLES
  due,    \* due[t]: the time an armed timer fires at
  clock,  \* the time
  ok      \* the times are those the owners asked for

vars == <<due, clock, ok>>

Armed == DOMAIN due

Init == due = <<>> /\ ok = TRUE

Arm(t) ==
  /\ t \notin Armed /\ clock' = clock
  /\ Armed' = Armed \cup {t} /\ due'[t] >= clock
  /\ \A u \in Armed : due'[u] = due[u]

Disarm(t) ==
  /\ t \in Armed /\ clock' = clock
  /\ due' = [u \in Armed \ {t} |-> due[u]]

Fire(t) ==
  /\ t \in Armed /\ clock >= due[t] /\ clock' >= clock
  /\ \A u \in Armed : due[t] <= due[u]
  /\ \/ Armed' = Armed \ {t}
     \/ Armed' = Armed /\ due'[t] > clock
  /\ \A u \in Armed \ {t} : due'[u] = due[u]

Tick == due' = due /\ clock' > clock

Next == \/ /\ ok /\ ok'
           /\ Tick \/ \E t \in Timers : Arm(t) \/ Disarm(t) \/ Fire(t)
        \/ ~ok'

Spec == Init /\ [][Next]_vars
=============================================================================
