----------------------------- MODULE TaskContract -----------------------------
(***************************************************************************)
(* What the Master promises about a long-running task, whatever the        *)
(* connections, dispatchers and restarts do: it is handed to its agent at  *)
(* most once, only after it was recorded as running; a task that left the  *)
(* queue by being handed over never returns to it; a task that was         *)
(* withdrawn from the queue is never handed over; an outcome is final.     *)
(*                                                                         *)
(* One hand-over may still follow a timeout: the record of the start and   *)
(* the write to the connection are two steps, and the timeout scanner may  *)
(* run between them.                                                       *)
(***************************************************************************)
CONSTANT Task

VARIABLES
  state,    \* what the user is told of each task
  handed    \* tasks that were handed to their agent

vars == <<state, handed>>

Outcome == {"succeeded", "failed", "timeout", "cancelled"}

TypeOK ==
  /\ state \in [Task -> {"absent", "pending", "running"} \cup Outcome]
  /\ handed \subseteq Task

Init ==
  /\ state = [t \in Task |-> "absent"]
  /\ handed = {}

Move(t, from, to) ==
  /\ state[t] \in from
  /\ state' = [state EXCEPT ![t] = to]
  /\ UNCHANGED handed

Submit(t) == Move(t, {"absent"}, "pending")
Start(t) == t \notin handed /\ Move(t, {"pending"}, "running")
Requeue(t) == t \notin handed /\ Move(t, {"running"}, "pending")
Withdraw(t, o) == o \in Outcome \ {"succeeded"} /\ t \notin handed /\ Move(t, {"pending"}, o)
Timeout(t) == Move(t, {"running"}, "timeout")
Finish(t, o) == o \in Outcome /\ t \in handed /\ Move(t, {"running"}, o)

HandOver(t) ==
  /\ state[t] \in {"running", "timeout"}
  /\ t \notin handed
  /\ handed' = handed \cup {t}
  /\ UNCHANGED state

Next ==
  \E t \in Task :
    \/ Submit(t) \/ Start(t) \/ Requeue(t) \/ Timeout(t) \/ HandOver(t)
    \/ \E o \in Outcome : Withdraw(t, o) \/ Finish(t, o)

Spec == Init /\ [][Next]_vars
===============================================================================
