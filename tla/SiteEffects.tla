----------------------------- MODULE SiteEffects -----------------------------
(***************************************************************************)
(* What the system promises about the site a workflow acts on, whatever    *)
(* becomes of the rows, the jobs and the processes: executions act one at  *)
(* a time, each performs its steps in order and at most once, and one that *)
(* is over - finished, cancelled, interrupted or lost - never acts again.  *)
(***************************************************************************)
EXTENDS Naturals

CONSTANTS Executions, Steps, None

VARIABLES
  done,    \* how many steps each execution has performed
  active,  \* the execution that may perform one, or None
  over     \* the executions that never will (again)

sites == <<done, active, over>>

Init ==
  /\ done = [e \in Executions |-> 0]
  /\ active = None
  /\ over = {}

Begin(e) ==
  /\ active = None
  /\ e \notin over
  /\ done[e] = 0
  /\ active' = e
  /\ UNCHANGED <<done, over>>

Perform(e) ==
  /\ active = e
  /\ done[e] < Steps
  /\ done' = [done EXCEPT ![e] = @ + 1]
  /\ UNCHANGED <<active, over>>

End(e) ==
  /\ active = e
  /\ active' = None
  /\ over' = over \cup {e}
  /\ UNCHANGED done

(* Executions that did not get to act: cancelled, lost or expired. *)
Drop(es) ==
  /\ active \notin es
  /\ over' = over \cup es
  /\ UNCHANGED <<done, active>>

Next ==
  \/ \E e \in Executions : Begin(e) \/ Perform(e) \/ End(e)
  \/ \E es \in SUBSET Executions : Drop(es)

Spec == Init /\ [][Next]_sites
=============================================================================
