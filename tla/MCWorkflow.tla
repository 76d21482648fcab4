----------------------------- MODULE MCWorkflow ------------------------------
(* The follow-up demonstration, with the reply of the engine's replay test:*)
(* ignored while the follow-up is awaited, a transition after it.  Beside  *)
(* the timeout the scheduler has a reminder, which expires.                *)
EXTENDS Workflow

CONSTANTS x1, x2, booked, reply, followUp, reminder

MCTransition ==
  [p \in State \X {"event", "timeout"} |->
     CASE p = <<"awaiting", "timeout">> -> "reminded"
       [] p = <<"reminded", "event">>   -> "done"
       [] OTHER                         -> Nothing]

MCStepOf ==
  [f \in State \cup {booked} |->
     CASE f = booked     -> "schedule-timeout"
       [] f = "awaiting" -> "notify"
       [] OTHER          -> Nothing]

(* A behaviour has the reminder or the workflow: they share no row.        *)
Apart == action[reminder].state = "none" \/ \A e \in Event : event[e] = "none"

MCFairSpec == Init /\ [][Next /\ Apart']_vars /\ Fairness
=============================================================================
