------------------------------ MODULE Workflow -------------------------------
(***************************************************************************)
(* The workflow engine over the scheduler: one instance of one definition, *)
(* started by an outbox event, moved by signals (events it reacts to, and  *)
(* timeouts the scheduler fires), with the steps its transitions record.   *)
(*                                                                         *)
(* A worker is one activity of one process: an event's handler, a drain of *)
(* the scheduler (module Scheduler), or a drain of the steps.  A signal is *)
(* read and applied in two store calls; the transition, the signal's row   *)
(* and the steps are one transaction.  The outbox is abstracted to what    *)
(* its consumer sees: an event is delivered again until its handler        *)
(* returns.  The handler's inline drain of the steps runs in its own       *)
(* activity, and coalesces with nothing.                                   *)
(***************************************************************************)
EXTENDS Scheduler

CONSTANTS
  State,         (* the definition's states                                 *)
  Initial,       (* the state start() gives an instance                     *)
  Final,         (* its terminalStates                                      *)
  Event,         (* outbox events; StartEvent is the one that starts        *)
  StartEvent,
  Transition,    (* transition(): [State \X {"event","timeout"} -> State or Nothing] *)
  StepOf,        (* [State \cup {StartEvent} -> the step of the transition out of it,
                    or Nothing]                                             *)
  Timeout,       (* the action the schedule-timeout step schedules          *)
  MaxStepTries   (* DEFAULT_MAX_STEP_ATTEMPTS, 5                            *)

Signal == Event \cup {Timeout}
Step == {StepOf[x] : x \in DOMAIN StepOf} \ {Nothing}

ASSUME WorkflowAssumption ==
  /\ Initial \in State /\ Final \subseteq State /\ StartEvent \in Event
  /\ Timeout \in Action \ (Event \cup Expiring \cup Withdrawable)
  /\ Transition \in [State \X {"event", "timeout"} -> State \cup {Nothing}]
  /\ DOMAIN StepOf = State \cup {StartEvent}
  /\ StepOf[StartEvent] # Nothing
  /\ Nothing \notin State \cup Event
  /\ MaxStepTries \in Nat \ {0}

VARIABLES
  inst,      (* the instance's state, Nothing before it is created          *)
  signal,    (* [Signal -> its row: no, transitioned or ignored]            *)
  step,      (* [Step -> its row]                                           *)
  ran,       (* [Step -> how often its executor took effect]                *)
  event,     (* [Event -> what the outbox makes of it]                      *)
  job        (* [Executor -> the event, timeout or step it works on]        *)

workflowVars == <<inst, signal, step, ran, event, job>>

vars == <<schedulerVars, workflowVars>>

StepRow == [status : {"none", "pending", "completed", "abandoned"},
            tries : Nat, claim : {"free", "fresh", "stale"}]

Job == [pc   : {"idle", "create", "read", "apply", "claim", "execute", "mark", "failed"},
        for  : Signal \cup {Nothing},    (* Nothing: the poller's drain     *)
        seen : State \cup {Nothing},     (* the state applySignal() read    *)
        todo : SUBSET Step,              (* claimed, not executed yet       *)
        hand : Step \cup {Nothing}]

WorkflowTypeOK ==
  /\ SchedulerTypeOK
  /\ inst \in State \cup {Nothing}
  /\ signal \in [Signal -> {"no", "transitioned", "ignored"}]
  /\ step \in [Step -> StepRow]
  /\ ran \in [Step -> Nat]
  /\ event \in [Event -> {"none", "owed", "held", "stale", "settled"}]
  /\ job \in [Executor -> Job]

NoJob == [pc |-> "idle", for |-> Nothing, seen |-> Nothing, todo |-> {}, hand |-> Nothing]

Init ==
  /\ SchedulerInit
  /\ inst = Nothing
  /\ signal = [s \in Signal |-> "no"]
  /\ step = [k \in Step |-> [status |-> "none", tries |-> 0, claim |-> "free"]]
  /\ ran = [k \in Step |-> 0]
  /\ event = [e \in Event |-> "none"]
  /\ job = [x \in Executor |-> NoJob]

-----------------------------------------------------------------------------
Working(x, pc) == job[x].pc = pc
Free(x) == Working(x, "idle") /\ Draining(x, "idle")

SetJob(x, r) == job' = [job EXCEPT ![x] = r]
JobTo(x, pc) == SetJob(x, [job[x] EXCEPT !.pc = pc])

Kind(s) == IF s = Timeout THEN "timeout" ELSE "event"

(* A handler is over: an event settles, an action is completed by its      *)
(* drain, and the poller has nothing to tell.                              *)
Returns(x) ==
  /\ SetJob(x, NoJob)
  /\ event' = [e \in Event |-> IF e = job[x].for THEN "settled" ELSE event[e]]
  /\ IF job[x].for = Timeout THEN HandlerReturns(x) ELSE UNCHANGED schedulerVars

(* The insert of a transition's steps: keys that are there stay. *)
Record(k) ==
  step' = IF k # Nothing /\ step[k].status = "none"
          THEN [step EXCEPT ![k] = [status |-> "pending", tries |-> 0, claim |-> "free"]]
          ELSE step

-----------------------------------------------------------------------------
Publish(e) ==
  /\ event[e] = "none"
  /\ event' = [event EXCEPT ![e] = "owed"]
  /\ UNCHANGED <<schedulerVars, inst, signal, step, ran, job>>

Deliver(x, e) ==
  /\ Free(x)
  /\ event[e] \in {"owed", "stale"}
  /\ event' = [event EXCEPT ![e] = "held"]
  /\ SetJob(x, [NoJob EXCEPT !.pc = IF e = StartEvent THEN "create" ELSE "read", !.for = e])
  /\ UNCHANGED <<schedulerVars, inst, signal, step, ran>>

(* startFrom(): createInstance() creates or finds the instance *)
CreateInstance(x) ==
  /\ Working(x, "create")
  /\ inst' = IF inst = Nothing THEN Initial ELSE inst
  /\ SetJob(x, [job[x] EXCEPT !.pc = "apply", !.seen = inst'])
  /\ UNCHANGED <<schedulerVars, signal, step, ran, event>>

(* A due timeout's handler begins. *)
HandleTimeout(x) ==
  /\ Draining(x, "handle") /\ drain[x].got = Timeout /\ Working(x, "idle")
  /\ SetJob(x, [NoJob EXCEPT !.pc = "read", !.for = Timeout])
  /\ UNCHANGED <<schedulerVars, inst, signal, step, ran, event>>

(* applySignal() reads the instance and the signal's row. *)
ReadInstance(x) ==
  /\ Working(x, "read")
  /\ IF inst = Nothing \/ signal[job[x].for] # "no" \/ inst \in Final
     THEN Returns(x)
     ELSE /\ SetJob(x, [job[x] EXCEPT !.pc = "apply", !.seen = inst])
          /\ UNCHANGED <<schedulerVars, event>>
  /\ UNCHANGED <<inst, signal, step, ran>>

(* Mutant: the update of transition() does not compare the state. *)
RefusedUncompared(x) == signal[job[x].for] # "no"

(* transition() rolls back: a duplicate, or the state has moved on.  The   *)
(* handler returns; the drain that follows a refused start is the poller's.*)
Refused(x) == signal[job[x].for] # "no" \/ inst # job[x].seen

LoseOrRepeat(x) ==
  /\ Working(x, "apply") /\ Refused(x)
  /\ Returns(x)
  /\ UNCHANGED <<inst, signal, step, ran>>

(* A signal the definition does not act on is consumed, by a transition    *)
(* to the state that was read.                                             *)
Ignore(x) ==
  /\ Working(x, "apply") /\ ~Refused(x)
  /\ job[x].for # StartEvent
  /\ Transition[job[x].seen, Kind(job[x].for)] = Nothing
  /\ inst' = job[x].seen
  /\ signal' = [signal EXCEPT ![job[x].for] = "ignored"]
  /\ JobTo(x, "execute")
  /\ UNCHANGED <<schedulerVars, step, ran, event>>

(* Mutant: the starting event is consumed when the instance is there. *)
StartUnrecorded(x) ==
  /\ Working(x, "apply") /\ ~Refused(x)
  /\ job[x].for = StartEvent
  /\ signal' = [signal EXCEPT ![StartEvent] = "transitioned"]
  /\ JobTo(x, "claim")
  /\ UNCHANGED <<schedulerVars, inst, step, ran, event>>

(* The initial steps ride a transition that keeps the state.  Their keys   *)
(* carry that state, and the starting event's signal is applied once.      *)
Start(x) ==
  /\ Working(x, "apply") /\ ~Refused(x)
  /\ job[x].for = StartEvent
  /\ inst' = job[x].seen
  /\ signal' = [signal EXCEPT ![StartEvent] = "transitioned"]
  /\ Record(StepOf[StartEvent])
  /\ JobTo(x, "claim")
  /\ UNCHANGED <<schedulerVars, ran, event>>

Move(x) ==
  /\ Working(x, "apply") /\ ~Refused(x)
  /\ job[x].for # StartEvent
  /\ LET to == Transition[job[x].seen, Kind(job[x].for)] IN
       to # Nothing /\ inst' = to
  /\ signal' = [signal EXCEPT ![job[x].for] = "transitioned"]
  /\ Record(StepOf[job[x].seen])
  /\ JobTo(x, "claim")
  /\ UNCHANGED <<schedulerVars, ran, event>>

-----------------------------------------------------------------------------
(* The drain of the steps: inline after a move, or the poller's. *)
PollSteps(x) ==
  /\ Free(x)
  /\ JobTo(x, "claim")
  /\ UNCHANGED <<schedulerVars, inst, signal, step, ran, event>>

(* Mutant: a step is claimed whoever has it. *)
ClaimableStepHeld(k) == step[k].status = "pending" /\ step[k].tries < MaxStepTries

ClaimableStep(k) ==
  step[k].status = "pending" /\ step[k].tries < MaxStepTries /\ step[k].claim # "fresh"

(* claimSteps(): one statement takes the whole page *)
ClaimSteps(x) ==
  /\ Working(x, "claim")
  /\ step' = [k \in Step |-> IF ClaimableStep(k)
                THEN [status |-> "pending", tries |-> step[k].tries + 1, claim |-> "fresh"]
                ELSE step[k]]
  /\ SetJob(x, [job[x] EXCEPT !.pc = "execute", !.todo = {k \in Step : ClaimableStep(k)}])
  /\ UNCHANGED <<schedulerVars, inst, signal, ran, event>>

(* The executor of a step takes effect; a schedule-timeout schedules.      *)
Execute(x, k) ==
  /\ Working(x, "execute") /\ k \in job[x].todo
  /\ ran' = [ran EXCEPT ![k] = ran[k] + 1]
  /\ IF k = StepOf[StartEvent] THEN ScheduleOnce(Timeout) ELSE UNCHANGED action
  /\ SetJob(x, [job[x] EXCEPT !.pc = "mark", !.hand = k, !.todo = job[x].todo \ {k}])
  /\ UNCHANGED <<over, drain, mishaps, inst, signal, step, event>>

Executes(x) == SetJob(x, [job[x] EXCEPT !.pc = "execute", !.hand = Nothing])

MarkCompleted(x) ==
  /\ Working(x, "mark")
  /\ step' = [step EXCEPT ![job[x].hand] = [step[job[x].hand] EXCEPT !.status = "completed"]]
  /\ Executes(x)
  /\ UNCHANGED <<schedulerVars, inst, signal, ran, event>>

(* Mutant: a step that failed once is given up. *)
MarkFailedOnce(x) ==
  /\ Working(x, "failed")
  /\ step' = [step EXCEPT ![job[x].hand] = [step[job[x].hand] EXCEPT !.status = "abandoned"]]
  /\ Executes(x)
  /\ UNCHANGED <<schedulerVars, inst, signal, ran, event>>

MarkFailed(x) ==
  /\ Working(x, "failed")
  /\ LET r == step[job[x].hand] IN
       step' = [step EXCEPT ![job[x].hand] =
                  IF r.tries >= MaxStepTries THEN [r EXCEPT !.status = "abandoned"]
                                             ELSE [r EXCEPT !.claim = "free"]]
  /\ Executes(x)
  /\ UNCHANGED <<schedulerVars, inst, signal, ran, event>>

StepsDone(x) ==
  /\ Working(x, "execute") /\ job[x].todo = {}
  /\ Returns(x)
  /\ UNCHANGED <<inst, signal, step, ran>>

-----------------------------------------------------------------------------
(* notify: the delivery failed, so its executor throws. *)
NotifyFails(x, k) ==
  /\ Working(x, "execute") /\ k \in job[x].todo
  /\ k # StepOf[StartEvent]
  /\ SetJob(x, [job[x] EXCEPT !.pc = "failed", !.hand = k, !.todo = job[x].todo \ {k}])
  /\ UNCHANGED <<schedulerVars, inst, signal, step, ran, event>>

(* An executor throws before its effect, or markStepCompleted does. *)
StepThrows(x, k) ==
  /\ Mishap
  /\ \/ Working(x, "execute") /\ k \in job[x].todo
     \/ Working(x, "mark") /\ k = job[x].hand
  /\ SetJob(x, [job[x] EXCEPT !.pc = "failed", !.hand = k, !.todo = job[x].todo \ {k}])
  /\ UNCHANGED <<action, over, drain, inst, signal, step, ran, event>>

(* The store throws in a handler: the outbox or the scheduler tries again. *)
HandlerAborts(x) ==
  /\ Mishap
  /\ ~Working(x, "idle")
  /\ SetJob(x, NoJob)
  /\ event' = [e \in Event |-> IF e = job[x].for THEN "owed" ELSE event[e]]
  /\ IF job[x].for = Timeout THEN StepTo(x, "fail") ELSE UNCHANGED drain
  /\ UNCHANGED <<action, over, inst, signal, step, ran>>

WorkerDies(x) ==
  /\ Mishap
  /\ ~Free(x)
  /\ SetJob(x, NoJob) /\ SetDrain(x, NoDrain)
  /\ UNCHANGED <<action, over, inst, signal, step, ran, event>>

HoldsStep(x, k) == k \in job[x].todo \/ job[x].hand = k

StepRipens(k) ==
  /\ step[k].status = "pending" /\ step[k].claim = "fresh"
  /\ Timely => \A x \in Executor : ~HoldsStep(x, k)
  /\ step' = [step EXCEPT ![k] = [step[k] EXCEPT !.claim = "stale"]]
  /\ UNCHANGED <<schedulerVars, inst, signal, ran, event, job>>

HeldRipens(e) ==
  /\ event[e] = "held"
  /\ Timely => \A x \in Executor : job[x].for # e
  /\ event' = [event EXCEPT ![e] = "stale"]
  /\ UNCHANGED <<schedulerVars, inst, signal, step, ran, job>>

-----------------------------------------------------------------------------
(* The scheduler's own steps.  A timeout's handler is the engine's; every  *)
(* other handler returns or throws.                                        *)
SchedulerStep(x) ==
  /\ \/ Free(x) /\ DrainBegins(x)
     \/ DrainStep(x)
     \/ drain[x].got # Timeout /\ (HandlerReturns(x) \/ HandlerThrows(x))
     \/ Draining(x, "complete") /\ (HandlerFails(x) \/ CompletionUnanswered(x))
  /\ UNCHANGED workflowVars

Producers ==
  /\ \E a \in Action \ {Timeout} : Schedule(a) \/ Withdraw(a)
  /\ UNCHANGED workflowVars

Apply(x) == LoseOrRepeat(x) \/ Ignore(x) \/ Start(x) \/ Move(x)

Handler(x) ==
  \/ CreateInstance(x) \/ HandleTimeout(x) \/ ReadInstance(x) \/ Apply(x)
  \/ ClaimSteps(x) \/ MarkCompleted(x) \/ MarkFailed(x) \/ StepsDone(x)
  \/ \E k \in job[x].todo : Execute(x, k) \/ NotifyFails(x, k)

Time ==
  \/ SchedulerTime /\ UNCHANGED workflowVars
  \/ \E k \in Step : StepRipens(k)
  \/ \E e \in Event : HeldRipens(e)

Next ==
  \/ \E e \in Event : Publish(e)
  \/ Producers
  \/ \E x \in Executor :
       \/ \E e \in Event : Deliver(x, e)
       \/ PollSteps(x) \/ Handler(x) \/ SchedulerStep(x)
       \/ (\E k \in Step : StepThrows(x, k)) \/ HandlerAborts(x) \/ WorkerDies(x)
  \/ Time

Spec == Init /\ [][Next]_vars

(* Activities that began go on; the pollers of some process keep draining  *)
(* the outbox, the scheduler and the steps; what waits for a time, reaches *)
(* it.  Nothing has to expire.                                             *)
Ripening ==
  \/ (\E a \in Action : Ripens(a)) /\ UNCHANGED workflowVars
  \/ \E k \in Step : StepRipens(k)
  \/ \E e \in Event : HeldRipens(e)

Fairness ==
  /\ \A x \in Executor : WF_vars(Handler(x) \/ (~Free(x) /\ SchedulerStep(x)))
  /\ \A e \in Event : SF_vars(\E x \in Executor : Deliver(x, e))
  /\ SF_vars(\E x \in Executor : PollSteps(x))
  /\ SF_vars(\E x \in Executor : Free(x) /\ SchedulerStep(x))
  /\ WF_vars(Ripening)

FairSpec == Spec /\ Fairness

-----------------------------------------------------------------------------
(* A step is executed by the one drain whose batch it is in, although a    *)
(* batch is claimed as a whole, minutes before its last step's turn.       *)
OneStepHolder ==
  \A x, y \in Executor : \A k \in Step : HoldsStep(x, k) /\ HoldsStep(y, k) => x = y

(* "A later replay can never become a new business action after the        *)
(* instance moves to a state where the stale delivery WOULD transition":   *)
(* each move is made by a signal that was neither applied nor ignored, and *)
(* takes the transition of the state the instance is in.                   *)
MovesAreNew ==
  [][inst \notin {Nothing, inst'} =>
       \E s \in Signal : /\ signal[s] = "no" /\ signal'[s] = "transitioned"
                         /\ inst' = Transition[inst, Kind(s)]]_vars

(* "Closing the crash window between creation and intent recording": once  *)
(* the starting event's handler returned, the initial step is recorded,    *)
(* and the timeout it schedules exists as soon as the step is completed.   *)
StartedInFull ==
  /\ event[StartEvent] = "settled" => step[StepOf[StartEvent]].status # "none"
  /\ step[StepOf[StartEvent]].status = "completed" => action[Timeout].state # "none"

(* From the booked outcome to the follow-up, through the outbox, the       *)
(* instance, its step, the scheduler and the timeout's signal, whoever     *)
(* dies on the way.                                                        *)
FollowedUp == event[StartEvent] = "owed" ~> inst \notin {Nothing, Initial}

(* "Every due action is eventually executed (or expired)": or is out of    *)
(* attempts.  (FollowedUp says it of the timeout, and more.)               *)
ActionsSettle ==
  \A a \in Action \ {Timeout} :
    action[a].state = "pending" ~> action[a].state \in Settled \cup {"exhausted"}

=============================================================================
