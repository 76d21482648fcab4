--------------------------- MODULE Workflow_proofs ---------------------------
(***************************************************************************)
(* Proofs about the scheduler and the workflow engine over it: for any     *)
(* actions, steps, events, definition and number of executors.  For a      *)
(* definition whose initial state no event leaves: a start is settled in   *)
(* full (StartInv).                                                        *)
(***************************************************************************)
EXTENDS Workflow, TLAPS

-----------------------------------------------------------------------------
(* Type correctness of the scheduler *)

ActionState == {"none", "pending", "processing", "failed", "exhausted",
                "completed", "cancelled", "expired"}

LEMMA SetStateType ==
  ASSUME SchedulerTypeOK, NEW a \in Action, NEW st \in ActionState, SetState(a, st)
  PROVE  action' \in [Action -> ActionRow]
<1>1. [state |-> st, tries |-> action[a].tries, ripe |-> FALSE] \in ActionRow
  BY DEF SchedulerTypeOK, ActionRow, ActionState
<1> QED
  BY <1>1 DEF SetState, SetAction, SchedulerTypeOK

LEMMA StepToType ==
  ASSUME SchedulerTypeOK, NEW x \in Executor,
         NEW pc \in {"idle", "list", "walk", "handle", "complete", "fail"}, StepTo(x, pc)
  PROVE  drain' \in [Executor -> DrainRow]
<1>1. [drain[x] EXCEPT !.pc = pc] \in DrainRow
  BY DEF SchedulerTypeOK, DrainRow
<1> QED
  BY <1>1 DEF StepTo, SetDrain, SchedulerTypeOK

LEMMA NoDrainType == NoDrain \in DrainRow
BY DEF NoDrain, DrainRow

LEMMA WalksType ==
  ASSUME SchedulerTypeOK, NEW x \in Executor, Walks(x)
  PROVE  drain' \in [Executor -> DrainRow]
<1>1. [pc |-> "walk", todo |-> drain[x].todo, got |-> Nothing, tries |-> 0] \in DrainRow
  BY DEF SchedulerTypeOK, DrainRow
<1> QED
  BY <1>1 DEF Walks, SetDrain, SchedulerTypeOK

(* An executor between a claim and its settlement has an action; one at    *)
(* rest has nothing.                                                       *)
RowHolds(r) ==
  /\ r.pc \in {"handle", "complete", "fail"} => r.got \in Action
  /\ r.pc = "idle" => r = NoDrain

Holding == \A x \in Executor : RowHolds(drain[x])

LEMMA MishapType == ASSUME SchedulerTypeOK, Mishap PROVE mishaps' \in 0 .. MishapLimit
BY SchedulerAssumption DEF SchedulerTypeOK, Mishap

(* What goes wrong may go wrong outside the scheduler. *)
MishapElsewhere == Mishap /\ UNCHANGED <<action, over, drain>>

SchedulerMoves == SchedulerNext \/ MishapElsewhere

LEMMA SchedulerStepType ==
  ASSUME SchedulerTypeOK, Holding, [SchedulerMoves]_schedulerVars
  PROVE  SchedulerTypeOK'
<1> USE SchedulerAssumption
<1>1. ASSUME NEW a \in Action, Schedule(a) PROVE SchedulerTypeOK'
  BY <1>1, SetStateType DEF Schedule, ScheduleOnce, SchedulerTypeOK, ActionState
<1>2. ASSUME NEW a \in Action, Withdraw(a) PROVE SchedulerTypeOK'
  BY <1>2, SetStateType DEF Withdraw, SchedulerTypeOK, ActionState
<1>3. ASSUME NEW x \in Executor, DrainBegins(x) PROVE SchedulerTypeOK'
  <2>1. \A a \in Action :
          [state |-> "expired", tries |-> action[a].tries, ripe |-> FALSE] \in ActionRow
    BY DEF SchedulerTypeOK, ActionRow
  <2>2. action' \in [Action -> ActionRow]
    BY <1>3, <2>1 DEF DrainBegins, SchedulerTypeOK
  <2> QED
    BY <1>3, <2>2, StepToType DEF DrainBegins, SchedulerTypeOK
<1>4. ASSUME NEW x \in Executor, List(x) PROVE SchedulerTypeOK'
  <2>1. [drain[x] EXCEPT !.pc = "walk", !.todo = {a \in Action : Claimable(a)}] \in DrainRow
    BY DEF SchedulerTypeOK, DrainRow
  <2> QED
    BY <1>4, <2>1 DEF List, SetDrain, SchedulerTypeOK
<1>5. ASSUME NEW x \in Executor, DrainEnds(x) PROVE SchedulerTypeOK'
  BY <1>5, NoDrainType DEF DrainEnds, SetDrain, SchedulerTypeOK
<1>6. ASSUME NEW x \in Executor, Complete(x) PROVE SchedulerTypeOK'
  <2>1. drain[x].got \in Action
    BY <1>6 DEF Complete, Draining, Holding, RowHolds
  <2> QED
    BY <1>6, <2>1, SetStateType, WalksType DEF Complete, SchedulerTypeOK, ActionState
<1>7. ASSUME NEW x \in Executor, Fail(x) PROVE SchedulerTypeOK'
  <2>1. drain[x].got \in Action
    BY <1>7 DEF Fail, Draining, Holding, RowHolds
  <2>2. PICK st \in ActionState : SetState(drain[x].got, st)
    BY <1>7 DEF Fail, ActionState
  <2> QED
    BY <1>7, <2>1, <2>2, SetStateType, WalksType DEF Fail, SchedulerTypeOK
<1>8. ASSUME NEW x \in Executor, NEW a \in drain[x].todo, Claim(x, a) PROVE SchedulerTypeOK'
  <2>1. a \in Action /\ drain[x].todo \ {a} \subseteq Action /\ action[a].tries + 1 \in Nat
    BY <1>8 DEF SchedulerTypeOK, DrainRow, ActionRow
  <2>2. [state |-> "processing", tries |-> action[a].tries + 1, ripe |-> FALSE] \in ActionRow
    BY <2>1 DEF ActionRow
  <2>3. [pc |-> "handle", todo |-> drain[x].todo \ {a}, got |-> a,
         tries |-> action[a].tries + 1] \in DrainRow
    BY <2>1 DEF DrainRow
  <2> QED
    BY <1>8, <2>1, <2>2, <2>3 DEF Claim, SetAction, SetDrain, SchedulerTypeOK
<1>9. ASSUME NEW x \in Executor, NEW a \in drain[x].todo, ClaimLost(x, a)
      PROVE  SchedulerTypeOK'
  <2>1. [drain[x] EXCEPT !.todo = drain[x].todo \ {a}] \in DrainRow
    BY DEF SchedulerTypeOK, DrainRow
  <2> QED
    BY <1>9, <2>1 DEF ClaimLost, SetDrain, SchedulerTypeOK
<1>10. ASSUME NEW x \in Executor, HandlerReturns(x) \/ HandlerThrows(x) PROVE SchedulerTypeOK'
  BY <1>10, StepToType DEF HandlerReturns, HandlerThrows, SchedulerTypeOK
<1>11. ASSUME NEW x \in Executor, DrainDies(x) PROVE SchedulerTypeOK'
  BY <1>11, NoDrainType, MishapType DEF DrainDies, SetDrain, SchedulerTypeOK
<1>12. ASSUME NEW x \in Executor, HandlerFails(x) PROVE SchedulerTypeOK'
  BY <1>12, StepToType, MishapType DEF HandlerFails, SchedulerTypeOK
<1>16. ASSUME NEW x \in Executor, CompletionUnanswered(x) PROVE SchedulerTypeOK'
  <2>1. drain[x].got \in Action
    BY <1>16 DEF CompletionUnanswered, Draining, Holding, RowHolds
  <2>2. action' \in [Action -> ActionRow]
    BY <1>16, <2>1, SetStateType DEF CompletionUnanswered, ActionState
  <2> QED
    BY <1>16, <2>2, StepToType, MishapType DEF CompletionUnanswered, SchedulerTypeOK
<1>13. ASSUME NEW a \in Action, Ripens(a) PROVE SchedulerTypeOK'
  <2>1. [action[a] EXCEPT !.ripe = TRUE] \in ActionRow
    BY DEF SchedulerTypeOK, ActionRow
  <2> QED
    BY <1>13, <2>1 DEF Ripens, SetAction, SchedulerTypeOK
<1>14. ASSUME NEW a \in Action, GoesStale(a) PROVE SchedulerTypeOK'
  BY <1>14 DEF GoesStale, SchedulerTypeOK
<1>15. CASE MishapElsewhere \/ UNCHANGED schedulerVars
  BY <1>15, MishapType DEF MishapElsewhere, schedulerVars, SchedulerTypeOK
<1> QED
  BY <1>1, <1>2, <1>3, <1>4, <1>5, <1>6, <1>7, <1>8, <1>9, <1>10, <1>11, <1>12, <1>13,
     <1>14, <1>15, <1>16 DEF SchedulerMoves, SchedulerNext, DrainStep, SchedulerTime

(* One executor's drain moves, and the others keep theirs. *)
LEMMA OneDrain ==
  ASSUME SchedulerTypeOK, Holding, NEW x \in Executor, NEW r, SetDrain(x, r), RowHolds(r)
  PROVE  Holding'
BY DEF SetDrain, SchedulerTypeOK, Holding

LEMMA StepHolds ==
  ASSUME SchedulerTypeOK, Holding, NEW x \in Executor, NEW pc, StepTo(x, pc), pc # "idle",
         drain[x].pc \in {"handle", "complete", "fail"} \/ pc \in {"list", "walk"}
  PROVE  Holding'
<1>1. RowHolds([drain[x] EXCEPT !.pc = pc])
  BY DEF SchedulerTypeOK, DrainRow, Holding, RowHolds
<1> QED
  BY <1>1, OneDrain DEF StepTo

LEMMA NoDrainHolds == RowHolds(NoDrain)
BY DEF RowHolds, NoDrain

LEMMA WalksHolds ==
  ASSUME SchedulerTypeOK, Holding, NEW x \in Executor, Walks(x)
  PROVE  Holding'
<1>1. RowHolds([pc |-> "walk", todo |-> drain[x].todo, got |-> Nothing, tries |-> 0])
  BY DEF RowHolds
<1> QED
  BY <1>1, OneDrain DEF Walks

LEMMA SchedulerHolds ==
  ASSUME SchedulerTypeOK, Holding, [SchedulerMoves]_schedulerVars
  PROVE  Holding'
<1>1. CASE UNCHANGED drain
  BY <1>1 DEF Holding
<1>2. ASSUME NEW x \in Executor, DrainBegins(x) PROVE Holding'
  BY <1>2, StepHolds DEF DrainBegins
<1>3. ASSUME NEW x \in Executor, List(x) PROVE Holding'
  <2>1. RowHolds([drain[x] EXCEPT !.pc = "walk", !.todo = {a \in Action : Claimable(a)}])
    BY DEF SchedulerTypeOK, DrainRow, RowHolds
  <2> QED
    BY <1>3, <2>1, OneDrain DEF List
<1>4. ASSUME NEW x \in Executor, DrainEnds(x) \/ DrainDies(x) PROVE Holding'
  BY <1>4, NoDrainHolds, OneDrain DEF DrainEnds, DrainDies
<1>5. ASSUME NEW x \in Executor, Complete(x) \/ Fail(x) PROVE Holding'
  BY <1>5, WalksHolds DEF Complete, Fail
<1>6. ASSUME NEW x \in Executor, NEW a \in drain[x].todo, Claim(x, a) PROVE Holding'
  <2>1. a \in Action
    BY DEF SchedulerTypeOK, DrainRow
  <2>2. RowHolds([pc |-> "handle", todo |-> drain[x].todo \ {a}, got |-> a,
                  tries |-> action[a].tries + 1])
    BY <2>1 DEF RowHolds
  <2> QED
    BY <1>6, <2>2, OneDrain DEF Claim
<1>7. ASSUME NEW x \in Executor, NEW a \in drain[x].todo, ClaimLost(x, a) PROVE Holding'
  <2>1. RowHolds([drain[x] EXCEPT !.todo = drain[x].todo \ {a}])
    BY <1>7 DEF ClaimLost, Draining, SchedulerTypeOK, DrainRow, RowHolds
  <2> QED
    BY <1>7, <2>1, OneDrain DEF ClaimLost
<1>8. ASSUME NEW x \in Executor,
             HandlerReturns(x) \/ HandlerThrows(x) \/ HandlerFails(x) \/ CompletionUnanswered(x)
      PROVE  Holding'
  BY <1>8, StepHolds DEF HandlerReturns, HandlerThrows, HandlerFails, CompletionUnanswered, Draining
<1> QED
  BY <1>1, <1>2, <1>3, <1>4, <1>5, <1>6, <1>7, <1>8
  DEF SchedulerMoves, SchedulerNext, DrainStep, SchedulerTime, Schedule, Withdraw, Ripens,
      GoesStale, MishapElsewhere, schedulerVars

-----------------------------------------------------------------------------
(* The inductive invariant of the scheduler.  An executor at work holds an *)
(* action that no other one holds, whose claim nobody on time can lose:    *)
(* a row in hand is never ripe, though a cancellation, an expiry or its    *)
(* own unanswered completion may have settled it, and it is claimed only   *)
(* when ripe.                                                              *)
InHand(x, a) ==
  Handling(x, a) => /\ ~action[a].ripe
                    /\ action[a].state \in {"processing", "completed", "cancelled", "expired"}

Exclusive == OneExecutor /\ \A x \in Executor, a \in Action : InHand(x, a)

SchedulerInv == SchedulerTypeOK /\ Holding /\ (Timely => Exclusive)

LEMMA SchedulerInvInit == SchedulerInit => SchedulerInv
<1> SUFFICES ASSUME SchedulerInit PROVE SchedulerInv
  OBVIOUS
<1>1. Unscheduled \in ActionRow
  BY DEF Unscheduled, ActionRow
<1>2. SchedulerTypeOK
  BY <1>1, NoDrainType, SchedulerAssumption DEF SchedulerInit, SchedulerTypeOK
<1>3. \A x \in Executor : drain[x] = NoDrain /\ drain[x].pc = "idle"
  BY DEF SchedulerInit, NoDrain
<1>4. Holding
  BY <1>3, NoDrainHolds DEF Holding
<1>5. Exclusive
  BY <1>3 DEF Exclusive, OneExecutor, InHand, Handling
<1> QED
  BY <1>2, <1>4, <1>5 DEF SchedulerInv

(* Whoever moves, no row in hand ripens, is claimed again or is rewritten  *)
(* by anybody but its holder, a cancellation and an expiry.                *)
LEMMA StaysExclusive ==
  ASSUME SchedulerTypeOK, Holding, Exclusive, Timely, [SchedulerMoves]_schedulerVars
  PROVE  Exclusive'
<1> USE DEF Exclusive, OneExecutor, InHand, Handling, Draining, SchedulerTypeOK, DrainRow, ActionRow
<1>1. ASSUME NEW a \in Action, Schedule(a) PROVE Exclusive'
  BY <1>1 DEF Schedule, ScheduleOnce, SetState, SetAction
<1>2. ASSUME NEW a \in Action, Withdraw(a) PROVE Exclusive'
  BY <1>2 DEF Withdraw, SetState, SetAction
<1>3. ASSUME NEW x \in Executor, DrainBegins(x) PROVE Exclusive'
  BY <1>3 DEF DrainBegins, StepTo, SetDrain
<1>4. ASSUME NEW x \in Executor, List(x) PROVE Exclusive'
  BY <1>4 DEF List, SetDrain
<1>5. ASSUME NEW x \in Executor, DrainEnds(x) PROVE Exclusive'
  BY <1>5 DEF DrainEnds, SetDrain, NoDrain
<1>6. ASSUME NEW x \in Executor, Complete(x) PROVE Exclusive'
  BY <1>6 DEF Complete, SetState, SetAction, Walks, SetDrain, Holding, RowHolds
<1>7. ASSUME NEW x \in Executor, Fail(x) PROVE Exclusive'
  BY <1>7 DEF Fail, SetState, SetAction, Walks, SetDrain, Holding, RowHolds
<1>8. ASSUME NEW x \in Executor, NEW b \in drain[x].todo, Claim(x, b) PROVE Exclusive'
  BY <1>8 DEF Claim, Claimable, SetAction, SetDrain
<1>9. ASSUME NEW x \in Executor, NEW b \in drain[x].todo, ClaimLost(x, b) PROVE Exclusive'
  BY <1>9 DEF ClaimLost, SetDrain
<1>10. ASSUME NEW x \in Executor, HandlerReturns(x) PROVE Exclusive'
  BY <1>10 DEF HandlerReturns, StepTo, SetDrain
<1>11. ASSUME NEW x \in Executor, HandlerThrows(x) PROVE Exclusive'
  BY <1>11 DEF HandlerThrows, StepTo, SetDrain
<1>12. ASSUME NEW x \in Executor, DrainDies(x) PROVE Exclusive'
  BY <1>12 DEF DrainDies, SetDrain, NoDrain
<1>13. ASSUME NEW x \in Executor, HandlerFails(x) PROVE Exclusive'
  BY <1>13 DEF HandlerFails, StepTo, SetDrain
<1>16. ASSUME NEW x \in Executor, CompletionUnanswered(x) PROVE Exclusive'
  BY <1>16 DEF CompletionUnanswered, SetState, SetAction, StepTo, SetDrain, Holding, RowHolds
<1>14. ASSUME NEW a \in Action, Ripens(a) PROVE Exclusive'
  BY <1>14 DEF Ripens, SetAction
<1>15. CASE UNCHANGED <<action, drain>>
  BY <1>15
<1> HIDE DEF Exclusive
<1> QED
  BY <1>1, <1>2, <1>3, <1>4, <1>5, <1>6, <1>7, <1>8, <1>9, <1>10, <1>11, <1>12, <1>13,
     <1>14, <1>15, <1>16
  DEF SchedulerMoves, SchedulerNext, DrainStep, SchedulerTime, GoesStale, MishapElsewhere,
      schedulerVars

LEMMA SchedulerInvStep ==
  ASSUME SchedulerInv, [SchedulerMoves]_schedulerVars
  PROVE  SchedulerInv'
BY SchedulerStepType, SchedulerHolds, StaysExclusive DEF SchedulerInv

-----------------------------------------------------------------------------
(* The engine's jobs.  What a job holds, by where it is.                    *)
JobHolds(r) ==
  /\ r.pc = "idle" => r = NoJob
  /\ r.pc \in {"create", "read", "apply"} => r.for \in Signal
  /\ r.pc = "apply" => r.seen \in State
  /\ r.pc \notin {"execute", "mark", "failed"} => r.todo = {}
  /\ r.pc \in {"mark", "failed"} => r.hand \in Step \ r.todo
  /\ r.pc \notin {"mark", "failed"} => r.hand = Nothing

JobsHold == \A x \in Executor : JobHolds(job[x])

(* One executor's job moves, and the others keep theirs. *)
LEMMA OneJob ==
  ASSUME job \in [Executor -> Job], JobsHold,
         NEW x \in Executor, NEW r \in Job, JobHolds(r), SetJob(x, r)
  PROVE  job' \in [Executor -> Job] /\ JobsHold'
BY DEF SetJob, JobsHold

LEMMA NoJobHolds == NoJob \in Job /\ JobHolds(NoJob)
BY DEF NoJob, Job, JobHolds

LEMMA SignalFacts ==
  /\ Event \subseteq Signal /\ StartEvent \in Signal /\ Timeout \in Signal
  /\ Timeout \in Action /\ Timeout \notin Event /\ Timeout # Nothing
  /\ Nothing \notin Step /\ Nothing \notin State
BY WorkflowAssumption, SchedulerAssumption DEF Signal, Step

LEMMA ReturnsJob ==
  ASSUME job \in [Executor -> Job], JobsHold, NEW x \in Executor, Returns(x)
  PROVE  job' \in [Executor -> Job] /\ JobsHold'
BY NoJobHolds, OneJob DEF Returns

(* From one place to another with nothing taken or left. *)
LEMMA JobToHolds ==
  ASSUME job \in [Executor -> Job], JobsHold, NEW x \in Executor,
         job[x].pc \in {"idle", "apply"}, NEW pc \in {"claim", "execute"}, JobTo(x, pc)
  PROVE  job' \in [Executor -> Job] /\ JobsHold'
<1>1. [job[x] EXCEPT !.pc = pc] \in Job /\ JobHolds([job[x] EXCEPT !.pc = pc])
  BY DEF Job, JobsHold, JobHolds
<1> QED
  BY <1>1, OneJob DEF JobTo

(* Out of the batch, into the hand. *)
LEMMA HandHolds ==
  ASSUME job \in [Executor -> Job], JobsHold, NEW x \in Executor,
         NEW k \in Step, k \in job[x].todo \/ k = job[x].hand,
         NEW pc \in {"mark", "failed"},
         SetJob(x, [job[x] EXCEPT !.pc = pc, !.hand = k, !.todo = job[x].todo \ {k}])
  PROVE  job' \in [Executor -> Job] /\ JobsHold'
<1> DEFINE r == [job[x] EXCEPT !.pc = pc, !.hand = k, !.todo = job[x].todo \ {k}]
<1>1. r \in Job
  BY DEF Job
<1>2. r.pc = pc /\ r.hand = k /\ r.todo = job[x].todo \ {k}
  BY DEF Job
<1>3. JobHolds(r)
  BY <1>2 DEF JobHolds
<1> HIDE DEF r
<1> QED
  BY <1>1, <1>3, OneJob DEF r

LEMMA ExecutesHolds ==
  ASSUME job \in [Executor -> Job], JobsHold, NEW x \in Executor, Executes(x)
  PROVE  job' \in [Executor -> Job] /\ JobsHold'
<1> DEFINE r == [job[x] EXCEPT !.pc = "execute", !.hand = Nothing]
<1>1. r \in Job /\ r.pc = "execute" /\ r.hand = Nothing
  BY DEF Job
<1>2. JobHolds(r)
  BY <1>1 DEF JobHolds
<1> HIDE DEF r
<1> QED
  BY <1>1, <1>2, OneJob DEF Executes, r

LEMMA JobsStep ==
  ASSUME WorkflowTypeOK, JobsHold, [Next]_vars
  PROVE  job' \in [Executor -> Job] /\ JobsHold'
<1>0. job \in [Executor -> Job] /\ \A x \in Executor : job[x].todo \subseteq Step
  BY DEF WorkflowTypeOK, Job
<1>1. CASE UNCHANGED job
  BY <1>0, <1>1 DEF JobsHold
<1>2. ASSUME NEW x \in Executor, NEW e \in Event, Deliver(x, e)
      PROVE  job' \in [Executor -> Job] /\ JobsHold'
  <2> DEFINE r == [NoJob EXCEPT !.pc = IF e = StartEvent THEN "create" ELSE "read", !.for = e]
  <2>1. r \in Job /\ JobHolds(r)
    BY SignalFacts DEF NoJob, Job, JobHolds
  <2> HIDE DEF r
  <2> QED
    BY <1>0, <2>1, <1>2, OneJob DEF Deliver, r
<1>3. ASSUME NEW x \in Executor, CreateInstance(x)
      PROVE  job' \in [Executor -> Job] /\ JobsHold'
  <2> DEFINE r == [job[x] EXCEPT !.pc = "apply", !.seen = inst']
  <2>1. inst' \in State
    BY <1>3, WorkflowAssumption DEF CreateInstance, WorkflowTypeOK
  <2>2. r \in Job /\ JobHolds(r)
    BY <1>0, <1>3, <2>1 DEF CreateInstance, Working, Job, JobHolds, JobsHold
  <2> HIDE DEF r
  <2> QED
    BY <1>0, <2>2, <1>3, OneJob DEF CreateInstance, r
<1>4. ASSUME NEW x \in Executor, HandleTimeout(x)
      PROVE  job' \in [Executor -> Job] /\ JobsHold'
  <2>1. /\ [NoJob EXCEPT !.pc = "read", !.for = Timeout] \in Job
        /\ JobHolds([NoJob EXCEPT !.pc = "read", !.for = Timeout])
    BY SignalFacts DEF NoJob, Job, JobHolds
  <2> QED
    BY <1>0, <2>1, <1>4, OneJob DEF HandleTimeout
<1>5. ASSUME NEW x \in Executor, ReadInstance(x)
      PROVE  job' \in [Executor -> Job] /\ JobsHold'
  <2>1. CASE Returns(x)
    BY <1>0, <2>1, ReturnsJob
  <2>2. ASSUME inst # Nothing, SetJob(x, [job[x] EXCEPT !.pc = "apply", !.seen = inst])
        PROVE  job' \in [Executor -> Job] /\ JobsHold'
    <3>1. /\ [job[x] EXCEPT !.pc = "apply", !.seen = inst] \in Job
          /\ JobHolds([job[x] EXCEPT !.pc = "apply", !.seen = inst])
      BY <1>0, <1>5, <2>2 DEF ReadInstance, Working, Job, JobHolds, JobsHold, WorkflowTypeOK
    <3> QED
      BY <1>0, <2>2, <3>1, OneJob
  <2> QED
    BY <1>5, <2>1, <2>2 DEF ReadInstance
<1>6. ASSUME NEW x \in Executor, Apply(x)
      PROVE  job' \in [Executor -> Job] /\ JobsHold'
  <2>1. CASE LoseOrRepeat(x)
    BY <1>0, <2>1, ReturnsJob DEF LoseOrRepeat
  <2>2. CASE Ignore(x) \/ Start(x) \/ Move(x)
    BY <1>0, <2>2, JobToHolds DEF Ignore, Start, Move, Working
  <2> QED
    BY <1>6, <2>1, <2>2 DEF Apply
<1>7. ASSUME NEW x \in Executor, PollSteps(x)
      PROVE  job' \in [Executor -> Job] /\ JobsHold'
  BY <1>0, <1>7, JobToHolds DEF PollSteps, Free, Working
<1>8. ASSUME NEW x \in Executor, ClaimSteps(x)
      PROVE  job' \in [Executor -> Job] /\ JobsHold'
  <2> DEFINE r == [job[x] EXCEPT !.pc = "execute", !.todo = {k \in Step : ClaimableStep(k)}]
  <2>1. r \in Job /\ r.pc = "execute" /\ r.hand = job[x].hand
    BY <1>0 DEF Job
  <2>2. JobHolds(r)
    BY <1>8, <2>1 DEF ClaimSteps, Working, JobHolds, JobsHold
  <2> HIDE DEF r
  <2> QED
    BY <1>0, <1>8, <2>1, <2>2, OneJob DEF ClaimSteps, r
<1>9. ASSUME NEW x \in Executor, NEW k \in job[x].todo, Execute(x, k) \/ NotifyFails(x, k)
      PROVE  job' \in [Executor -> Job] /\ JobsHold'
  BY <1>0, <1>9, HandHolds DEF Execute, NotifyFails
<1>10. ASSUME NEW x \in Executor, MarkCompleted(x) \/ MarkFailed(x)
       PROVE  job' \in [Executor -> Job] /\ JobsHold'
  BY <1>0, <1>10, ExecutesHolds DEF MarkCompleted, MarkFailed
<1>11. ASSUME NEW x \in Executor, StepsDone(x)
       PROVE  job' \in [Executor -> Job] /\ JobsHold'
  BY <1>0, <1>11, ReturnsJob DEF StepsDone
<1>12. ASSUME NEW x \in Executor, NEW k \in Step, StepThrows(x, k)
       PROVE  job' \in [Executor -> Job] /\ JobsHold'
  BY <1>0, <1>12, HandHolds DEF StepThrows
<1>13. ASSUME NEW x \in Executor, HandlerAborts(x) \/ WorkerDies(x)
       PROVE  job' \in [Executor -> Job] /\ JobsHold'
  BY <1>0, <1>13, NoJobHolds, OneJob DEF HandlerAborts, WorkerDies
<1> QED
  BY <1>1, <1>2, <1>3, <1>4, <1>5, <1>6, <1>7, <1>8, <1>9, <1>10, <1>11, <1>12, <1>13
  DEF Next, Publish, Producers, Handler, SchedulerStep, Time, StepRipens, HeldRipens,
      workflowVars, vars

-----------------------------------------------------------------------------
(* A timeout's job is the handler of a drain that has the timeout in hand:  *)
(* so whatever the engine does to the scheduler is one of its steps.        *)
Coupled ==
  \A x \in Executor : job[x].for = Timeout => Draining(x, "handle") /\ drain[x].got = Timeout

LEMMA WithinScheduler ==
  ASSUME WorkflowTypeOK, Holding, Coupled, [Next]_vars
  PROVE  [SchedulerMoves]_schedulerVars
<1> USE SignalFacts
<1>1. ASSUME NEW x \in Executor, Returns(x) PROVE [SchedulerMoves]_schedulerVars
  BY <1>1 DEF Returns, SchedulerMoves, SchedulerNext
<1>2. ASSUME NEW x \in Executor, NEW k \in job[x].todo, Execute(x, k)
      PROVE  [SchedulerMoves]_schedulerVars
  <2>1. CASE UNCHANGED action
    BY <1>2, <2>1 DEF Execute, schedulerVars
  <2>2. CASE Schedule(Timeout)
    BY <2>2 DEF SchedulerMoves, SchedulerNext
  <2> QED
    BY <1>2, <2>1, <2>2 DEF Execute, ScheduleOnce, Schedule
<1>3. ASSUME NEW x \in Executor, HandlerAborts(x) PROVE [SchedulerMoves]_schedulerVars
  <2>1. CASE job[x].for = Timeout
    <3>1. HandlerFails(x)
      BY <1>3, <2>1 DEF HandlerAborts, HandlerFails, Coupled, Draining
    <3> QED
      BY <3>1 DEF SchedulerMoves, SchedulerNext
  <2>2. CASE job[x].for # Timeout
    BY <1>3, <2>2 DEF HandlerAborts, SchedulerMoves, MishapElsewhere
  <2> QED
    BY <2>1, <2>2
<1>4. ASSUME NEW x \in Executor, WorkerDies(x) PROVE [SchedulerMoves]_schedulerVars
  <2>1. CASE Draining(x, "idle")
    <3>1. drain' = drain
      BY <1>4, <2>1 DEF WorkerDies, SetDrain, Draining, Holding, RowHolds, WorkflowTypeOK,
                        SchedulerTypeOK
    <3> QED
      BY <1>4, <3>1 DEF WorkerDies, SchedulerMoves, MishapElsewhere
  <2>2. CASE ~Draining(x, "idle")
    <3>1. DrainDies(x)
      BY <1>4, <2>2 DEF WorkerDies, DrainDies
    <3> QED
      BY <3>1 DEF SchedulerMoves, SchedulerNext
  <2> QED
    BY <2>1, <2>2
<1>5. ASSUME NEW x \in Executor, SchedulerStep(x) PROVE [SchedulerMoves]_schedulerVars
  BY <1>5 DEF SchedulerStep, SchedulerMoves, SchedulerNext
<1>6. CASE Producers \/ SchedulerTime
  BY <1>6 DEF Producers, SchedulerMoves, SchedulerNext
<1>7. ASSUME NEW x \in Executor, NEW k \in Step, StepThrows(x, k)
      PROVE  [SchedulerMoves]_schedulerVars
  BY <1>7 DEF StepThrows, SchedulerMoves, MishapElsewhere
<1>8. CASE UNCHANGED schedulerVars
  BY <1>8
<1>9. ASSUME NEW x \in Executor, ReadInstance(x) \/ LoseOrRepeat(x) \/ StepsDone(x)
      PROVE  [SchedulerMoves]_schedulerVars
  BY <1>1, <1>8, <1>9 DEF ReadInstance, LoseOrRepeat, StepsDone
<1>10. ASSUME NEW x \in Executor, NEW k \in job[x].todo, Execute(x, k) \/ NotifyFails(x, k)
       PROVE  [SchedulerMoves]_schedulerVars
  BY <1>2, <1>8, <1>10 DEF NotifyFails
<1>11. ASSUME NEW x \in Executor, Handler(x) PROVE [SchedulerMoves]_schedulerVars
  BY <1>8, <1>9, <1>10, <1>11
  DEF Handler, Apply, CreateInstance, HandleTimeout, Ignore, Start, Move, ClaimSteps,
      MarkCompleted, MarkFailed
<1> QED
  BY <1>3, <1>4, <1>5, <1>6, <1>7, <1>8, <1>11
  DEF Next, Publish, Deliver, PollSteps, Time, StepRipens, HeldRipens, vars

(* What a job is for stays while it works. *)
LEMMA ForStays ==
  ASSUME job \in [Executor -> Job], NEW x \in Executor,
         NEW pc, NEW seen, NEW todo, NEW hand,
         \/ SetJob(x, [job[x] EXCEPT !.pc = pc, !.seen = seen])
         \/ SetJob(x, [job[x] EXCEPT !.pc = pc, !.todo = todo])
         \/ SetJob(x, [job[x] EXCEPT !.pc = pc, !.hand = hand])
         \/ SetJob(x, [job[x] EXCEPT !.pc = pc, !.hand = hand, !.todo = todo])
  PROVE  job'[x].for = job[x].for /\ \A y \in Executor \ {x} : job'[y] = job[y]
BY DEF SetJob, Job

LEMMA CoupledStep ==
  ASSUME WorkflowTypeOK, JobsHold, Coupled, [Next]_vars
  PROVE  Coupled'
<1> USE SignalFacts DEF Coupled, Draining
<1>0. job \in [Executor -> Job] /\ drain \in [Executor -> DrainRow]
  BY DEF WorkflowTypeOK, SchedulerTypeOK
<1>1. ASSUME UNCHANGED <<job, drain>> PROVE Coupled'
  BY <1>1
<1>2. ASSUME NEW x \in Executor, job'[x].for # Timeout,
             \A y \in Executor \ {x} : job'[y] = job[y] /\ drain'[y] = drain[y]
      PROVE  Coupled'
  BY <1>2
<1>3. ASSUME NEW x \in Executor, job'[x].for = job[x].for, drain' = drain,
             \A y \in Executor \ {x} : job'[y] = job[y]
      PROVE  Coupled'
  BY <1>3
<1>4. ASSUME NEW x \in Executor, SchedulerStep(x) PROVE Coupled'
  <2>1. job' = job /\ job[x].for # Timeout
    BY <1>4
    DEF SchedulerStep, workflowVars, Free, DrainBegins, DrainStep, List, DrainEnds, Complete,
        Fail, Claim, ClaimLost, HandlerReturns, HandlerThrows
  <2>2. \A y \in Executor \ {x} : drain'[y] = drain[y]
    BY <1>0, <1>4
    DEF SchedulerStep, DrainBegins, DrainStep, List, DrainEnds, Complete, Fail, Claim, ClaimLost,
        HandlerReturns, HandlerThrows, HandlerFails, CompletionUnanswered, StepTo, SetDrain, Walks
  <2> QED
    BY <1>2, <2>1, <2>2
<1>5. ASSUME NEW x \in Executor, Returns(x) PROVE Coupled'
  <2>1. job'[x].for # Timeout /\ \A y \in Executor \ {x} : job'[y] = job[y]
    BY <1>0, <1>5 DEF Returns, SetJob, NoJob
  <2>2. \A y \in Executor \ {x} : drain'[y] = drain[y]
    BY <1>0, <1>5 DEF Returns, HandlerReturns, StepTo, SetDrain, schedulerVars
  <2> QED
    BY <1>2, <2>1, <2>2
<1>6. ASSUME NEW x \in Executor, HandlerAborts(x) \/ WorkerDies(x) PROVE Coupled'
  <2>1. job'[x].for # Timeout /\ \A y \in Executor \ {x} : job'[y] = job[y]
    BY <1>0, <1>6 DEF HandlerAborts, WorkerDies, SetJob, NoJob
  <2>2. \A y \in Executor \ {x} : drain'[y] = drain[y]
    BY <1>0, <1>6 DEF HandlerAborts, WorkerDies, StepTo, SetDrain
  <2> QED
    BY <1>2, <2>1, <2>2
<1>7. ASSUME NEW x \in Executor, NEW e \in Event, Deliver(x, e) PROVE Coupled'
  <2>1. job'[x].for # Timeout /\ \A y \in Executor \ {x} : job'[y] = job[y]
    BY <1>0, <1>7 DEF Deliver, SetJob, NoJob
  <2> QED
    BY <1>2, <1>7, <2>1 DEF Deliver, schedulerVars
<1>8. ASSUME NEW x \in Executor, HandleTimeout(x) PROVE Coupled'
  BY <1>0, <1>8 DEF HandleTimeout, SetJob, schedulerVars
<1>9. ASSUME NEW x \in Executor, ReadInstance(x) PROVE Coupled'
  <2>1. CASE Returns(x)
    BY <1>5, <2>1
  <2>2. ASSUME SetJob(x, [job[x] EXCEPT !.pc = "apply", !.seen = inst]), UNCHANGED schedulerVars
        PROVE  Coupled'
    BY <1>0, <1>3, <2>2 DEF SetJob, Job, schedulerVars
  <2> QED
    BY <1>9, <2>1, <2>2 DEF ReadInstance
<1>10. ASSUME NEW x \in Executor, Ignore(x) \/ Start(x) \/ Move(x) \/ PollSteps(x) PROVE Coupled'
  <2>1. PICK pc \in {"claim", "execute"} : JobTo(x, pc)
    BY <1>10 DEF Ignore, Start, Move, PollSteps
  <2>2. job'[x].for = job[x].for /\ \A y \in Executor \ {x} : job'[y] = job[y]
    BY <1>0, <2>1 DEF JobTo, SetJob, Job
  <2>3. drain' = drain
    BY <1>10 DEF Ignore, Start, Move, PollSteps, schedulerVars
  <2> QED
    BY <1>3, <2>2, <2>3
<1>11. ASSUME NEW x \in Executor,
              CreateInstance(x) \/ ClaimSteps(x) \/ MarkCompleted(x) \/ MarkFailed(x)
       PROVE  Coupled'
  <2>1. job'[x].for = job[x].for /\ \A y \in Executor \ {x} : job'[y] = job[y]
    <3>1. CASE CreateInstance(x)
      BY <1>0, <3>1, ForStays DEF CreateInstance
    <3>2. CASE ClaimSteps(x)
      <4> DEFINE S == {k \in Step : ClaimableStep(k)}
      <4>1. SetJob(x, [job[x] EXCEPT !.pc = "execute", !.todo = S])
        BY <3>2 DEF ClaimSteps
      <4> HIDE DEF S
      <4> QED
        BY <1>0, <4>1, ForStays
    <3>3. CASE MarkCompleted(x) \/ MarkFailed(x)
      <4>1. Executes(x)
        BY <3>3 DEF MarkCompleted, MarkFailed
      <4> QED
        BY <1>0, <4>1, ForStays DEF Executes
    <3> QED
      BY <1>11, <3>1, <3>2, <3>3
  <2>2. drain' = drain
    BY <1>11 DEF CreateInstance, ClaimSteps, MarkCompleted, MarkFailed, schedulerVars
  <2> QED
    BY <1>3, <2>1, <2>2
<1>12. ASSUME NEW x \in Executor, NEW k, Execute(x, k) \/ NotifyFails(x, k) \/ StepThrows(x, k)
       PROVE  Coupled'
  <2>1. job'[x].for = job[x].for /\ \A y \in Executor \ {x} : job'[y] = job[y]
    BY <1>0, <1>12, ForStays DEF Execute, NotifyFails, StepThrows
  <2>2. drain' = drain
    BY <1>12 DEF Execute, NotifyFails, StepThrows, schedulerVars
  <2> QED
    BY <1>3, <2>1, <2>2
<1>13. ASSUME Producers PROVE Coupled'
  BY <1>1, <1>13 DEF Producers, Schedule, Withdraw, workflowVars
<1>14. ASSUME NEW x \in Executor, Handler(x) PROVE Coupled'
  BY <1>5, <1>8, <1>9, <1>10, <1>11, <1>12, <1>14
  DEF Handler, Apply, LoseOrRepeat, StepsDone
<1>15. ASSUME NEW e \in Event, Publish(e) PROVE Coupled'
  BY <1>1, <1>15 DEF Publish, schedulerVars
<1>16. ASSUME Time PROVE Coupled'
  BY <1>1, <1>16
  DEF Time, StepRipens, HeldRipens, SchedulerTime, Ripens, GoesStale, schedulerVars, workflowVars
<1>17. ASSUME UNCHANGED vars PROVE Coupled'
  BY <1>1, <1>17 DEF vars, schedulerVars, workflowVars
<1> HIDE SignalFacts DEF Coupled
<1> QED
  BY <1>4, <1>6, <1>7, <1>10, <1>12, <1>13, <1>14, <1>15, <1>16, <1>17 DEF Next

-----------------------------------------------------------------------------
(* Type correctness of the engine *)

LEMMA ReturnsEvent ==
  ASSUME WorkflowTypeOK, NEW x \in Executor, Returns(x)
  PROVE  event' \in [Event -> {"none", "owed", "held", "stale", "settled"}]
BY DEF Returns, WorkflowTypeOK

LEMMA EventType ==
  ASSUME WorkflowTypeOK, [Next]_vars
  PROVE  event' \in [Event -> {"none", "owed", "held", "stale", "settled"}]
<1>1. CASE UNCHANGED event
  BY <1>1 DEF WorkflowTypeOK
<1>2. ASSUME NEW e \in Event, NEW st \in {"owed", "held", "stale"},
             event' = [event EXCEPT ![e] = st]
      PROVE  event' \in [Event -> {"none", "owed", "held", "stale", "settled"}]
  BY <1>2 DEF WorkflowTypeOK
<1>3. ASSUME NEW x \in Executor, HandlerAborts(x)
      PROVE  event' \in [Event -> {"none", "owed", "held", "stale", "settled"}]
  BY <1>3 DEF HandlerAborts, WorkflowTypeOK
<1> QED
  BY <1>1, <1>2, <1>3, ReturnsEvent
  DEF Next, Publish, Producers, Deliver, PollSteps, Handler, CreateInstance, HandleTimeout,
      ReadInstance, Apply, LoseOrRepeat, Ignore, Start, Move, ClaimSteps, Execute, NotifyFails,
      MarkCompleted, MarkFailed, StepsDone, SchedulerStep, StepThrows, WorkerDies, Time,
      StepRipens, HeldRipens, workflowVars, vars

LEMMA InstanceType ==
  ASSUME WorkflowTypeOK, JobsHold, [Next]_vars
  PROVE  /\ inst' \in State \cup {Nothing}
         /\ signal' \in [Signal -> {"no", "transitioned", "ignored"}]
<1>0. \A x \in Executor : job[x].seen \in State \cup {Nothing}
  BY DEF WorkflowTypeOK, Job
<1>1. CASE UNCHANGED <<inst, signal>>
  BY <1>1 DEF WorkflowTypeOK
<1>2. ASSUME NEW x \in Executor, CreateInstance(x)
      PROVE  inst' \in State \cup {Nothing} /\ signal' = signal
  BY <1>2, WorkflowAssumption DEF CreateInstance, WorkflowTypeOK
<1>3. ASSUME NEW x \in Executor, Ignore(x) \/ Start(x)
      PROVE  inst' \in State \cup {Nothing}
  BY <1>0, <1>3 DEF Ignore, Start
<1>4. ASSUME NEW x \in Executor, Move(x)
      PROVE  inst' \in State
  <2>1. job[x].seen \in State
    BY <1>4 DEF Move, Working, JobsHold, JobHolds
  <2>2. Kind(job[x].for) \in {"event", "timeout"}
    BY DEF Kind
  <2>3. Transition[job[x].seen, Kind(job[x].for)] \in State \cup {Nothing}
    BY <2>1, <2>2, WorkflowAssumption
  <2> QED
    BY <1>4, <2>3 DEF Move
<1>5. ASSUME NEW x \in Executor, Ignore(x) \/ Start(x) \/ Move(x)
      PROVE  signal' \in [Signal -> {"no", "transitioned", "ignored"}]
  BY <1>5 DEF Ignore, Start, Move, WorkflowTypeOK
<1>6. signal \in [Signal -> {"no", "transitioned", "ignored"}]
  BY DEF WorkflowTypeOK
<1> QED
  BY <1>1, <1>2, <1>3, <1>4, <1>5, <1>6
  DEF Next, Publish, Producers, Deliver, PollSteps, Handler, HandleTimeout,
      ReadInstance, Apply, LoseOrRepeat, ClaimSteps, Execute, NotifyFails,
      MarkCompleted, MarkFailed, StepsDone, SchedulerStep, StepThrows, HandlerAborts,
      WorkerDies, Time, StepRipens, HeldRipens, workflowVars, vars

LEMMA OneStepRow ==
  ASSUME WorkflowTypeOK, NEW k, NEW r \in StepRow, step' = [step EXCEPT ![k] = r]
  PROVE  step' \in [Step -> StepRow]
BY DEF WorkflowTypeOK

LEMMA RecordType ==
  ASSUME WorkflowTypeOK, NEW k, Record(k)
  PROVE  step' \in [Step -> StepRow]
<1>1. [status |-> "pending", tries |-> 0, claim |-> "free"] \in StepRow
  BY DEF StepRow
<1> QED
  BY <1>1, OneStepRow DEF Record, WorkflowTypeOK

LEMMA StepType ==
  ASSUME WorkflowTypeOK, JobsHold, [Next]_vars
  PROVE  step' \in [Step -> StepRow] /\ ran' \in [Step -> Nat]
<1>0. step \in [Step -> StepRow] /\ ran \in [Step -> Nat]
  BY DEF WorkflowTypeOK
<1>1. ASSUME NEW x \in Executor, Start(x) \/ Move(x) PROVE step' \in [Step -> StepRow]
  BY <1>1, RecordType DEF Start, Move
<1>2. ASSUME NEW x \in Executor, ClaimSteps(x) PROVE step' \in [Step -> StepRow]
  <2>1. \A k \in Step :
          [status |-> "pending", tries |-> step[k].tries + 1, claim |-> "fresh"] \in StepRow
    BY <1>0 DEF StepRow
  <2> QED
    BY <1>0, <1>2, <2>1 DEF ClaimSteps
<1>3. ASSUME NEW x \in Executor, MarkCompleted(x) PROVE step' \in [Step -> StepRow]
  <2>1. job[x].hand \in Step
    BY <1>3 DEF MarkCompleted, Working, JobsHold, JobHolds
  <2>2. [step[job[x].hand] EXCEPT !.status = "completed"] \in StepRow
    BY <1>0, <2>1 DEF StepRow
  <2> QED
    BY <1>3, <2>2, OneStepRow DEF MarkCompleted
<1>4. ASSUME NEW x \in Executor, MarkFailed(x) PROVE step' \in [Step -> StepRow]
  <2>1. job[x].hand \in Step
    BY <1>4 DEF MarkFailed, Working, JobsHold, JobHolds
  <2>2. /\ [step[job[x].hand] EXCEPT !.status = "abandoned"] \in StepRow
        /\ [step[job[x].hand] EXCEPT !.claim = "free"] \in StepRow
    BY <1>0, <2>1 DEF StepRow
  <2> QED
    BY <1>4, <2>2, OneStepRow DEF MarkFailed
<1>5. ASSUME NEW k \in Step, StepRipens(k) PROVE step' \in [Step -> StepRow]
  <2>1. [step[k] EXCEPT !.claim = "stale"] \in StepRow
    BY <1>0 DEF StepRow
  <2> QED
    BY <1>5, <2>1, OneStepRow DEF StepRipens
<1>6. ASSUME NEW x \in Executor, NEW k \in job[x].todo, Execute(x, k) PROVE ran' \in [Step -> Nat]
  <2>1. k \in Step
    BY DEF WorkflowTypeOK, Job
  <2> QED
    BY <1>0, <1>6, <2>1 DEF Execute
<1> QED
  BY <1>0, <1>1, <1>2, <1>3, <1>4, <1>5, <1>6
  DEF Next, Publish, Producers, Deliver, PollSteps, Handler, CreateInstance, HandleTimeout,
      ReadInstance, Apply, LoseOrRepeat, Ignore, Start, Move, ClaimSteps, Execute, NotifyFails,
      MarkCompleted, MarkFailed, StepsDone, SchedulerStep, StepThrows, HandlerAborts,
      WorkerDies, Time, StepRipens, HeldRipens, workflowVars, vars

-----------------------------------------------------------------------------
(* The engine's steps have one holder: a step in a batch or in hand is      *)
(* pending under a fresh claim, and only what is not is claimed.            *)
StepInHand(x, k) == HoldsStep(x, k) => step[k].status = "pending" /\ step[k].claim = "fresh"

StepsExclusive == OneStepHolder /\ \A x \in Executor, k \in Step : StepInHand(x, k)

(* Who holds a step after a move held it before, with the row as it was.    *)
LEMMA LessHeld ==
  ASSUME StepsExclusive,
         \A x \in Executor, k \in Step :
           HoldsStep(x, k)' => HoldsStep(x, k) /\ step'[k] = step[k]
  PROVE  StepsExclusive'
BY DEF StepsExclusive, OneStepHolder, StepInHand

LEMMA StepsStayExclusive ==
  ASSUME WorkflowTypeOK, JobsHold, StepsExclusive, Timely, [Next]_vars
  PROVE  StepsExclusive'
<1> DEFINE Kept(x, k) == HoldsStep(x, k)' => HoldsStep(x, k) /\ step'[k] = step[k]
<1>0. /\ job \in [Executor -> Job] /\ step \in [Step -> StepRow]
      /\ \A x \in Executor : job[x].todo \subseteq Step
      /\ Nothing \notin Step
  BY SignalFacts DEF WorkflowTypeOK, Job
<1>1. ASSUME NEW x \in Executor, SetJob(x, NoJob), UNCHANGED step
      PROVE  StepsExclusive'
  <2>1. \A y \in Executor, k \in Step : Kept(y, k)
    BY <1>0, <1>1 DEF SetJob, NoJob, HoldsStep
  <2> QED
    BY <2>1, LessHeld
<1>2. ASSUME UNCHANGED <<job, step>> PROVE StepsExclusive'
  BY <1>2, LessHeld DEF HoldsStep
<1>4. ASSUME NEW x \in Executor, NEW e \in Event, Deliver(x, e) PROVE StepsExclusive'
  <2>1. \A y \in Executor, k \in Step : Kept(y, k)
    BY <1>0, <1>4 DEF Deliver, SetJob, NoJob, HoldsStep
  <2> QED
    BY <2>1, LessHeld
<1>5. ASSUME NEW x \in Executor, HandleTimeout(x) PROVE StepsExclusive'
  <2>1. \A y \in Executor, k \in Step : Kept(y, k)
    BY <1>0, <1>5 DEF HandleTimeout, SetJob, NoJob, HoldsStep
  <2> QED
    BY <2>1, LessHeld
<1>6. ASSUME NEW x \in Executor, NEW seen, NEW pc,
             JobTo(x, pc) \/ SetJob(x, [job[x] EXCEPT !.pc = pc, !.seen = seen]),
             UNCHANGED step
      PROVE  StepsExclusive'
  <2> DEFINE SameSteps == /\ job'[x].todo = job[x].todo /\ job'[x].hand = job[x].hand
                          /\ \A y \in Executor \ {x} : job'[y] = job[y]
  <2>1. ASSUME SetJob(x, [job[x] EXCEPT !.pc = pc, !.seen = seen]) PROVE SameSteps
    BY <1>0, <2>1 DEF SetJob, Job
  <2>2. ASSUME JobTo(x, pc) PROVE SameSteps
    BY <1>0, <2>2 DEF JobTo, SetJob, Job
  <2>3. \A y \in Executor, k \in Step : Kept(y, k)
    BY <1>6, <2>1, <2>2 DEF HoldsStep
  <2> QED
    BY <2>3, LessHeld
<1>7. ASSUME NEW x \in Executor, Start(x) \/ Move(x) PROVE StepsExclusive'
  <2>1. PICK k \in Step \cup {Nothing} : Record(k)
    <3>1. \A f \in DOMAIN StepOf : StepOf[f] \in Step \cup {Nothing}
      BY DEF Step
    <3>2. job[x].seen \in DOMAIN StepOf /\ StartEvent \in DOMAIN StepOf
      BY <1>7, WorkflowAssumption DEF Start, Move, Working, JobsHold, JobHolds
    <3> QED
      BY <1>7, <3>1, <3>2 DEF Start, Move
  <2>2. \A l \in Step : step[l].status = "pending" => step'[l] = step[l]
    BY <1>0, <2>1 DEF Record
  <2>3. JobTo(x, "claim")
    BY <1>7 DEF Start, Move
  <2>4. \A y \in Executor, l \in Step : HoldsStep(y, l)' => HoldsStep(y, l)
    BY <1>0, <2>3 DEF JobTo, SetJob, Job, HoldsStep
  <2>5. \A y \in Executor, l \in Step : Kept(y, l)
    BY <2>2, <2>4 DEF StepsExclusive, StepInHand
  <2> QED
    BY <2>5, LessHeld
<1>8. ASSUME NEW x \in Executor, ClaimSteps(x) PROVE StepsExclusive'
  <2> DEFINE S == {k \in Step : ClaimableStep(k)}
  <2>1. SetJob(x, [job[x] EXCEPT !.pc = "execute", !.todo = S])
    BY <1>8 DEF ClaimSteps
  <2>2. job[x].hand = Nothing
    BY <1>8 DEF ClaimSteps, Working, JobsHold, JobHolds
  <2>3. \A k \in S : step'[k].status = "pending" /\ step'[k].claim = "fresh"
    BY <1>8 DEF ClaimSteps
  <2>4. \A k \in Step \ S : step'[k] = step[k]
    BY <1>8 DEF ClaimSteps
  <2>5. \A y \in Executor, k \in S : ~HoldsStep(y, k)
    BY DEF StepsExclusive, StepInHand, ClaimableStep
  <2> HIDE DEF S
  <2>6. job'[x].todo = S /\ job'[x].hand = Nothing
    BY <1>0, <2>1, <2>2 DEF SetJob, Job
  <2>7. \A y \in Executor \ {x} : job'[y] = job[y]
    BY <1>0, <2>1 DEF SetJob
  <2>8. \A k \in Step : HoldsStep(x, k)' <=> k \in S
    BY <1>0, <2>6 DEF HoldsStep
  <2>9. \A y \in Executor \ {x}, k \in Step : HoldsStep(y, k)' <=> HoldsStep(y, k)
    BY <2>7 DEF HoldsStep
  <2> QED
    BY <2>3, <2>4, <2>5, <2>8, <2>9 DEF StepsExclusive, OneStepHolder, StepInHand
<1>9. ASSUME NEW x \in Executor, NEW k \in Step, NEW pc,
             k \in job[x].todo \/ k = job[x].hand,
             SetJob(x, [job[x] EXCEPT !.pc = pc, !.hand = k, !.todo = job[x].todo \ {k}]),
             UNCHANGED step
      PROVE  StepsExclusive'
  <2>1. job'[x].todo = job[x].todo \ {k} /\ job'[x].hand = k
    BY <1>0, <1>9 DEF SetJob, Job
  <2>2. \A y \in Executor \ {x} : job'[y] = job[y]
    BY <1>0, <1>9 DEF SetJob
  <2>3. \A y \in Executor, l \in Step : Kept(y, l)
    BY <1>9, <2>1, <2>2 DEF HoldsStep
  <2> QED
    BY <2>3, LessHeld
<1>10. ASSUME NEW x \in Executor, MarkCompleted(x) \/ MarkFailed(x) PROVE StepsExclusive'
  <2>1. Executes(x) /\ job[x].hand \in Step \ job[x].todo
    BY <1>10 DEF MarkCompleted, MarkFailed, Working, JobsHold, JobHolds
  <2>2. job'[x].todo = job[x].todo /\ job'[x].hand = Nothing
    BY <1>0, <2>1 DEF Executes, SetJob, Job
  <2>3. \A y \in Executor \ {x} : job'[y] = job[y]
    BY <1>0, <2>1 DEF Executes, SetJob
  <2>4. \A l \in Step \ {job[x].hand} : step'[l] = step[l]
    BY <1>0, <1>10 DEF MarkCompleted, MarkFailed
  <2>5. \A y \in Executor, l \in Step : HoldsStep(y, l)' => HoldsStep(y, l) /\ l # job[x].hand
    BY <1>0, <2>1, <2>2, <2>3 DEF HoldsStep, StepsExclusive, OneStepHolder
  <2>6. \A y \in Executor, l \in Step : Kept(y, l)
    BY <2>4, <2>5
  <2> QED
    BY <2>6, LessHeld
<1>11. ASSUME NEW k \in Step, StepRipens(k) PROVE StepsExclusive'
  <2>1. \A y \in Executor, l \in Step : Kept(y, l)
    BY <1>0, <1>11 DEF StepRipens, HoldsStep
  <2> QED
    BY <2>1, LessHeld
<1>12. ASSUME NEW x \in Executor, ReadInstance(x) \/ Apply(x) \/ CreateInstance(x) \/ PollSteps(x)
                                    \/ StepsDone(x)
       PROVE  StepsExclusive'
  BY <1>1, <1>6, <1>7, <1>12
  DEF ReadInstance, Apply, LoseOrRepeat, Ignore, CreateInstance, PollSteps, StepsDone, Returns
<1>13. ASSUME NEW x \in Executor, NEW k \in job[x].todo, Execute(x, k) \/ NotifyFails(x, k)
       PROVE  StepsExclusive'
  BY <1>0, <1>9, <1>13 DEF Execute, NotifyFails
<1>14. ASSUME NEW x \in Executor, NEW k \in Step, StepThrows(x, k) PROVE StepsExclusive'
  BY <1>9, <1>14 DEF StepThrows
<1>15. ASSUME NEW x \in Executor, HandlerAborts(x) \/ WorkerDies(x) PROVE StepsExclusive'
  BY <1>1, <1>15 DEF HandlerAborts, WorkerDies
<1>16. ASSUME NEW x \in Executor, Handler(x) PROVE StepsExclusive'
  BY <1>5, <1>8, <1>10, <1>12, <1>13, <1>16 DEF Handler
<1> QED
  BY <1>2, <1>4, <1>11, <1>12, <1>14, <1>15, <1>16
  DEF Next, Publish, Producers, SchedulerStep, Time, HeldRipens, workflowVars, vars

-----------------------------------------------------------------------------
WorkflowInv ==
  /\ WorkflowTypeOK /\ SchedulerInv /\ JobsHold /\ Coupled
  /\ Timely => StepsExclusive

LEMMA WorkflowInvInit == Init => WorkflowInv
<1> SUFFICES ASSUME Init PROVE WorkflowInv
  OBVIOUS
<1>1. SchedulerInv
  BY SchedulerInvInit DEF Init
<1>2. \A x \in Executor : job[x] = NoJob
  BY DEF Init
<1>3. job \in [Executor -> Job] /\ JobsHold
  BY <1>2, NoJobHolds DEF Init, JobsHold
<1>4. [status |-> "none", tries |-> 0, claim |-> "free"] \in StepRow
  BY DEF StepRow
<1>5. WorkflowTypeOK
  BY <1>1, <1>3, <1>4 DEF Init, WorkflowTypeOK, SchedulerInv
<1>6. Coupled
  BY <1>2, SignalFacts DEF Coupled, NoJob
<1>7. StepsExclusive
  BY <1>2, SignalFacts DEF StepsExclusive, OneStepHolder, StepInHand, HoldsStep, NoJob
<1> QED
  BY <1>1, <1>3, <1>5, <1>6, <1>7 DEF WorkflowInv

LEMMA WorkflowInvStep == WorkflowInv /\ [Next]_vars => WorkflowInv'
<1> SUFFICES ASSUME WorkflowInv, [Next]_vars PROVE WorkflowInv'
  OBVIOUS
<1> USE DEF WorkflowInv
<1>1. [SchedulerMoves]_schedulerVars
  BY WithinScheduler DEF SchedulerInv
<1>2. SchedulerInv'
  BY <1>1, SchedulerInvStep
<1>3. job' \in [Executor -> Job] /\ JobsHold'
  BY JobsStep
<1>4. WorkflowTypeOK'
  BY <1>2, <1>3, InstanceType, StepType, EventType DEF WorkflowTypeOK, SchedulerInv
<1>5. Coupled'
  BY CoupledStep
<1>6. Timely => StepsExclusive'
  BY StepsStayExclusive
<1> QED
  BY <1>2, <1>3, <1>4, <1>5, <1>6, SchedulerAssumption

LEMMA WorkflowInvariant == Spec => []WorkflowInv
<1>1. WorkflowInv /\ UNCHANGED vars => WorkflowInv'
  BY WorkflowInvStep
<1> QED
  BY WorkflowInvInit, WorkflowInvStep, PTL DEF Spec

-----------------------------------------------------------------------------
(* Every state of the engine and the scheduler is well formed: the rows of *)
(* store.js (workflow) and scheduled-actions.js, and the activities' own.  *)
THEOREM WorkflowTypeCorrect == Spec => []WorkflowTypeOK
<1>1. WorkflowInv => WorkflowTypeOK
  BY DEF WorkflowInv
<1> QED
  BY <1>1, WorkflowInvariant, PTL

(* When claims outlive the work done under them, no two drains of any      *)
(* number of processes run one scheduled action's handler, whatever is     *)
(* withdrawn, expires, fails or dies: claim() of scheduled-actions.js.     *)
THEOREM OneExecutorHolds == ASSUME Timely PROVE Spec => []OneExecutor
<1>1. WorkflowInv => OneExecutor
  BY DEF WorkflowInv, SchedulerInv, Exclusive
<1> QED
  BY <1>1, WorkflowInvariant, PTL

(* Under the same assumption no two drains execute one step, although a    *)
(* drain holds a whole page of them: claimSteps() of the engine's store.   *)
THEOREM OneStepHolderHolds == ASSUME Timely PROVE Spec => []OneStepHolder
<1>1. WorkflowInv => OneStepHolder
  BY DEF WorkflowInv, StepsExclusive
<1> QED
  BY <1>1, WorkflowInvariant, PTL

(* A move is a new signal's, whatever the definition's transitions are,    *)
(* and the transition of the state it leaves: transition() of the store    *)
(* compares the state and inserts the signal in one transaction.           *)
THEOREM MovesStayNew == Spec => MovesAreNew
<1> DEFINE NewMove == \E s \in Signal : /\ signal[s] = "no" /\ signal'[s] = "transitioned"
                                        /\ inst' = Transition[inst, Kind(s)]
           Moved == inst \notin {Nothing, inst'}
<1>1. ASSUME WorkflowInv, [Next]_vars, Moved PROVE NewMove
  <2>1. \E x \in Executor : Move(x)
    <3>1. ~ \E x \in Executor : CreateInstance(x) \/ Ignore(x) \/ Start(x)
      BY <1>1 DEF CreateInstance, Ignore, Start, Refused
    <3> QED
      BY <1>1, <3>1
      DEF Next, Publish, Producers, Deliver, PollSteps, Handler, HandleTimeout,
          ReadInstance, Apply, LoseOrRepeat, ClaimSteps, Execute, NotifyFails,
          MarkCompleted, MarkFailed, StepsDone, SchedulerStep, StepThrows, HandlerAborts,
          WorkerDies, Time, StepRipens, HeldRipens, workflowVars, vars
  <2>2. PICK x \in Executor : Move(x)
    BY <2>1
  <2>3. job[x].for \in Signal /\ inst = job[x].seen /\ signal[job[x].for] = "no"
    BY <1>1, <2>2
    DEF Move, Refused, Working, WorkflowInv, JobsHold, JobHolds
  <2>4. signal'[job[x].for] = "transitioned"
    BY <1>1, <2>2, <2>3 DEF Move, WorkflowInv, WorkflowTypeOK
  <2>5. inst' = Transition[inst, Kind(job[x].for)]
    BY <2>2, <2>3 DEF Move
  <2> QED
    BY <2>3, <2>4, <2>5
<1>2. WorkflowInv /\ [Next]_vars => [Moved => NewMove]_vars
  BY <1>1
<1> QED
  BY <1>2, WorkflowInvariant, PTL DEF Spec, MovesAreNew

-----------------------------------------------------------------------------
(* The start: the initial step, and the timeout it schedules               *)
InitialStep == StepOf[StartEvent]
Recorded == step[InitialStep].status # "none"

(* What a drain has in hand was scheduled. *)
Handed == \A x \in Executor : drain[x].pc \in {"handle", "complete", "fail"} =>
            action[drain[x].got].state # "none"

(* A job holds steps that are recorded, applies a signal to an instance    *)
(* that is there, and is past the initial state, or past the starting      *)
(* event's application, only when the initial step is recorded.            *)
JobStarts(x) ==
  /\ \A k \in Step : HoldsStep(x, k) => step[k].status # "none"
  /\ Working(x, "mark") /\ job[x].hand = InitialStep => action[Timeout].state # "none"
  /\ Working(x, "apply") => inst # Nothing
  /\ Working(x, "apply") /\ job[x].seen # Initial => Recorded
  /\ job[x].for = StartEvent /\ job[x].pc \notin {"create", "apply"} => Recorded

(* Nothing comes after the start without it. *)
Begun == inst \notin {Nothing, Initial} \/ signal[StartEvent] # "no"
           \/ action[Timeout].state # "none" => Recorded

StartInv == /\ WorkflowInv
            /\ Handed
            /\ \A x \in Executor : JobStarts(x)
            /\ Begun
            /\ StartedInFull

LEMMA InitialStepIsOne == InitialStep \in Step
BY WorkflowAssumption DEF InitialStep, Step

(* Nothing is unscheduled: rows of the scheduler stay. *)
LEMMA ActionsStay ==
  ASSUME SchedulerTypeOK, Holding, [SchedulerMoves]_schedulerVars,
         NEW a \in Action, action[a].state # "none"
  PROVE  action'[a].state # "none"
<1>0. action \in [Action -> ActionRow]
  BY DEF SchedulerTypeOK
<1>1. ASSUME NEW b, NEW st, st # "none", SetState(b, st)
      PROVE  action'[a].state # "none"
  BY <1>0, <1>1 DEF SetState, SetAction
<1>2. ASSUME NEW x \in Executor, DrainBegins(x)
      PROVE  action'[a].state # "none"
  BY <1>0, <1>2 DEF DrainBegins
<1>3. ASSUME NEW x \in Executor, NEW b \in drain[x].todo, Claim(x, b)
      PROVE  action'[a].state # "none"
  BY <1>0, <1>3 DEF Claim, SetAction
<1>4. ASSUME NEW b \in Action, Ripens(b)
      PROVE  action'[a].state # "none"
  BY <1>0, <1>4 DEF Ripens, SetAction, ActionRow
<1>5. ASSUME NEW b \in Action, Schedule(b)
      PROVE  action'[a].state # "none"
  BY <1>1, <1>5 DEF Schedule, ScheduleOnce
<1>6. ASSUME NEW x \in Executor, Complete(x) \/ Fail(x) \/ CompletionUnanswered(x)
      PROVE  action'[a].state # "none"
  BY <1>1, <1>6 DEF Complete, Fail, CompletionUnanswered
<1>7. ASSUME NEW b \in Action, Withdraw(b)
      PROVE  action'[a].state # "none"
  BY <1>1, <1>7 DEF Withdraw
<1>8. CASE UNCHANGED action
  BY <1>8
<1> QED
  BY <1>2, <1>3, <1>4, <1>5, <1>6, <1>7, <1>8
  DEF SchedulerMoves, SchedulerNext, DrainStep, SchedulerTime, List, DrainEnds, ClaimLost,
      DrainDies, HandlerReturns, HandlerThrows, HandlerFails, GoesStale, MishapElsewhere,
      schedulerVars

LEMMA HandedStep ==
  ASSUME SchedulerTypeOK, Holding, Handed, [SchedulerMoves]_schedulerVars
  PROVE  Handed'
<1> SUFFICES ASSUME NEW x \in Executor, drain'[x].pc \in {"handle", "complete", "fail"}
             PROVE  action'[drain'[x].got].state # "none"
  BY DEF Handed
<1>0. drain \in [Executor -> DrainRow] /\ action \in [Action -> ActionRow]
  BY DEF SchedulerTypeOK
<1>1. ASSUME NEW y \in Executor, NEW a \in drain[y].todo, Claim(y, a), y = x
      PROVE  action'[drain'[x].got].state # "none"
  <2>1. a \in Action
    BY <1>0 DEF DrainRow
  <2> QED
    BY <1>0, <1>1, <2>1 DEF Claim, SetDrain, SetAction
<1>2. ASSUME drain'[x].got = drain[x].got, drain[x].pc \in {"handle", "complete", "fail"}
      PROVE  action'[drain'[x].got].state # "none"
  <2>1. drain[x].got \in Action
    BY <1>2 DEF Holding, RowHolds
  <2> QED
    BY <1>2, <2>1, ActionsStay DEF Handed
<1>3. ASSUME NEW y \in Executor, NEW pc, StepTo(y, pc),
             drain[y].pc \in {"handle", "complete", "fail"} \/ pc \in {"list", "walk"}
      PROVE  action'[drain'[x].got].state # "none"
  <2>1. drain'[x].got = drain[x].got /\ drain[x].pc \in {"handle", "complete", "fail"}
    BY <1>0, <1>3 DEF StepTo, SetDrain, DrainRow
  <2> QED
    BY <1>2, <2>1
<1>4. ASSUME NEW y \in Executor, NEW r, SetDrain(y, r),
             y = x => r.pc \notin {"handle", "complete", "fail"}
      PROVE  action'[drain'[x].got].state # "none"
  <2>1. drain'[x] = drain[x]
    BY <1>0, <1>4 DEF SetDrain
  <2> QED
    BY <1>2, <2>1
<1>5. ASSUME NEW y \in Executor, DrainBegins(y)
      PROVE  action'[drain'[x].got].state # "none"
  BY <1>3, <1>5 DEF DrainBegins
<1>6. ASSUME NEW y \in Executor, List(y)
      PROVE  action'[drain'[x].got].state # "none"
  <2>1. [drain[y] EXCEPT !.pc = "walk", !.todo = {a \in Action : Claimable(a)}].pc = "walk"
    BY <1>0 DEF DrainRow
  <2> QED
    BY <1>4, <1>6, <2>1 DEF List
<1>7. ASSUME NEW y \in Executor, DrainEnds(y) \/ DrainDies(y)
      PROVE  action'[drain'[x].got].state # "none"
  BY <1>4, <1>7 DEF DrainEnds, DrainDies, NoDrain
<1>8. ASSUME NEW y \in Executor, Complete(y) \/ Fail(y)
      PROVE  action'[drain'[x].got].state # "none"
  BY <1>4, <1>8 DEF Complete, Fail, Walks
<1>9. ASSUME NEW y \in Executor, NEW a \in drain[y].todo, Claim(y, a) \/ ClaimLost(y, a)
      PROVE  action'[drain'[x].got].state # "none"
  <2>1. CASE Claim(y, a) /\ y # x
    BY <1>4, <2>1 DEF Claim
  <2>2. CASE ClaimLost(y, a)
    <3>1. [drain[y] EXCEPT !.todo = drain[y].todo \ {a}].pc = "walk"
      BY <1>0, <2>2 DEF ClaimLost, Draining, DrainRow
    <3> QED
      BY <1>4, <2>2, <3>1 DEF ClaimLost
  <2> QED
    BY <1>1, <1>9, <2>1, <2>2
<1>10. ASSUME NEW y \in Executor,
              HandlerReturns(y) \/ HandlerThrows(y) \/ HandlerFails(y) \/ CompletionUnanswered(y)
       PROVE  action'[drain'[x].got].state # "none"
  BY <1>3, <1>10 DEF HandlerReturns, HandlerThrows, HandlerFails, CompletionUnanswered, Draining
<1>11. CASE UNCHANGED drain
  BY <1>2, <1>11
<1> QED
  BY <1>5, <1>6, <1>7, <1>8, <1>9, <1>10, <1>11
  DEF SchedulerMoves, SchedulerNext, DrainStep, SchedulerTime, Schedule, Withdraw, Ripens,
      GoesStale, MishapElsewhere, schedulerVars

(* Nor is a step unrecorded. *)
LEMMA StepsStay ==
  ASSUME WorkflowInv, [Next]_vars, NEW k \in Step, step[k].status # "none"
  PROVE  step'[k].status # "none"
<1>0. step \in [Step -> StepRow]
  BY DEF WorkflowInv, WorkflowTypeOK
<1>1. ASSUME NEW h, Record(h)
      PROVE  step'[k].status # "none"
  BY <1>0, <1>1 DEF Record
<1>2. ASSUME NEW x \in Executor, ClaimSteps(x)
      PROVE  step'[k].status # "none"
  BY <1>0, <1>2 DEF ClaimSteps
<1>3. ASSUME NEW x \in Executor, MarkCompleted(x) \/ MarkFailed(x)
      PROVE  step'[k].status # "none"
  BY <1>0, <1>3 DEF MarkCompleted, MarkFailed, StepRow
<1>4. ASSUME NEW h \in Step, StepRipens(h)
      PROVE  step'[k].status # "none"
  BY <1>0, <1>4 DEF StepRipens, StepRow
<1>5. ASSUME NEW x \in Executor, Start(x) \/ Move(x)
      PROVE  step'[k].status # "none"
  BY <1>1, <1>5 DEF Start, Move
<1>6. CASE UNCHANGED step
  BY <1>6
<1> QED
  BY <1>2, <1>3, <1>4, <1>5, <1>6
  DEF Next, Publish, Producers, Deliver, PollSteps, Handler, CreateInstance, HandleTimeout,
      ReadInstance, Apply, LoseOrRepeat, Ignore, Execute, NotifyFails, StepsDone,
      SchedulerStep, StepThrows, HandlerAborts, WorkerDies, Time, HeldRipens,
      workflowVars, vars

(* An instance moves by a signal applied to the state it is in. *)
LEMMA InstanceMoves ==
  ASSUME WorkflowInv, [Next]_vars, inst' # inst
  PROVE  \/ inst = Nothing /\ inst' = Initial
         \/ \E x \in Executor : Move(x) /\ inst = job[x].seen
<1>1. ASSUME NEW x \in Executor, CreateInstance(x)
      PROVE  inst = Nothing /\ inst' = Initial
  BY <1>1 DEF CreateInstance
<1>2. ASSUME NEW x \in Executor, Ignore(x) \/ Start(x)
      PROVE  FALSE
  BY <1>2 DEF Ignore, Start, Refused
<1>3. ASSUME NEW x \in Executor, Move(x)
      PROVE  inst = job[x].seen
  BY <1>3 DEF Move, Refused
<1> QED
  BY <1>1, <1>2, <1>3
  DEF Next, Publish, Producers, Deliver, PollSteps, Handler, HandleTimeout,
      ReadInstance, Apply, LoseOrRepeat, ClaimSteps, Execute, NotifyFails,
      MarkCompleted, MarkFailed, StepsDone, SchedulerStep, StepThrows, HandlerAborts,
      WorkerDies, Time, StepRipens, HeldRipens, workflowVars, vars

LEMMA InstanceStays ==
  ASSUME WorkflowInv, [Next]_vars, inst # Nothing
  PROVE  inst' # Nothing
<1>1. Initial # Nothing
  BY WorkflowAssumption
<1>2. ASSUME NEW x \in Executor, Move(x)
      PROVE  inst' # Nothing
  BY <1>2 DEF Move
<1> QED
  BY <1>1, <1>2, InstanceMoves

LEMMA StartParts ==
  ASSUME StartInv, [Next]_vars
  PROVE  /\ WorkflowInv /\ WorkflowTypeOK /\ JobsHold /\ SchedulerTypeOK /\ Holding /\ Coupled
         /\ job \in [Executor -> Job] /\ step \in [Step -> StepRow]
         /\ [SchedulerMoves]_schedulerVars
         /\ Recorded => Recorded'
         /\ action[Timeout].state # "none" => action'[Timeout].state # "none"
<1>1. /\ WorkflowInv /\ WorkflowTypeOK /\ JobsHold /\ SchedulerTypeOK /\ Holding /\ Coupled
      /\ job \in [Executor -> Job] /\ step \in [Step -> StepRow]
  BY DEF StartInv, WorkflowInv, WorkflowTypeOK, SchedulerInv
<1>2. [SchedulerMoves]_schedulerVars
  BY <1>1, WithinScheduler
<1>3. Recorded => Recorded'
  BY <1>1, InitialStepIsOne, StepsStay DEF Recorded, InitialStep
<1>4. action[Timeout].state # "none" => action'[Timeout].state # "none"
  BY <1>1, <1>2, SignalFacts, ActionsStay
<1> QED
  BY <1>1, <1>2, <1>3, <1>4

(* The timeout is scheduled by the execution of the initial step. *)
LEMMA TimeoutBegins ==
  ASSUME StartInv, [Next]_vars, action[Timeout].state = "none",
         action'[Timeout].state # "none"
  PROVE  Recorded
<1>0. /\ JobsHold /\ Holding /\ action \in [Action -> ActionRow] /\ Timeout \in Action
  BY StartParts, SignalFacts DEF SchedulerTypeOK
<1>1. ASSUME NEW a, NEW st, SetState(a, st)
      PROVE  a = Timeout
  BY <1>0, <1>1 DEF SetState, SetAction
<1>2. ASSUME NEW a \in Action, Ripens(a)
      PROVE  FALSE
  BY <1>0, <1>2 DEF Ripens, SetAction, ActionRow
<1>3. ASSUME NEW x \in Executor, DrainBegins(x)
      PROVE  FALSE
  BY <1>0, <1>3 DEF DrainBegins
<1>4. ASSUME NEW x \in Executor, DrainStep(x)
      PROVE  FALSE
  <2>1. ASSUME NEW a \in drain[x].todo, Claim(x, a)
        PROVE  FALSE
    BY <1>0, <2>1 DEF Claim, SetAction, Claimable
  <2>2. ASSUME Complete(x) \/ Fail(x)
        PROVE  FALSE
    <3>1. action[drain[x].got].state # "none"
      BY <2>2 DEF StartInv, Handed, Complete, Fail, Draining
    <3> QED
      BY <1>1, <2>2, <3>1 DEF Complete, Fail
  <2> QED
    BY <1>4, <2>1, <2>2 DEF DrainStep, List, DrainEnds, ClaimLost
<1>7. ASSUME NEW x \in Executor, CompletionUnanswered(x)
      PROVE  FALSE
  <2>1. action[drain[x].got].state # "none"
    BY <1>7 DEF StartInv, Handed, CompletionUnanswered, Draining
  <2> QED
    BY <1>1, <1>7, <2>1 DEF CompletionUnanswered
<1>5. ASSUME NEW a \in Action \ {Timeout}, Schedule(a) \/ Withdraw(a)
      PROVE  FALSE
  BY <1>0, <1>1, <1>5 DEF Schedule, Withdraw, ScheduleOnce
<1>6. ASSUME NEW x \in Executor, NEW k \in job[x].todo, Execute(x, k)
      PROVE  Recorded
  <2>1. k = InitialStep
    BY <1>6 DEF Execute, InitialStep
  <2>2. k \in Step
    BY StartParts DEF Job
  <2> QED
    BY <2>1, <2>2 DEF StartInv, JobStarts, HoldsStep, Recorded
<1> QED
  BY <1>2, <1>3, <1>4, <1>5, <1>6, <1>7
  DEF Next, Publish, Producers, Deliver, PollSteps, Handler, CreateInstance, HandleTimeout,
      ReadInstance, Apply, LoseOrRepeat, Ignore, Start, Move, ClaimSteps, NotifyFails,
      MarkCompleted, MarkFailed, StepsDone, SchedulerStep, StepThrows, HandlerAborts,
      WorkerDies, Time, StepRipens, HeldRipens, SchedulerTime, GoesStale, HandlerReturns,
      HandlerThrows, HandlerFails, Returns, StepTo, schedulerVars, workflowVars, vars

(* What a signal's own step says of the start. *)
LEMMA SignalBegins ==
  ASSUME StartInv, [Next]_vars, signal[StartEvent] = "no", signal'[StartEvent] # "no"
  PROVE  \E x \in Executor : Start(x)
<1>1. signal \in [Signal -> {"no", "transitioned", "ignored"}]
  BY StartParts DEF WorkflowTypeOK
<1>2. ASSUME NEW x \in Executor, Ignore(x) \/ Move(x)
      PROVE  FALSE
  BY <1>1, <1>2, SignalFacts DEF Ignore, Move
<1> QED
  BY <1>2
  DEF Next, Publish, Producers, Deliver, PollSteps, Handler, CreateInstance, HandleTimeout,
      ReadInstance, Apply, LoseOrRepeat, ClaimSteps, Execute, NotifyFails,
      MarkCompleted, MarkFailed, StepsDone, SchedulerStep, StepThrows, HandlerAborts,
      WorkerDies, Time, StepRipens, HeldRipens, workflowVars, vars

LEMMA StartRecords ==
  ASSUME StartInv, [Next]_vars, NEW x \in Executor, Start(x)
  PROVE  Recorded'
<1>1. step \in [Step -> StepRow] /\ InitialStep \in Step /\ InitialStep # Nothing
  BY StartParts, InitialStepIsOne, SignalFacts
<1>2. Record(InitialStep)
  BY <1>1 DEF Start, InitialStep
<1>3. step'[InitialStep].status # "none"
  BY <1>1, <1>2 DEF Record
<1> QED
  BY <1>3 DEF Recorded, InitialStep

(* Only the timeout moves an instance out of its initial state. *)
AwaitsTimeout == Transition[Initial, "event"] = Nothing

LEMMA BegunStep ==
  ASSUME StartInv, [Next]_vars, AwaitsTimeout
  PROVE  Begun'
<1>1. Recorded => Recorded'
  BY StartParts
<1>2. Begun /\ JobsHold
  BY StartParts DEF StartInv
<1>3. CASE action[Timeout].state = "none" /\ action'[Timeout].state # "none"
  BY <1>1, <1>3, TimeoutBegins DEF Begun
<1>4. CASE signal[StartEvent] = "no" /\ signal'[StartEvent] # "no"
  BY <1>4, SignalBegins, StartRecords DEF Begun
<1>5. CASE inst \in {Nothing, Initial} /\ inst' \notin {Nothing, Initial}
  <2>1. PICK x \in Executor : Move(x) /\ inst = job[x].seen
    BY <1>2, <1>5, StartParts, InstanceMoves
  <2>2. inst = Initial
    BY <1>2, <1>5, <2>1, SignalFacts DEF Move, Working, JobsHold, JobHolds
  <2>3. job[x].for = Timeout
    <3>1. Transition[job[x].seen, Kind(job[x].for)] # Nothing /\ job[x].seen = Initial
      BY <2>1, <2>2, Zenon DEF Move
    <3>2. Kind(job[x].for) # "event"
      BY <3>1, Zenon DEF AwaitsTimeout
    <3> QED
      BY <3>2, Zenon DEF Kind
  <2>4. drain[x].pc = "handle" /\ drain[x].got = Timeout
    BY <2>3, StartParts DEF Coupled, Draining
  <2>5. action[Timeout].state # "none"
    BY <2>4 DEF StartInv, Handed
  <2> QED
    BY <1>1, <1>2, <2>5 DEF Begun
<1> QED
  BY <1>1, <1>2, <1>3, <1>4, <1>5 DEF Begun

(* A job at rest asks for nothing; one that stays as it is keeps what it has. *)
LEMMA JobRests ==
  ASSUME StartInv, [Next]_vars, NEW x \in Executor, job'[x] = NoJob
  PROVE  JobStarts(x)'
BY WorkflowAssumption, SignalFacts DEF JobStarts, HoldsStep, Working, NoJob

LEMMA JobStaysSame ==
  ASSUME StartInv, [Next]_vars, NEW x \in Executor, job'[x] = job[x]
  PROVE  JobStarts(x)'
<1>1. JobStarts(x) /\ WorkflowInv
  BY DEF StartInv
<1>2. \A k \in Step : step[k].status # "none" => step'[k].status # "none"
  BY <1>1, StepsStay
<1>3. inst # Nothing => inst' # Nothing
  BY <1>1, InstanceStays
<1> QED
  BY <1>1, <1>2, <1>3, StartParts DEF JobStarts, HoldsStep, Working

LEMMA HandlerStarts ==
  ASSUME StartInv, [Next]_vars, NEW x \in Executor, Handler(x)
  PROVE  JobStarts(x)'
<1>0. /\ JobStarts(x) /\ Begun /\ Handed
      /\ JobHolds(job[x]) /\ job[x] \in Job /\ step \in [Step -> StepRow]
      /\ job \in [Executor -> Job]
      /\ Recorded => Recorded'
      /\ inst # Nothing => inst' # Nothing
      /\ action[Timeout].state # "none" => action'[Timeout].state # "none"
      /\ \A k \in Step : step[k].status # "none" => step'[k].status # "none"
      /\ Initial # Nothing
  BY StartParts, StepsStay, InstanceStays, WorkflowAssumption DEF StartInv, JobsHold
<1>1. ASSUME Returns(x)
      PROVE  JobStarts(x)'
  BY <1>0, <1>1, JobRests DEF Returns, SetJob
<1>2. CASE CreateInstance(x)
  <2>1. job'[x] = [job[x] EXCEPT !.pc = "apply", !.seen = inst']
    BY <1>0, <1>2 DEF CreateInstance, SetJob
  <2>2. inst' # Initial => Recorded
    BY <1>0, <1>2 DEF CreateInstance, Begun
  <2>3. inst' # Nothing
    BY <1>0, <1>2 DEF CreateInstance
  <2> QED
    BY <1>0, <1>2, <2>1, <2>2, <2>3, SignalFacts
       DEF CreateInstance, JobStarts, JobHolds, HoldsStep, Working, Job
<1>3. CASE HandleTimeout(x)
  <2>1. job'[x] = [NoJob EXCEPT !.pc = "read", !.for = Timeout]
    BY <1>0, <1>3 DEF HandleTimeout, SetJob
  <2> QED
    BY <2>1, SignalFacts, WorkflowAssumption DEF JobStarts, HoldsStep, Working, NoJob
<1>4. CASE ReadInstance(x)
  <2>1. CASE Returns(x)
    BY <1>1, <2>1
  <2>2. CASE inst # Nothing /\ SetJob(x, [job[x] EXCEPT !.pc = "apply", !.seen = inst])
    <3>1. job'[x] = [job[x] EXCEPT !.pc = "apply", !.seen = inst]
      BY <1>0, <2>2 DEF SetJob
    <3>2. inst # Initial => Recorded
      BY <1>0, <2>2 DEF Begun
    <3>3. job[x].todo = {} /\ job[x].hand = Nothing
      BY <1>0, <1>4 DEF ReadInstance, JobHolds, Working
    <3> QED
      BY <1>0, <2>2, <3>1, <3>2, <3>3, SignalFacts
         DEF JobStarts, HoldsStep, Working, Job
  <2> QED
    BY <1>4, <2>1, <2>2 DEF ReadInstance
<1>5. CASE LoseOrRepeat(x) \/ StepsDone(x)
  BY <1>1, <1>5 DEF LoseOrRepeat, StepsDone
<1>6. ASSUME NEW pc \in {"execute", "claim"}, JobTo(x, pc), Working(x, "apply"),
             job[x].for = StartEvent => Recorded'
      PROVE  JobStarts(x)'
  <2>1. job'[x] = [job[x] EXCEPT !.pc = pc]
    BY <1>0, <1>6 DEF JobTo, SetJob
  <2>2. job[x].todo = {} /\ job[x].hand = Nothing
    BY <1>0, <1>6 DEF JobHolds, Working
  <2> QED
    BY <1>6, <2>1, <2>2, <1>0, SignalFacts DEF JobStarts, HoldsStep, Working, Job
<1>7. CASE Ignore(x)
  BY <1>6, <1>7 DEF Ignore
<1>8. CASE Start(x)
  BY <1>6, <1>8, StartRecords DEF Start
<1>9. CASE Move(x)
  BY <1>6, <1>9 DEF Move
<1>10. CASE ClaimSteps(x)
  <2>1. job'[x] = [job[x] EXCEPT !.pc = "execute", !.todo = {k \in Step : ClaimableStep(k)}]
    BY <1>0, <1>10 DEF ClaimSteps, SetJob
  <2>2. job[x].hand = Nothing
    BY <1>0, <1>10 DEF ClaimSteps, JobHolds, Working
  <2>3. \A k \in Step : ClaimableStep(k) => step[k].status # "none"
    BY DEF ClaimableStep
  <2>4. /\ job'[x].pc = "execute" /\ job'[x].todo = {k \in Step : ClaimableStep(k)}
        /\ job'[x].hand = Nothing /\ job'[x].for = job[x].for
    BY <1>0, <2>1, <2>2 DEF Job
  <2>5. job[x].for = StartEvent => Recorded
    BY <1>0, <1>10 DEF JobStarts, ClaimSteps, Working
  <2> QED
    BY <1>0, <2>3, <2>4, <2>5, SignalFacts DEF JobStarts, HoldsStep, Working
<1>11. ASSUME NEW k \in job[x].todo, NEW pc \in {"mark", "failed"},
              SetJob(x, [job[x] EXCEPT !.pc = pc, !.hand = k, !.todo = job[x].todo \ {k}]),
              Working(x, "execute"),
              pc = "mark" /\ k = InitialStep => action'[Timeout].state # "none"
       PROVE  JobStarts(x)'
  <2>1. job'[x] = [job[x] EXCEPT !.pc = pc, !.hand = k, !.todo = job[x].todo \ {k}]
    BY <1>0, <1>11 DEF SetJob
  <2>2. /\ job'[x].pc = pc /\ job'[x].todo \subseteq job[x].todo
        /\ job'[x].hand = k /\ job'[x].for = job[x].for
    BY <1>0, <2>1 DEF Job
  <2>3. job[x].for = StartEvent => Recorded
    BY <1>0, <1>11 DEF JobStarts, Working
  <2> QED
    BY <1>0, <1>11, <2>2, <2>3 DEF JobStarts, HoldsStep, Working, InitialStep
<1>12. ASSUME NEW k \in job[x].todo, Execute(x, k)
       PROVE  JobStarts(x)'
  <2>1. k = InitialStep => action'[Timeout].state # "none"
    BY <1>0, <1>12, StartParts, SignalFacts
       DEF Execute, ScheduleOnce, SetState, SetAction, InitialStep, SchedulerTypeOK
  <2> QED
    BY <1>11, <1>12, <2>1 DEF Execute
<1>13. ASSUME NEW k \in job[x].todo, NotifyFails(x, k)
       PROVE  JobStarts(x)'
  BY <1>11, <1>13 DEF NotifyFails
<1>14. CASE MarkCompleted(x) \/ MarkFailed(x)
  <2>1. job'[x] = [job[x] EXCEPT !.pc = "execute", !.hand = Nothing]
    BY <1>0, <1>14 DEF MarkCompleted, MarkFailed, Executes, SetJob
  <2>2. /\ job'[x].pc = "execute" /\ job'[x].todo = job[x].todo
        /\ job'[x].hand = Nothing /\ job'[x].for = job[x].for
    BY <1>0, <2>1 DEF Job
  <2>3. job[x].for = StartEvent => Recorded
    BY <1>0, <1>14 DEF JobStarts, Working, MarkCompleted, MarkFailed
  <2> QED
    BY <1>0, <2>2, <2>3, SignalFacts DEF JobStarts, HoldsStep, Working
<1> QED
  BY <1>2, <1>3, <1>4, <1>5, <1>7, <1>8, <1>9, <1>10, <1>12, <1>13, <1>14 DEF Handler, Apply

LEMMA JobStartsStep ==
  ASSUME StartInv, [Next]_vars, NEW x \in Executor
  PROVE  JobStarts(x)'
<1>0. /\ JobStarts(x) /\ JobHolds(job[x]) /\ job[x] \in Job /\ job \in [Executor -> Job]
      /\ Recorded => Recorded'
      /\ \A k \in Step : step[k].status # "none" => step'[k].status # "none"
  BY StartParts, StepsStay DEF StartInv, JobsHold
<1>1. ASSUME NEW y \in Executor, NEW j, SetJob(y, j), y # x
      PROVE  JobStarts(x)'
  <2>1. job'[x] = job[x]
    BY <1>0, <1>1 DEF SetJob
  <2> QED
    BY <2>1, JobStaysSame
<1>2. ASSUME NEW e \in Event, Deliver(x, e)
      PROVE  JobStarts(x)'
  <2>1. job'[x] = [NoJob EXCEPT !.pc = IF e = StartEvent THEN "create" ELSE "read",
                                !.for = e]
    BY <1>0, <1>2 DEF Deliver, SetJob
  <2> QED
    BY <2>1, SignalFacts DEF JobStarts, HoldsStep, Working, NoJob
<1>3. CASE PollSteps(x)
  <2>1. job[x] = NoJob /\ job'[x] = [job[x] EXCEPT !.pc = "claim"]
    BY <1>0, <1>3 DEF PollSteps, JobTo, SetJob, Free, Working, JobHolds
  <2> QED
    BY <2>1, SignalFacts, WorkflowAssumption DEF JobStarts, HoldsStep, Working, NoJob
<1>4. ASSUME NEW k \in Step, StepThrows(x, k)
      PROVE  JobStarts(x)'
  <2>1. job'[x] = [job[x] EXCEPT !.pc = "failed", !.hand = k, !.todo = job[x].todo \ {k}]
    BY <1>0, <1>4 DEF StepThrows, SetJob
  <2>2. /\ job'[x].pc = "failed" /\ job'[x].todo \subseteq job[x].todo
        /\ job'[x].hand = k /\ job'[x].for = job[x].for
    BY <1>0, <2>1 DEF Job
  <2>3. HoldsStep(x, k) /\ (job[x].for = StartEvent => Recorded)
    BY <1>0, <1>4 DEF StepThrows, JobStarts, Working, HoldsStep
  <2> QED
    BY <1>0, <2>2, <2>3 DEF JobStarts, HoldsStep, Working
<1>5. CASE HandlerAborts(x) \/ WorkerDies(x)
  BY <1>0, <1>5, JobRests DEF HandlerAborts, WorkerDies, SetJob
<1>6. CASE UNCHANGED job
  BY <1>6, JobStaysSame
<1>7. ASSUME NEW y \in Executor, y # x, Handler(y)
      PROVE  JobStarts(x)'
  BY <1>1, <1>7
     DEF Handler, CreateInstance, HandleTimeout, ReadInstance, Apply, LoseOrRepeat, Ignore,
         Start, Move, ClaimSteps, Execute, NotifyFails, MarkCompleted, MarkFailed, StepsDone,
         Returns, JobTo, Executes
<1>8. ASSUME NEW y \in Executor, y # x,
             \/ \E e \in Event : Deliver(y, e)
             \/ PollSteps(y) \/ HandlerAborts(y) \/ WorkerDies(y)
             \/ \E k \in Step : StepThrows(y, k)
      PROVE  JobStarts(x)'
  BY <1>1, <1>8 DEF Deliver, PollSteps, HandlerAborts, WorkerDies, StepThrows, JobTo
<1>9. CASE ~UNCHANGED job
  <2>1. PICK y \in Executor :
          \/ \E e \in Event : Deliver(y, e)
          \/ PollSteps(y) \/ Handler(y)
          \/ (\E k \in Step : StepThrows(y, k)) \/ HandlerAborts(y) \/ WorkerDies(y)
    BY <1>9
       DEF Next, Publish, Producers, SchedulerStep, Time, StepRipens, HeldRipens,
           workflowVars, vars
  <2>2. CASE y = x
    BY <1>2, <1>3, <1>4, <1>5, <2>1, <2>2, HandlerStarts
  <2>3. CASE y # x
    BY <1>7, <1>8, <2>1, <2>3
  <2> QED
    BY <2>2, <2>3
<1> QED
  BY <1>6, <1>9

LEMMA SettledRecorded ==
  ASSUME StartInv, [Next]_vars, event'[StartEvent] = "settled"
  PROVE  Recorded'
<1>0. /\ Recorded => Recorded'
      /\ event \in [Event -> {"none", "owed", "held", "stale", "settled"}]
      /\ StartEvent \in Event /\ Begun
      /\ \A x \in Executor : JobStarts(x)
  BY StartParts, WorkflowAssumption DEF StartInv, WorkflowTypeOK
<1>1. CASE event[StartEvent] = "settled"
  BY <1>0, <1>1 DEF StartInv, StartedInFull, Recorded, InitialStep
<1>2. ASSUME event[StartEvent] # "settled"
      PROVE  Recorded'
  <2>1. ASSUME NEW x \in Executor, Returns(x)
        PROVE  job[x].for = StartEvent
    BY <1>0, <1>2, <2>1 DEF Returns
  <2>2. ASSUME NEW x \in Executor, ReadInstance(x) \/ StepsDone(x)
        PROVE  Recorded
    <3>1. CASE Returns(x)
      <4>1. job[x].for = StartEvent /\ job[x].pc \notin {"create", "apply"}
        BY <2>1, <2>2, <3>1 DEF ReadInstance, StepsDone, Working
      <4> QED
        BY <1>0, <4>1 DEF JobStarts
    <3>2. CASE UNCHANGED event
      BY <1>2, <3>2
    <3> QED
      BY <2>2, <3>1, <3>2 DEF ReadInstance, StepsDone
  <2>3. ASSUME NEW x \in Executor, LoseOrRepeat(x)
        PROVE  Recorded
    <3>1. job[x].for = StartEvent /\ Working(x, "apply") /\ Refused(x)
      BY <2>1, <2>3 DEF LoseOrRepeat
    <3>2. JobStarts(x) /\ Begun
      BY <1>0
    <3> QED
      BY <3>1, <3>2 DEF JobStarts, Begun, Refused
  <2>4. ASSUME NEW e \in Event, Publish(e) \/ HeldRipens(e)
        PROVE  FALSE
    BY <1>0, <1>2, <2>4 DEF Publish, HeldRipens
  <2>5. ASSUME NEW x \in Executor, NEW e \in Event, Deliver(x, e)
        PROVE  FALSE
    BY <1>0, <1>2, <2>5 DEF Deliver
  <2>6. ASSUME NEW x \in Executor, HandlerAborts(x)
        PROVE  FALSE
    BY <1>0, <1>2, <2>6 DEF HandlerAborts
  <2>7. CASE UNCHANGED event
    BY <1>2, <2>7
  <2> QED
    BY <1>0, <2>2, <2>3, <2>4, <2>5, <2>6, <2>7
    DEF Next, Producers, PollSteps, Handler, CreateInstance, HandleTimeout, Apply,
        Ignore, Start, Move, ClaimSteps, Execute, NotifyFails, MarkCompleted, MarkFailed,
        SchedulerStep, StepThrows, WorkerDies, Time, StepRipens, workflowVars, vars
<1> QED
  BY <1>1, <1>2

LEMMA CompletedScheduled ==
  ASSUME StartInv, [Next]_vars, step'[InitialStep].status = "completed"
  PROVE  action'[Timeout].state # "none"
<1>0. /\ action[Timeout].state # "none" => action'[Timeout].state # "none"
      /\ step \in [Step -> StepRow] /\ InitialStep \in Step
      /\ \A x \in Executor : JobStarts(x) /\ JobHolds(job[x])
  BY StartParts, InitialStepIsOne DEF StartInv, JobsHold
<1>1. CASE step[InitialStep].status = "completed"
  BY <1>0, <1>1 DEF StartInv, StartedInFull, InitialStep
<1>2. ASSUME step[InitialStep].status # "completed"
      PROVE  action'[Timeout].state # "none"
  <2>1. ASSUME NEW x \in Executor, MarkCompleted(x)
        PROVE  action[Timeout].state # "none"
    <3>1. job[x].hand = InitialStep
      BY <1>0, <1>2, <2>1 DEF MarkCompleted
    <3> QED
      BY <1>0, <2>1, <3>1 DEF MarkCompleted, JobStarts
  <2>2. ASSUME NEW x \in Executor, MarkFailed(x)
        PROVE  FALSE
    BY <1>0, <1>2, <2>2 DEF MarkFailed, StepRow
  <2>3. ASSUME NEW x \in Executor, ClaimSteps(x)
        PROVE  FALSE
    BY <1>0, <1>2, <2>3 DEF ClaimSteps
  <2>4. ASSUME NEW k \in Step, StepRipens(k)
        PROVE  FALSE
    BY <1>0, <1>2, <2>4 DEF StepRipens, StepRow
  <2>5. ASSUME NEW k, Record(k)
        PROVE  FALSE
    BY <1>0, <1>2, <2>5 DEF Record
  <2>6. ASSUME NEW x \in Executor, Start(x) \/ Move(x)
        PROVE  FALSE
    BY <2>5, <2>6 DEF Start, Move
  <2>7. CASE UNCHANGED step
    BY <1>2, <2>7
  <2> QED
    BY <1>0, <2>1, <2>2, <2>3, <2>4, <2>6, <2>7
    DEF Next, Publish, Producers, Deliver, PollSteps, Handler, CreateInstance, HandleTimeout,
        ReadInstance, Apply, LoseOrRepeat, Ignore, Execute, NotifyFails, StepsDone,
        SchedulerStep, StepThrows, HandlerAborts, WorkerDies, Time, HeldRipens,
        workflowVars, vars
<1> QED
  BY <1>1, <1>2

LEMMA StartInvStep ==
  ASSUME StartInv, [Next]_vars, AwaitsTimeout
  PROVE  StartInv'
<1>1. WorkflowInv'
  BY WorkflowInvStep DEF StartInv
<1>2. Handed'
  BY StartParts, HandedStep DEF StartInv
<1>3. \A x \in Executor : JobStarts(x)'
  BY JobStartsStep
<1>4. StartedInFull'
  BY SettledRecorded, CompletedScheduled DEF StartedInFull, Recorded, InitialStep
<1> QED
  BY <1>1, <1>2, <1>3, <1>4, BegunStep DEF StartInv

LEMMA StartInvInit == Init => StartInv
<1> SUFFICES ASSUME Init
             PROVE  StartInv
  OBVIOUS
<1>1. WorkflowInv
  BY WorkflowInvInit
<1>2. /\ inst = Nothing /\ StartEvent \in Event /\ StartEvent \in Signal
      /\ signal[StartEvent] = "no" /\ action[Timeout].state = "none"
      /\ event[StartEvent] = "none"
      /\ step[InitialStep].status = "none"
      /\ \A x \in Executor : job[x] = NoJob /\ drain[x].pc = "idle"
  BY InitialStepIsOne, SignalFacts, WorkflowAssumption
     DEF Init, SchedulerInit, NoDrain, Unscheduled
<1>3. ASSUME NEW x \in Executor
      PROVE  JobStarts(x)
  BY <1>2, SignalFacts, WorkflowAssumption DEF JobStarts, HoldsStep, Working, NoJob
<1>4. Handed /\ Begun /\ StartedInFull
  BY <1>2 DEF Handed, Begun, StartedInFull, InitialStep
<1> QED
  BY <1>1, <1>3, <1>4 DEF StartInv

(* When the definition lets no event move an instance out of its initial   *)
(* state, a starting event is settled only with its initial step recorded, *)
(* and that step completed only with its timeout scheduled: whoever        *)
(* crashes between createInstance(), applySignal() and the executors of    *)
(* engine.js, and however often the outbox delivers the event again.       *)
THEOREM StartsInFull == ASSUME AwaitsTimeout PROVE Spec => []StartedInFull
<1>1. StartInv /\ [Next]_vars => StartInv'
  BY StartInvStep
<1>2. StartInv => StartedInFull
  BY DEF StartInv
<1> QED
  BY <1>1, <1>2, StartInvInit, PTL DEF Spec
=============================================================================
