------------------------------ MODULE Scheduler ------------------------------
(***************************************************************************)
(* Scheduled actions: rows with a time to run at and perhaps a time after  *)
(* which they are worthless, and the drains that execute them from several *)
(* processes.  A drain expires what is worthless, lists what is due, and   *)
(* claims, handles and settles one action after the other.                 *)
(*                                                                         *)
(* Every store call is one statement and one step.  Time is abstracted to  *)
(* the moment it matters at: "ripe" says that run_at or next_attempt_at is *)
(* reached, or that a claim is five minutes old, whichever the state of    *)
(* the row asks for.  What a handler does is up to the module that         *)
(* composes this one.  A page of 100 actions is not reached.               *)
(***************************************************************************)
EXTENDS Naturals, FiniteSets

CONSTANTS
  Action,        (* action keys                                             *)
  Expiring,      (* the actions that have an expiresAtMs: reminders         *)
  Withdrawable,  (* the actions their producer may cancel                   *)
  Executor,      (* processes that drain                                    *)
  MaxTries,      (* DEFAULT_MAX_ATTEMPTS, 5                                 *)
  MishapLimit,   (* bound: deaths and store failures                        *)
  Timely,        (* TRUE: no handler outlives its five-minute claim         *)
  Nothing        (* null                                                    *)

ASSUME SchedulerAssumption ==
  /\ MaxTries \in Nat \ {0} /\ MishapLimit \in Nat /\ Timely \in BOOLEAN
  /\ Expiring \subseteq Action /\ Withdrawable \subseteq Action
  /\ Nothing \notin Action

VARIABLES
  action,    (* [Action -> its row]                                         *)
  over,      (* the actions whose expires_at has passed                     *)
  drain,     (* [Executor -> where its drain is]                            *)
  mishaps

schedulerVars == <<action, over, drain, mishaps>>

(* "exhausted" is the code's failed with no next attempt.                  *)
ActionRow == [state : {"none", "pending", "processing", "failed", "exhausted",
                       "completed", "cancelled", "expired"},
              tries : Nat, ripe : BOOLEAN]

DrainRow == [pc    : {"idle", "list", "walk", "handle", "complete", "fail"},
             todo  : SUBSET Action,
             got   : Action \cup {Nothing},
             tries : Nat]                  (* attempts, as the claim left it *)

SchedulerTypeOK ==
  /\ action \in [Action -> ActionRow]
  /\ over \subseteq Action
  /\ drain \in [Executor -> DrainRow]
  /\ mishaps \in 0 .. MishapLimit

Unscheduled == [state |-> "none", tries |-> 0, ripe |-> FALSE]
NoDrain == [pc |-> "idle", todo |-> {}, got |-> Nothing, tries |-> 0]

SchedulerInit ==
  /\ action = [a \in Action |-> Unscheduled]
  /\ over = {}
  /\ drain = [x \in Executor |-> NoDrain]
  /\ mishaps = 0

-----------------------------------------------------------------------------
Settled == {"completed", "cancelled", "expired"}

Draining(x, pc) == drain[x].pc = pc

Handling(x, a) == drain[x].pc \in {"handle", "complete", "fail"} /\ drain[x].got = a

SetAction(a, r) == action' = [action EXCEPT ![a] = r]
SetState(a, st) == SetAction(a, [state |-> st, tries |-> action[a].tries, ripe |-> FALSE])
SetDrain(x, r) == drain' = [drain EXCEPT ![x] = r]
StepTo(x, pc) == SetDrain(x, [drain[x] EXCEPT !.pc = pc])

(* schedule(): an insert that does nothing on a key that is there *)
ScheduleOnce(a) ==
  IF action[a].state = "none" THEN SetState(a, "pending") ELSE UNCHANGED action

Schedule(a) ==
  /\ action[a].state = "none"
  /\ ScheduleOnce(a)
  /\ UNCHANGED <<over, drain, mishaps>>

(* cancel(): anything not settled, whoever is handling it *)
Withdraw(a) ==
  /\ a \in Withdrawable
  /\ action[a].state \notin Settled \cup {"none"}
  /\ SetState(a, "cancelled")
  /\ UNCHANGED <<over, drain, mishaps>>

(* A drain begins with expireDue(). *)
DrainBegins(x) ==
  /\ Draining(x, "idle")
  /\ action' = [a \in Action |->
       IF a \in over /\ action[a].state \notin Settled \cup {"none"}
       THEN [state |-> "expired", tries |-> action[a].tries, ripe |-> FALSE]
       ELSE action[a]]
  /\ StepTo(x, "list")
  /\ UNCHANGED <<over, mishaps>>

(* Mutant: an action in another executor's hands is due. *)
ClaimableHeld(a) ==
  \/ action[a].state = "processing"
  \/ action[a].ripe /\ action[a].state \in {"pending", "failed"}

Claimable(a) ==
  /\ action[a].ripe
  /\ \/ action[a].state \in {"pending", "processing"}
     \/ action[a].state = "failed" /\ action[a].tries < MaxTries

List(x) ==
  /\ Draining(x, "list")
  /\ SetDrain(x, [drain[x] EXCEPT !.pc = "walk", !.todo = {a \in Action : Claimable(a)}])
  /\ UNCHANGED <<action, over, mishaps>>

(* claim(): one conditional update *)
Claim(x, a) ==
  /\ Draining(x, "walk") /\ a \in drain[x].todo
  /\ Claimable(a)
  /\ SetAction(a, [state |-> "processing", tries |-> action[a].tries + 1, ripe |-> FALSE])
  /\ SetDrain(x, [pc |-> "handle", todo |-> drain[x].todo \ {a}, got |-> a,
                  tries |-> action[a].tries + 1])
  /\ UNCHANGED <<over, mishaps>>

ClaimLost(x, a) ==
  /\ Draining(x, "walk") /\ a \in drain[x].todo
  /\ ~Claimable(a)
  /\ SetDrain(x, [drain[x] EXCEPT !.todo = drain[x].todo \ {a}])
  /\ UNCHANGED <<action, over, mishaps>>

DrainEnds(x) ==
  /\ Draining(x, "walk") /\ drain[x].todo = {}
  /\ SetDrain(x, NoDrain)
  /\ UNCHANGED <<action, over, mishaps>>

HandlerReturns(x) ==
  /\ Draining(x, "handle")
  /\ StepTo(x, "complete")
  /\ UNCHANGED <<action, over, mishaps>>

HandlerThrows(x) ==
  /\ Draining(x, "handle")
  /\ StepTo(x, "fail")
  /\ UNCHANGED <<action, over, mishaps>>

Walks(x) ==
  SetDrain(x, [pc |-> "walk", todo |-> drain[x].todo, got |-> Nothing, tries |-> 0])

(* complete() and fail() look neither at the state nor at the attempts.    *)
Complete(x) ==
  /\ Draining(x, "complete")
  /\ SetState(drain[x].got, "completed")
  /\ Walks(x)
  /\ UNCHANGED <<over, mishaps>>

(* Mutant: exhaustion is noticed one attempt late. *)
FailLate(x) ==
  /\ Draining(x, "fail")
  /\ SetState(drain[x].got, IF drain[x].tries > MaxTries THEN "exhausted" ELSE "failed")
  /\ Walks(x)
  /\ UNCHANGED <<over, mishaps>>

Fail(x) ==
  /\ Draining(x, "fail")
  /\ SetState(drain[x].got, IF drain[x].tries >= MaxTries THEN "exhausted" ELSE "failed")
  /\ Walks(x)
  /\ UNCHANGED <<over, mishaps>>

-----------------------------------------------------------------------------
Mishap == mishaps < MishapLimit /\ mishaps' = mishaps + 1

(* The process dies, or the store throws where no handler is at work.      *)
DrainDies(x) ==
  /\ Mishap
  /\ ~Draining(x, "idle")
  /\ SetDrain(x, NoDrain)
  /\ UNCHANGED <<action, over>>

(* The handler throws, or the completion does. *)
HandlerFails(x) ==
  /\ Mishap
  /\ drain[x].pc \in {"handle", "complete"}
  /\ StepTo(x, "fail")
  /\ UNCHANGED <<action, over>>

(* The completion is committed and its answer lost: failed all the same.   *)
CompletionUnanswered(x) ==
  /\ Mishap
  /\ Draining(x, "complete")
  /\ SetState(drain[x].got, "completed")
  /\ StepTo(x, "fail")
  /\ UNCHANGED over

(* Time passes: for what is pending, failed, or held by nobody on time.    *)
Ripens(a) ==
  /\ action[a].state \in {"pending", "failed", "processing"} /\ ~action[a].ripe
  /\ action[a].state = "processing" /\ Timely => \A x \in Executor : ~Handling(x, a)
  /\ SetAction(a, [action[a] EXCEPT !.ripe = TRUE])
  /\ UNCHANGED <<over, drain, mishaps>>

(* expires_at comes after run_at. *)
GoesStale(a) ==
  /\ a \in Expiring \ over
  /\ action[a].state # "none"
  /\ action[a].state = "pending" => action[a].ripe
  /\ over' = over \cup {a}
  /\ UNCHANGED <<action, drain, mishaps>>

-----------------------------------------------------------------------------
(* What a drain does between its handlers. *)
DrainStep(x) ==
  \/ List(x) \/ DrainEnds(x) \/ Complete(x) \/ Fail(x)
  \/ \E a \in drain[x].todo : Claim(x, a) \/ ClaimLost(x, a)

SchedulerTime == \E a \in Action : Ripens(a) \/ GoesStale(a)

SchedulerNext ==
  \/ \E a \in Action : Schedule(a) \/ Withdraw(a)
  \/ \E x \in Executor : DrainBegins(x) \/ DrainStep(x) \/ DrainDies(x)
  \/ \E x \in Executor : HandlerReturns(x) \/ HandlerThrows(x) \/ HandlerFails(x)
                         \/ CompletionUnanswered(x)
  \/ SchedulerTime

SchedulerSpec == SchedulerInit /\ [][SchedulerNext]_schedulerVars

-----------------------------------------------------------------------------
(* "At most one concurrent executor per action": from a claim to its       *)
(* settlement an action is in the hands of one executor, although a drain  *)
(* works through a list that others work through too, a handler's failure  *)
(* reopens what was cancelled or expired under it, and claims go stale.    *)
OneExecutor ==
  \A x, y \in Executor : \A a \in Action : Handling(x, a) /\ Handling(y, a) => x = y

=============================================================================
