------------------------------- MODULE Outbox -------------------------------
(***************************************************************************)
(* The durable event outbox: events published with the business change     *)
(* that causes them, one delivery row per event and consumer, and the      *)
(* drains of several processes over them.                                  *)
(*                                                                         *)
(* A delivery's clock is the field ripe: a failed row's next_attempt_at    *)
(* has come, or a processing row's updated_at is OUTBOX_STALE_PROCESSING_MS*)
(* old.  An event's id is drawn before its transaction commits, so ids may *)
(* become visible in any order.                                            *)
(***************************************************************************)
EXTENDS Naturals, Sequences, FiniteSets, Functions

CONSTANTS
  EventId,         (* outbox_events ids                                     *)
  Registered,      (* the consumers, in the order of register()             *)
  Unwanted,        (* <<event, consumer>> pairs of an unsubscribed type     *)
  Process,         (* API instances; each has at most one drain under way   *)
  MaxAttempts,     (* DEFAULT_MAX_ATTEMPTS: 5                               *)
  PageLimit,       (* events a drain lists per consumer: 100                *)
  MishapLimit,     (* bound: crashes and store failures in a behaviour      *)
  HandlersTimely,  (* TRUE: a delivery's handler and its update are over    *)
                   (*   before the claim is stale, unless the process died  *)
  CommitsAnswered  (* TRUE: a store call that throws has not committed      *)

ASSUME OutboxAssumption ==
  /\ EventId \subseteq Nat \ {0}
  /\ Registered \in Seq(Range(Registered)) /\ IsInjective(Registered)
  /\ Unwanted \subseteq EventId \X Range(Registered)
  /\ MaxAttempts \in Nat \ {0} /\ PageLimit \in Nat \ {0} /\ MishapLimit \in Nat
  /\ {HandlersTimely, CommitsAnswered} \subseteq BOOLEAN

Consumer == Range(Registered)
Delivery == EventId \X Consumer

VARIABLES
  published,    (* the ids in outbox_events                                 *)
  delivery,     (* [Delivery -> [status, attempts, ripe]]                   *)
  drain,        (* [Process -> its drain]                                   *)
  handled,      (* deliveries whose handler returned at least once          *)
  mishaps       (* crashes and store failures so far                        *)

vars == <<published, delivery, drain, handled, mishaps>>

NoDelivery == [status |-> "none", attempts |-> 0, ripe |-> FALSE]

DeliveryRow == {NoDelivery} \cup
  [status   : {"processing", "completed", "failed", "abandoned"},
   attempts : Nat \ {0},
   ripe     : BOOLEAN]

Drain == [pc      : {"idle", "list", "next", "handling", "completing", "failing"},
          turn    : Nat \ {0},          (* the consumer's place, in order  *)
          queue   : SUBSET EventId,    (* what is left of its page           *)
          event   : EventId \cup {0},  (* in hand, or 0                      *)
          attempt : Nat]               (* claimed.attempts                   *)

OutboxTypeOK ==
  /\ published \subseteq EventId
  /\ delivery \in [Delivery -> DeliveryRow]
  /\ drain \in [Process -> Drain]
  /\ handled \subseteq Delivery
  /\ mishaps \in 0 .. MishapLimit

Resting    == [pc |-> "idle", turn |-> 1, queue |-> {}, event |-> 0, attempt |-> 0]

Init ==
  /\ published = {}
  /\ delivery = [d \in Delivery |-> NoDelivery]
  /\ drain = [p \in Process |-> Resting]
  /\ handled = {}
  /\ mishaps = 0

-----------------------------------------------------------------------------
At(p, pc) == drain[p].pc = pc

(* The delivery of event e to the consumer whose turn it is. *)
To(p, e) == <<e, Registered[drain[p].turn]>>

(* The delivery a drain has in hand. *)
InHand(p) == To(p, drain[p].event)

Holding(p) == drain[p].pc \in {"handling", "completing", "failing"}

Move(p, r) == drain' = [drain EXCEPT ![p] = r]

Goto(p, pc) == Move(p, [drain[p] EXCEPT !.pc = pc])

(* On to the next event of the page. *)
Advance(p) == Move(p, [drain[p] EXCEPT !.pc = "next", !.event = 0, !.attempt = 0])

Write(d, st) ==
  delivery' = [delivery EXCEPT ![d] =
    [status |-> st, attempts |-> delivery[d].attempts, ripe |-> FALSE]]

(* The n oldest of a set of ids. *)
Oldest(S, n) == {e \in S : Cardinality({f \in S : f < e}) < n}

(* The claim's write, and what the drain does with the delivery: one of an *)
(* unsubscribed event is settled at once.                                  *)
TakeAs(p, e, n) ==
  /\ delivery' = [delivery EXCEPT ![To(p, e)] =
                    [status |-> "processing", attempts |-> n, ripe |-> FALSE]]
  /\ Move(p, [drain[p] EXCEPT
                !.pc = IF To(p, e) \in Unwanted THEN "completing" ELSE "handling",
                !.queue = drain[p].queue \ {e}, !.event = e, !.attempt = n])

TakeRow(p, e) == TakeAs(p, e, delivery[To(p, e)].attempts + 1)

(* Mutant: the row of a processor that died is never taken over. *)
ClaimableFailedOnly(d) ==
  /\ d[1] \in published
  /\ \/ delivery[d].status = "none"
     \/ delivery[d].status = "failed" /\ delivery[d].ripe

Claimable(d) ==
  /\ d[1] \in published
  /\ \/ delivery[d].status = "none"
     \/ delivery[d].status \in {"failed", "processing"} /\ delivery[d].ripe

-----------------------------------------------------------------------------
(* append(), inside the transaction of the business change *)
Publish(e) ==
  /\ e \notin published
  /\ published' = published \cup {e}
  /\ UNCHANGED <<delivery, drain, handled, mishaps>>

(* drain(): from boot, the poller, or a nudge; overlapping ones coalesce *)
DrainBegins(p) ==
  /\ At(p, "idle")
  /\ Goto(p, "list")
  /\ UNCHANGED <<published, delivery, handled, mishaps>>

DrainEnds(p) ==
  /\ At(p, "list")
  /\ drain[p].turn > Len(Registered)
  /\ Move(p, Resting)
  /\ UNCHANGED <<published, delivery, handled, mishaps>>

(* claimable(): a page of the oldest events, by id *)
List(p) ==
  /\ At(p, "list")
  /\ drain[p].turn <= Len(Registered)
  /\ Move(p, [drain[p] EXCEPT !.pc = "next", !.queue =
                Oldest({e \in published : Claimable(To(p, e))}, PageLimit)])
  /\ UNCHANGED <<published, delivery, handled, mishaps>>

NextConsumer(p) ==
  /\ At(p, "next")
  /\ drain[p].queue = {}
  /\ Move(p, [drain[p] EXCEPT !.pc = "list", !.turn = drain[p].turn + 1])
  /\ UNCHANGED <<published, delivery, handled, mishaps>>

(* Mutant: a processing row is claimed however young its claim is. *)
ClaimAny(p) ==
  /\ At(p, "next")
  /\ \E e \in Oldest(drain[p].queue, 1) :
       /\ delivery[To(p, e)].status \in {"none", "failed", "processing"}
       /\ TakeRow(p, e)
  /\ UNCHANGED <<published, handled, mishaps>>

(* claim(): one conditional write *)
Claim(p) ==
  /\ At(p, "next")
  /\ \E e \in Oldest(drain[p].queue, 1) : Claimable(To(p, e)) /\ TakeRow(p, e)
  /\ UNCHANGED <<published, handled, mishaps>>

ClaimLost(p) ==
  /\ At(p, "next")
  /\ \E e \in Oldest(drain[p].queue, 1) :
       /\ ~Claimable(To(p, e))
       /\ Move(p, [drain[p] EXCEPT !.queue = drain[p].queue \ {e}])
  /\ UNCHANGED <<published, delivery, handled, mishaps>>

HandlerReturns(p) ==
  /\ At(p, "handling")
  /\ handled' = handled \cup {InHand(p)}
  /\ Goto(p, "completing")
  /\ UNCHANGED <<published, delivery, mishaps>>

HandlerThrows(p) ==
  /\ At(p, "handling")
  /\ Goto(p, "failing")
  /\ UNCHANGED <<published, delivery, handled, mishaps>>

(* complete() and fail() look at nothing but the key. *)
Complete(p) ==
  /\ At(p, "completing")
  /\ Write(InHand(p), "completed")
  /\ Advance(p)
  /\ UNCHANGED <<published, handled, mishaps>>

FailWhen(p, abandoned) ==
  /\ At(p, "failing")
  /\ Write(InHand(p), IF abandoned THEN "abandoned" ELSE "failed")
  /\ Advance(p)
  /\ UNCHANGED <<published, handled, mishaps>>

(* Mutants: one attempt too few, and one too many. *)
FailEarly(p) == FailWhen(p, drain[p].attempt + 1 >= MaxAttempts)
FailLate(p)  == FailWhen(p, drain[p].attempt > MaxAttempts)

Fail(p) == FailWhen(p, drain[p].attempt >= MaxAttempts)

-----------------------------------------------------------------------------
(* What goes wrong, at most MishapLimit times. *)
Mishap == mishaps < MishapLimit /\ mishaps' = mishaps + 1

(* The store throws on complete(), committed or not.  After a handler, the *)
(* error is taken for the handler's.                                       *)
CompleteThrows(p) ==
  /\ Mishap
  /\ At(p, "completing")
  /\ \/ UNCHANGED delivery
     \/ ~CommitsAnswered /\ Write(InHand(p), "completed")
  /\ IF InHand(p) \in Unwanted THEN Move(p, Resting)
                               ELSE Goto(p, "failing")
  /\ UNCHANGED <<published, handled>>

(* The process dies, or the store throws elsewhere and ends the drain. *)
DrainDies(p) ==
  /\ Mishap
  /\ ~At(p, "idle")
  /\ Move(p, Resting)
  /\ UNCHANGED <<published, delivery, handled>>

(* Time passes for a row that waits: a backoff, or the stale window. *)
Ripen(d) ==
  /\ delivery[d].status \in {"failed", "processing"}
  /\ ~delivery[d].ripe
  /\ HandlersTimely => \A p \in Process : Holding(p) => InHand(p) # d
  /\ delivery' = [delivery EXCEPT ![d] = [delivery[d] EXCEPT !.ripe = TRUE]]
  /\ UNCHANGED <<published, drain, handled, mishaps>>

-----------------------------------------------------------------------------
DrainNext(p) ==
  \/ DrainBegins(p) \/ DrainEnds(p) \/ List(p) \/ NextConsumer(p)
  \/ Claim(p) \/ ClaimLost(p)
  \/ HandlerReturns(p) \/ HandlerThrows(p) \/ Complete(p) \/ Fail(p)

Next ==
  \/ \E e \in EventId : Publish(e)
  \/ \E p \in Process : DrainNext(p) \/ CompleteThrows(p) \/ DrainDies(p)
  \/ \E d \in Delivery : Ripen(d)

Spec == Init /\ [][Next]_vars

(* At least one healthy instance polls, and a healthy instance's drain     *)
(* does not stop: handlers and store calls return or throw.                *)
Fairness == /\ \A p \in Process : WF_vars(DrainNext(p))
            /\ \A d \in Delivery : WF_vars(Ripen(d))

FairSpec == Spec /\ Fairness

-----------------------------------------------------------------------------
(* "At most one processor holds a delivery", across drains, restarts and   *)
(* instances: two are never between the claim and the update of one row.   *)
OneProcessor ==
  \A p, q \in Process :
    Holding(p) /\ Holding(q) /\ InHand(p) = InHand(q) => p = q

(* "failed (bounded retries) -> abandoned (exhausted)": a delivery is      *)
(* claimed no more often than the bound, and once more for each claim a    *)
(* crash or a store failure wasted.                                        *)
AttemptsBounded ==
  \A d \in Delivery : delivery[d].attempts <= MaxAttempts + mishaps

(* "'completed' and 'abandoned' are terminal".                             *)
TerminalIsFinal ==
  [][\A d \in Delivery :
       delivery[d].status \in {"completed", "abandoned"} =>
         delivery'[d].status = delivery[d].status]_vars

(* The drains keep the outbox's promise to each consumer.                  *)
Outcome(d) == IF d[1] \notin published THEN "unpublished"
              ELSE IF delivery[d].status \in {"completed", "abandoned"}
                   THEN delivery[d].status ELSE "owed"

Promised == INSTANCE Deliveries
              WITH outcome <- [d \in Delivery |-> Outcome(d)],
                   tries   <- [d \in Delivery |-> delivery[d].attempts]

PromiseKept == Promised!Spec

(* "Every claimable delivery is EVENTUALLY processed", so every event is   *)
(* settled for every consumer.                                             *)
EverySettled ==
  \A d \in Delivery :
    Outcome(d) = "owed" ~> Outcome(d) \in {"completed", "abandoned"}
=============================================================================
