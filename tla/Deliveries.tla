----------------------------- MODULE Deliveries -----------------------------
(***************************************************************************)
(* What the outbox promises of the deliveries of its events, whoever       *)
(* processes them and however often: a published event is owed to each of  *)
(* its consumers until it is completed or abandoned, and that is final;    *)
(* it is completed only when the consumer has handled it, and abandoned    *)
(* only after as many tries as the outbox allows.                          *)
(***************************************************************************)
EXTENDS Naturals

CONSTANTS
  Delivery,     (* what is to be delivered, to whom                         *)
  Unwanted,     (* deliveries their consumer does not subscribe to          *)
  MaxAttempts   (* tries before a delivery may be abandoned                 *)

VARIABLES
  outcome,      (* [Delivery -> unpublished, owed, completed or abandoned]  *)
  tries,        (* [Delivery -> Nat]                                        *)
  handled       (* deliveries a consumer handled at least once              *)

vars == <<outcome, tries, handled>>

Init == /\ outcome = [d \in Delivery |-> "unpublished"]
        /\ tries = [d \in Delivery |-> 0]
        /\ handled = {}

(* An event's deliveries come into being together. *)
Publish(D) ==
  /\ \A d \in D : outcome[d] = "unpublished"
  /\ outcome' = [d \in Delivery |-> IF d \in D THEN "owed" ELSE outcome[d]]
  /\ UNCHANGED <<tries, handled>>

Try(d) ==
  /\ outcome[d] = "owed"
  /\ tries' = [tries EXCEPT ![d] = tries[d] + 1]
  /\ UNCHANGED <<outcome, handled>>

Handle(d) ==
  /\ outcome[d] = "owed"
  /\ tries[d] > 0
  /\ handled' = handled \cup {d}
  /\ UNCHANGED <<outcome, tries>>

Complete(d) ==
  /\ outcome[d] = "owed"
  /\ d \in handled \cup Unwanted
  /\ outcome' = [outcome EXCEPT ![d] = "completed"]
  /\ UNCHANGED <<tries, handled>>

Abandon(d) ==
  /\ outcome[d] = "owed"
  /\ tries[d] >= MaxAttempts
  /\ outcome' = [outcome EXCEPT ![d] = "abandoned"]
  /\ UNCHANGED <<tries, handled>>

Next == \/ \E D \in SUBSET Delivery : Publish(D)
        \/ \E d \in Delivery : Try(d) \/ Handle(d) \/ Complete(d) \/ Abandon(d)

Spec == Init /\ [][Next]_vars
=============================================================================
