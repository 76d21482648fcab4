------------------------------ MODULE MCOutbox ------------------------------
(* The outbox on a small instance: two events of different types, two      *)
(* consumers, each subscribed to one of them, and two API instances.       *)
EXTENDS Outbox

CONSTANTS workflow, notices, p1, p2

Consumers == <<workflow, notices>>
Unsubscribed == {<<2, workflow>>, <<1, notices>>}
=============================================================================
