-------------------------- MODULE MCBookingLifecycle -------------------------
(***************************************************************************)
(* The booking lifecycle on small instances.  Runs that look further than  *)
(* a first booking begin at a state Spec reaches: c1 booked at s1, and     *)
(* offers outstanding.                                                     *)
(***************************************************************************)
EXTENDS BookingLifecycle

CONSTANTS c1, c2, c3, k1, s1, s2, s3, r1, r2, r3, p1, p2, none

AllInstants == {k1} \X Start

Target(offered) == [s \in Start |-> IF s \in offered THEN k1 ELSE None]

Offered(offered) == [NoRow EXCEPT !.status = "offered", !.native = TRUE,
                                  !.offered = offered,
                                  !.targets = Target(offered)]

BookedRow == [Offered({s1}) EXCEPT !.status = "booked", !.calendar = k1,
                                   !.start = s1, !.event = c1]

(* the offer of offerReschedule for c1, and the offer of a new booking *)
MoveOffer  == [Offered(Start \ {s1}) EXCEPT !.calendar = k1, !.rescheduleOf = c1]
FreshOffer == Offered(Start \ {s1})

OpeningInit(third) ==
  /\ rows = [c \in Context |-> CASE c = c1 -> BookedRow
                                 [] c = c3 -> third
                                 [] OTHER  -> MoveOffer]
  /\ parked = <<>>
  /\ event = [c \in Context |-> IF c = c1 THEN [calendar |-> k1, start |-> s1]
                                          ELSE None]
  /\ creates = [c \in Context |-> IF c = c1 THEN 1 ELSE 0]
  /\ told = [c \in Context |-> IF c = c1 THEN "booked" ELSE "nothing"]
  /\ filled = {}
  /\ req = [r \in Request |-> Idle]
  /\ write = [r \in Request |-> "none"]
  /\ offering = {}
  /\ rec = [k \in Reconciler |-> IdlePass]

(* Two reschedule offers are outstanding for one booking. *)
TwoMovesSpec == OpeningInit(MoveOffer) /\ [][Next]_vars

(* One reschedule offer, and one offer of a new booking.  The requests are *)
(* interchangeable and serve once, so r2 may as well begin after r1.  That *)
(* only a request after another can meet an event moved off its row is     *)
(* said apart, for TLC to count it.                                        *)
InTurn ==
  \/ \E c \in Context :
       \/ Offer(c) \/ Lapse(c) \/ BeginOfferReschedule(c) \/ Elapse(c)
       \/ \E o \in Context : OfferReschedule(c, o)
  \/ RequestNext(r1)
  \/ req[r1].pc # "idle" /\ RequestNext(r2)
  \/ CancelMismatch(r2)
  \/ ProviderNext
  \/ \E k \in Reconciler : ReconcilerNext(k)

MixedFairSpec == OpeningInit(FreshOffer) /\ [][InTurn]_vars /\ Fairness

RequestSymmetry == Permutations(Request) \cup Permutations(Reconciler)
InstantSymmetry == RequestSymmetry \cup Permutations(Start)
MCSymmetry      == InstantSymmetry \cup Permutations(Context)
=============================================================================
