--------------------------- MODULE Outbox_proofs ---------------------------
(***************************************************************************)
(* Proofs about the outbox, for any events, consumers, instances, bounds   *)
(* and page size.                                                          *)
(***************************************************************************)
EXTENDS Outbox, TLAPS

LEMMA TurnIsConsumer ==
  ASSUME NEW i \in 1 .. Len(Registered)
  PROVE  Registered[i] \in Consumer
<1>1. Registered \in Seq(Consumer)
  BY OutboxAssumption DEF Consumer
<1>2. QED BY <1>1

LEMMA ToIsDelivery ==
  ASSUME NEW p \in Process, NEW e \in EventId,
         drain[p].turn \in 1 .. Len(Registered)
  PROVE  To(p, e) \in Delivery /\ To(p, e)[1] = e
  BY TurnIsConsumer DEF To, Delivery

LEMMA OldestAreMembers ==
  ASSUME NEW S, NEW n
  PROVE  Oldest(S, n) \subseteq S
  BY DEF Oldest

(* Where a drain is: on a consumer, in a page of published events. *)
Placed ==
  \A p \in Process :
    /\ drain[p].pc \notin {"idle", "list"} => drain[p].turn \in 1 .. Len(Registered)
    /\ drain[p].queue \subseteq published
    /\ Holding(p) => drain[p].event \in published

(* The row of a delivery in hand exists. *)
Begun ==
  \A p \in Process : Holding(p) => delivery[InHand(p)].status # "none"

TypeInv == OutboxTypeOK /\ Placed /\ Begun

(* A drain that moves to a record that is well placed, while nothing       *)
(* published is withdrawn, leaves all drains well placed.                  *)
WellPlaced(r) ==
  /\ r.pc \notin {"idle", "list"} => r.turn \in 1 .. Len(Registered)
  /\ r.queue \subseteq published
  /\ r.pc \in {"handling", "completing", "failing"} => r.event \in published

LEMMA MoveType ==
  ASSUME TypeInv, NEW p \in Process, NEW r \in Drain, WellPlaced(r), Move(p, r),
         published' = published
  PROVE  drain' \in [Process -> Drain] /\ Placed'
<1>1. drain' \in [Process -> Drain]
  BY DEF TypeInv, OutboxTypeOK, Move
<1>2. \A q \in Process : drain'[q] = IF q = p THEN r ELSE drain[q]
  BY DEF TypeInv, OutboxTypeOK, Move
<1>3. Placed'
  BY <1>2 DEF TypeInv, Placed, Holding, WellPlaced
<1> QED
  BY <1>1, <1>3

LEMMA RowType ==
  ASSUME TypeInv, NEW d \in Delivery, NEW r \in DeliveryRow,
         delivery' = [delivery EXCEPT ![d] = r]
  PROVE  delivery' \in [Delivery -> DeliveryRow]
BY DEF TypeInv, OutboxTypeOK

(* The delivery in hand is one, and has its row. *)
LEMMA InHandType ==
  ASSUME TypeInv, NEW p \in Process, Holding(p)
  PROVE  InHand(p) \in Delivery /\ InHand(p)[1] \in published
BY ToIsDelivery DEF TypeInv, OutboxTypeOK, Placed, Holding, InHand, Drain

(* What the updates of outcomes write is a row. *)
LEMMA WriteType ==
  ASSUME TypeInv, NEW d \in Delivery,
         NEW st \in {"completed", "failed", "abandoned"},
         delivery[d].status # "none", Write(d, st)
  PROVE  delivery' \in [Delivery -> DeliveryRow]
<1> DEFINE r == [status |-> st, attempts |-> delivery[d].attempts, ripe |-> FALSE]
<1>1. delivery[d] \in DeliveryRow /\ delivery[d] # NoDelivery
  BY DEF TypeInv, OutboxTypeOK, NoDelivery
<1>2. r \in DeliveryRow
  BY <1>1 DEF DeliveryRow
<1>3. delivery' = [delivery EXCEPT ![d] = r]
  BY DEF Write
<1> HIDE DEF r
<1> QED
  BY <1>2, <1>3, RowType

-----------------------------------------------------------------------------
(* The records a drain moves to *)

LEMMA RestingType == Resting \in Drain /\ WellPlaced(Resting)
BY DEF Resting, Drain, WellPlaced

(* A claim takes an event of the page. *)
LEMMA TakeType ==
  ASSUME TypeInv, NEW p \in Process, NEW e \in drain[p].queue, At(p, "next"),
         Claimable(To(p, e)), TakeRow(p, e), published' = published
  PROVE  /\ e \in EventId /\ To(p, e) \in Delivery /\ To(p, e)[1] = e
         /\ delivery' = [delivery EXCEPT ![To(p, e)] =
              [status |-> "processing", attempts |-> delivery[To(p, e)].attempts + 1,
               ripe |-> FALSE]]
         /\ delivery' \in [Delivery -> DeliveryRow]
         /\ drain' \in [Process -> Drain] /\ Placed'
         /\ drain'[p].turn = drain[p].turn /\ drain'[p].event = e
         /\ drain'[p].attempt = delivery[To(p, e)].attempts + 1
         /\ drain'[p].pc = IF To(p, e) \in Unwanted THEN "completing" ELSE "handling"
         /\ \A q \in Process \ {p} : drain'[q] = drain[q]
<1> DEFINE d == To(p, e)
           n == delivery[d].attempts + 1
           pc == IF d \in Unwanted THEN "completing" ELSE "handling"
           row == [status |-> "processing", attempts |-> n, ripe |-> FALSE]
           r == [drain[p] EXCEPT !.pc = pc, !.queue = drain[p].queue \ {e},
                                 !.event = e, !.attempt = n]
<1>1. drain[p] \in Drain /\ drain \in [Process -> Drain]
  BY DEF TypeInv, OutboxTypeOK
<1>2. e \in EventId /\ drain[p].turn \in 1 .. Len(Registered) /\ e \in published
      /\ drain[p].queue \subseteq published
  BY <1>1 DEF Drain, At, TypeInv, Placed
<1>3. d \in Delivery /\ d[1] = e
  BY <1>2, ToIsDelivery
<1>4. delivery[d].attempts \in Nat
  BY <1>3 DEF TypeInv, OutboxTypeOK, DeliveryRow, NoDelivery
<1>5. n \in Nat \ {0} /\ pc \in {"completing", "handling"}
  BY <1>4
<1>6. row \in DeliveryRow /\ delivery' = [delivery EXCEPT ![d] = row]
  BY <1>5 DEF DeliveryRow, TakeRow, TakeAs
<1>7. Move(p, r)
  BY DEF TakeRow, TakeAs
<1> HIDE DEF row, n, pc, d
<1>8. /\ r \in Drain /\ r.pc = pc /\ r.event = e /\ r.attempt = n
      /\ r.turn = drain[p].turn /\ r.queue = drain[p].queue \ {e}
  BY <1>1, <1>2, <1>5 DEF Drain
<1> HIDE DEF r
<1>9. WellPlaced(r)
  BY <1>2, <1>8 DEF WellPlaced
<1>10. drain'[p] = r /\ \A q \in Process \ {p} : drain'[q] = drain[q]
  BY <1>1, <1>7 DEF Move
<1>11. drain' \in [Process -> Drain] /\ Placed'
  BY <1>7, <1>8, <1>9, MoveType
<1>12. delivery' \in [Delivery -> DeliveryRow]
  BY <1>3, <1>6, RowType
<1> QED
  BY <1>2, <1>3, <1>6, <1>8, <1>10, <1>11, <1>12 DEF row, n, pc, d

(* A drain that stays on its delivery, or lets go of it. *)
LEMMA StayType ==
  ASSUME TypeInv, NEW p \in Process, Holding(p), published' = published,
         NEW pc \in {"completing", "failing"}, Goto(p, pc)
  PROVE  /\ drain' \in [Process -> Drain] /\ Placed'
         /\ drain'[p].pc = pc /\ drain'[p].turn = drain[p].turn
         /\ drain'[p].event = drain[p].event /\ drain'[p].attempt = drain[p].attempt
         /\ \A q \in Process \ {p} : drain'[q] = drain[q]
<1> DEFINE r == [drain[p] EXCEPT !.pc = pc]
<1>1. drain[p] \in Drain /\ drain \in [Process -> Drain]
  BY DEF TypeInv, OutboxTypeOK
<1>2. /\ r \in Drain /\ r.pc = pc /\ r.turn = drain[p].turn
      /\ r.queue = drain[p].queue
      /\ r.event = drain[p].event /\ r.attempt = drain[p].attempt
  BY <1>1 DEF Drain
<1>3. Move(p, r)
  BY DEF Goto
<1> HIDE DEF r
<1>4. WellPlaced(r)
  BY <1>2 DEF WellPlaced, TypeInv, Placed, Holding
<1> QED
  BY <1>1, <1>2, <1>3, <1>4, MoveType DEF Move

LEMMA AdvanceType ==
  ASSUME TypeInv, NEW p \in Process, Holding(p), published' = published, Advance(p)
  PROVE  /\ drain' \in [Process -> Drain] /\ Placed'
         /\ drain'[p].pc = "next"
         /\ \A q \in Process \ {p} : drain'[q] = drain[q]
<1> DEFINE r == [drain[p] EXCEPT !.pc = "next", !.event = 0, !.attempt = 0]
<1>1. drain[p] \in Drain /\ drain \in [Process -> Drain]
  BY DEF TypeInv, OutboxTypeOK
<1>2. r \in Drain /\ r.pc = "next" /\ r.turn = drain[p].turn /\ r.queue = drain[p].queue
  BY <1>1 DEF Drain
<1>3. Move(p, r)
  BY DEF Advance
<1> HIDE DEF r
<1>4. WellPlaced(r)
  BY <1>2 DEF WellPlaced, TypeInv, Placed, Holding
<1> QED
  BY <1>1, <1>2, <1>3, <1>4, MoveType DEF Move

(* A step of one drain that makes no row vanish. *)
LEMMA BegunKept ==
  ASSUME TypeInv, NEW p \in Process,
         \A q \in Process \ {p} : drain'[q] = drain[q],
         \A d \in Delivery : delivery[d].status # "none" => delivery'[d].status # "none",
         Holding(p)' => delivery'[InHand(p)'].status # "none"
  PROVE  Begun'
<1> SUFFICES ASSUME NEW q \in Process, Holding(q)'
             PROVE  delivery'[InHand(q)'].status # "none"
  BY DEF Begun
<1>1. CASE q = p
  BY <1>1
<1>2. CASE q # p
  <2>1. Holding(q) /\ InHand(q)' = InHand(q)
    BY <1>2 DEF Holding, InHand, To
  <2> QED
    BY <2>1, InHandType DEF TypeInv, Begun
<1> QED
  BY <1>1, <1>2

(* A drain that ends, for whatever reason. *)
LEMMA RestType ==
  ASSUME TypeInv, NEW p \in Process, Move(p, Resting), published' = published
  PROVE  /\ drain' \in [Process -> Drain] /\ Placed'
         /\ drain'[p] = Resting /\ ~Holding(p)'
         /\ \A q \in Process \ {p} : drain'[q] = drain[q]
<1>1. drain' \in [Process -> Drain] /\ Placed'
  BY RestingType, MoveType
<1>2. drain'[p] = Resting /\ \A q \in Process \ {p} : drain'[q] = drain[q]
  BY DEF Move, TypeInv, OutboxTypeOK
<1>3. Resting.pc = "idle"
  BY DEF Resting
<1> QED
  BY <1>1, <1>2, <1>3 DEF Holding

(* A drain between deliveries takes a step that leaves it there. *)
LEMMA IdleType ==
  ASSUME TypeInv, NEW p \in Process, NEW r \in Drain, WellPlaced(r), Move(p, r),
         r.pc \in {"idle", "list", "next"}, published' = published,
         UNCHANGED <<delivery, handled, mishaps>>
  PROVE  /\ TypeInv' /\ ~Holding(p)'
         /\ \A q \in Process \ {p} : drain'[q] = drain[q]
<1>1. drain' \in [Process -> Drain] /\ Placed'
  BY MoveType
<1>2. drain'[p] = r /\ \A q \in Process \ {p} : drain'[q] = drain[q]
  BY DEF Move, TypeInv, OutboxTypeOK
<1>3. ~Holding(p)'
  BY <1>2 DEF Holding
<1>4. Begun'
  BY <1>2, <1>3, BegunKept
<1> QED
  BY <1>1, <1>2, <1>3, <1>4 DEF TypeInv, OutboxTypeOK

(* What the steps between deliveries do: they only move their own drain.   *)
IdleMove(p) ==
  /\ ~Holding(p) /\ ~Holding(p)'
  /\ \A q \in Process \ {p} : drain'[q] = drain[q]
  /\ UNCHANGED <<published, delivery, handled, mishaps>>

LEMMA IdleSteps ==
  ASSUME TypeInv, NEW p \in Process,
         DrainBegins(p) \/ DrainEnds(p) \/ List(p) \/ NextConsumer(p) \/ ClaimLost(p)
  PROVE  TypeInv' /\ IdleMove(p)
<1>0. drain[p] \in Drain
  BY DEF TypeInv, OutboxTypeOK
<1> DEFINE Goal == TypeInv' /\ IdleMove(p)
<1>a. ASSUME NEW r \in Drain, WellPlaced(r), Move(p, r), r.pc \in {"idle", "list", "next"},
             UNCHANGED <<published, delivery, handled, mishaps>>,
             drain[p].pc \in {"idle", "list", "next"}
      PROVE  Goal
  BY <1>a, IdleType DEF IdleMove, Holding
<1> HIDE DEF Goal
<1>1. ASSUME DrainBegins(p) PROVE Goal
  <2> DEFINE r == [drain[p] EXCEPT !.pc = "list"]
  <2>1. r \in Drain /\ r.pc = "list" /\ r.queue = drain[p].queue
    BY <1>0 DEF Drain
  <2>2. Move(p, r)
    BY <1>1 DEF DrainBegins, Goto
  <2> HIDE DEF r
  <2>3. WellPlaced(r)
    BY <2>1 DEF WellPlaced, TypeInv, Placed
  <2> QED
    BY <1>1, <1>a, <2>1, <2>2, <2>3 DEF DrainBegins, At
<1>2. ASSUME DrainEnds(p) PROVE Goal
  BY <1>2, <1>a, RestingType DEF DrainEnds, At, Resting
<1>3. ASSUME List(p) PROVE Goal
  <2> DEFINE page == Oldest({e \in published : Claimable(To(p, e))}, PageLimit)
             r == [drain[p] EXCEPT !.pc = "next", !.queue = page]
  <2>1. page \subseteq published
    BY DEF Oldest
  <2>2. published \subseteq EventId
    BY DEF TypeInv, OutboxTypeOK
  <2>3. Move(p, r)
    BY <1>3 DEF List
  <2> HIDE DEF page
  <2>4. r \in Drain /\ r.pc = "next" /\ r.turn = drain[p].turn /\ r.queue = page
    BY <1>0, <2>1, <2>2 DEF Drain
  <2> HIDE DEF r
  <2>5. WellPlaced(r)
    BY <1>0, <1>3, <2>1, <2>4 DEF WellPlaced, List, Drain
  <2> QED
    BY <1>3, <1>a, <2>3, <2>4, <2>5 DEF List, At
<1>4. ASSUME NextConsumer(p) PROVE Goal
  <2> DEFINE r == [drain[p] EXCEPT !.pc = "list", !.turn = drain[p].turn + 1]
  <2>1. drain[p].turn + 1 \in Nat \ {0}
    BY <1>0 DEF Drain
  <2>2. r \in Drain /\ r.pc = "list" /\ r.queue = drain[p].queue
    BY <1>0, <2>1 DEF Drain
  <2>3. Move(p, r)
    BY <1>4 DEF NextConsumer
  <2> HIDE DEF r
  <2>4. WellPlaced(r)
    BY <2>2 DEF WellPlaced, TypeInv, Placed
  <2> QED
    BY <1>4, <1>a, <2>2, <2>3, <2>4 DEF NextConsumer, At
<1>5. ASSUME ClaimLost(p) PROVE Goal
  <2>1. PICK e \in Oldest(drain[p].queue, 1) :
          Move(p, [drain[p] EXCEPT !.queue = drain[p].queue \ {e}])
    BY <1>5 DEF ClaimLost
  <2> DEFINE r == [drain[p] EXCEPT !.queue = drain[p].queue \ {e}]
  <2>2. /\ r \in Drain /\ r.pc = drain[p].pc /\ r.turn = drain[p].turn
        /\ r.queue = drain[p].queue \ {e} /\ r.event = drain[p].event
    BY <1>0 DEF Drain
  <2>3. Move(p, r)
    BY <2>1
  <2> HIDE DEF r
  <2>4. WellPlaced(r)
    BY <1>5, <2>2 DEF WellPlaced, TypeInv, Placed, ClaimLost, At
  <2> QED
    BY <1>5, <1>a, <2>2, <2>3, <2>4 DEF ClaimLost, At
<1> QED
  BY <1>1, <1>2, <1>3, <1>4, <1>5 DEF Goal

LEMMA TypeStep == TypeInv /\ [Next]_vars => TypeInv'
<1> SUFFICES ASSUME TypeInv, [Next]_vars
             PROVE  TypeInv'
  OBVIOUS
<1>1. CASE UNCHANGED vars
  BY <1>1 DEF vars, TypeInv, OutboxTypeOK, Placed, Begun, Holding, InHand, To
<1>2. ASSUME NEW e \in EventId, Publish(e) PROVE TypeInv'
  BY <1>2 DEF Publish, TypeInv, OutboxTypeOK, Placed, Begun, Holding, InHand, To
<1>3. ASSUME NEW p \in Process,
             DrainBegins(p) \/ DrainEnds(p) \/ List(p) \/ NextConsumer(p) \/ ClaimLost(p)
      PROVE  TypeInv'
  BY <1>3, IdleSteps
<1>4. ASSUME NEW p \in Process, Claim(p) PROVE TypeInv'
  <2>1. PICK e \in Oldest(drain[p].queue, 1) : Claimable(To(p, e)) /\ TakeRow(p, e)
    BY <1>4 DEF Claim
  <2>2. e \in drain[p].queue
    BY DEF Oldest
  <2>3. /\ To(p, e) \in Delivery
        /\ delivery' = [delivery EXCEPT ![To(p, e)] =
             [status |-> "processing", attempts |-> delivery[To(p, e)].attempts + 1,
              ripe |-> FALSE]]
        /\ delivery' \in [Delivery -> DeliveryRow]
        /\ drain' \in [Process -> Drain] /\ Placed'
        /\ drain'[p].turn = drain[p].turn /\ drain'[p].event = e
        /\ \A q \in Process \ {p} : drain'[q] = drain[q]
    BY <1>4, <2>1, <2>2, TakeType DEF Claim
  <2>4. InHand(p)' = To(p, e)
    BY <2>3 DEF InHand, To
  <2>5. Begun'
    BY <2>3, <2>4, BegunKept DEF TypeInv, OutboxTypeOK
  <2> QED
    BY <1>4, <2>3, <2>5 DEF Claim, TypeInv, OutboxTypeOK
<1>5. ASSUME NEW p \in Process, HandlerReturns(p) \/ HandlerThrows(p) PROVE TypeInv'
  <2>1. PICK pc \in {"completing", "failing"} : Goto(p, pc)
    BY <1>5 DEF HandlerReturns, HandlerThrows
  <2>2. Holding(p) /\ published' = published /\ delivery' = delivery /\ mishaps' = mishaps
    BY <1>5 DEF HandlerReturns, HandlerThrows, Holding, At
  <2>3. /\ drain' \in [Process -> Drain] /\ Placed'
        /\ drain'[p].turn = drain[p].turn /\ drain'[p].event = drain[p].event
        /\ \A q \in Process \ {p} : drain'[q] = drain[q]
    BY <2>1, <2>2, StayType
  <2>4. InHand(p)' = InHand(p)
    BY <2>3 DEF InHand, To
  <2>5. Begun'
    BY <2>2, <2>3, <2>4, BegunKept DEF TypeInv, Begun
  <2>6. handled' \subseteq Delivery
    BY <1>5, <2>2, InHandType DEF HandlerReturns, HandlerThrows, TypeInv, OutboxTypeOK
  <2> QED
    BY <2>2, <2>3, <2>5, <2>6 DEF TypeInv, OutboxTypeOK
<1>6. ASSUME NEW p \in Process, Complete(p) \/ Fail(p) PROVE TypeInv'
  <2>1. PICK st \in {"completed", "failed", "abandoned"} : Write(InHand(p), st)
    BY <1>6 DEF Complete, Fail, FailWhen
  <2>2. Holding(p) /\ Advance(p) /\ UNCHANGED <<published, handled, mishaps>>
    BY <1>6 DEF Complete, Fail, FailWhen, Holding, At
  <2>3. /\ drain' \in [Process -> Drain] /\ Placed'
        /\ drain'[p].pc = "next"
        /\ \A q \in Process \ {p} : drain'[q] = drain[q]
    BY <2>2, AdvanceType
  <2>4. delivery' \in [Delivery -> DeliveryRow]
    BY <2>1, <2>2, InHandType, WriteType DEF TypeInv, Begun
  <2>5. \A d \in Delivery : delivery[d].status # "none" => delivery'[d].status # "none"
    BY <2>1, <2>2, InHandType DEF Write, TypeInv, OutboxTypeOK
  <2>6. Begun'
    BY <2>3, <2>5, BegunKept DEF Holding
  <2> QED
    BY <2>2, <2>3, <2>4, <2>6 DEF TypeInv, OutboxTypeOK
<1>7. ASSUME NEW p \in Process, CompleteThrows(p) PROVE TypeInv'
  <2>1. Holding(p) /\ published' = published /\ handled' = handled
        /\ mishaps' \in 0 .. MishapLimit
    BY <1>7, OutboxAssumption DEF CompleteThrows, Mishap, Holding, At, TypeInv, OutboxTypeOK
  <2>2. delivery' = delivery \/ Write(InHand(p), "completed")
    BY <1>7 DEF CompleteThrows
  <2>3. delivery' \in [Delivery -> DeliveryRow]
    BY <2>1, <2>2, InHandType, WriteType DEF TypeInv, Begun, OutboxTypeOK
  <2>4. \A d \in Delivery : delivery[d].status # "none" => delivery'[d].status # "none"
    BY <2>1, <2>2, InHandType DEF Write, TypeInv, OutboxTypeOK
  <2>5. ASSUME Move(p, Resting) PROVE TypeInv'
    <3>1. drain' \in [Process -> Drain] /\ Placed' /\ Begun'
      BY <2>1, <2>4, <2>5, RestType, BegunKept
    <3> QED
      BY <2>1, <2>3, <3>1 DEF TypeInv, OutboxTypeOK
  <2>6. ASSUME Goto(p, "failing") PROVE TypeInv'
    <3>1. /\ drain' \in [Process -> Drain] /\ Placed'
          /\ drain'[p].turn = drain[p].turn /\ drain'[p].event = drain[p].event
          /\ \A q \in Process \ {p} : drain'[q] = drain[q]
      BY <2>1, <2>6, StayType
    <3>2. InHand(p)' = InHand(p)
      BY <3>1 DEF InHand, To
    <3>3. Begun'
      BY <2>1, <2>4, <3>1, <3>2, BegunKept, InHandType DEF TypeInv, Begun
    <3> QED
      BY <2>1, <2>3, <3>1, <3>3 DEF TypeInv, OutboxTypeOK
  <2> QED
    BY <1>7, <2>5, <2>6 DEF CompleteThrows
<1>8. ASSUME NEW p \in Process, DrainDies(p) PROVE TypeInv'
  <2>1. published' = published /\ handled' = handled /\ delivery' = delivery
        /\ mishaps' \in 0 .. MishapLimit /\ Move(p, Resting)
    BY <1>8, OutboxAssumption DEF DrainDies, Mishap, TypeInv, OutboxTypeOK
  <2>2. drain' \in [Process -> Drain] /\ Placed' /\ Begun'
    BY <2>1, RestType, BegunKept
  <2> QED
    BY <2>1, <2>2 DEF TypeInv, OutboxTypeOK
<1>9. ASSUME NEW d \in Delivery, Ripen(d) PROVE TypeInv'
  <2> DEFINE r == [delivery[d] EXCEPT !.ripe = TRUE]
  <2>1. delivery[d] \in DeliveryRow /\ delivery[d].status \in {"failed", "processing"}
    BY <1>9 DEF Ripen, TypeInv, OutboxTypeOK
  <2> DEFINE Rows == [status   : {"processing", "completed", "failed", "abandoned"},
                      attempts : Nat \ {0}, ripe : BOOLEAN]
  <2>a. delivery[d] \in Rows
    BY <2>1 DEF DeliveryRow, NoDelivery
  <2>b. r \in Rows /\ r.status = delivery[d].status
    BY <2>a
  <2>2. r \in DeliveryRow /\ r.status = delivery[d].status
    BY <2>b DEF DeliveryRow
  <2>3. delivery' = [delivery EXCEPT ![d] = r]
    BY <1>9 DEF Ripen
  <2> HIDE DEF r
  <2>4. delivery' \in [Delivery -> DeliveryRow]
    BY <2>2, <2>3, RowType
  <2>5. \A c \in Delivery : delivery'[c].status = delivery[c].status
    BY <2>2, <2>3 DEF TypeInv, OutboxTypeOK
  <2>6. UNCHANGED <<published, drain, handled, mishaps>>
    BY <1>9 DEF Ripen
  <2>7. Placed'
    BY <2>6 DEF TypeInv, Placed, Holding
  <2>8. Begun'
    BY <2>5, <2>6, InHandType DEF TypeInv, Begun, Holding, InHand, To
  <2> QED
    BY <2>4, <2>6, <2>7, <2>8 DEF TypeInv, OutboxTypeOK
<1> QED
  BY <1>1, <1>2, <1>3, <1>4, <1>5, <1>6, <1>7, <1>8, <1>9 DEF Next, DrainNext

LEMMA TypeInit == Init => TypeInv
<1> SUFFICES ASSUME Init PROVE TypeInv
  OBVIOUS
<1>1. \A p \in Process : drain[p] = Resting /\ Resting.pc = "idle" /\ Resting.queue = {}
  BY DEF Init, Resting
<1>2. NoDelivery \in DeliveryRow
  BY DEF DeliveryRow
<1>3. OutboxTypeOK
  BY <1>2, RestingType, OutboxAssumption DEF Init, OutboxTypeOK
<1> QED
  BY <1>1, <1>3 DEF TypeInv, Placed, Begun, Holding

(* Types and places hold of every behaviour of the outbox, with no         *)
(* assumption on how long handlers take or what the store answers.         *)
THEOREM OutboxTypeCorrect == Spec => []OutboxTypeOK
<1>1. TypeInv => OutboxTypeOK
  BY DEF TypeInv
<1> QED
  BY TypeInit, TypeStep, <1>1, PTL DEF Spec

-----------------------------------------------------------------------------
(* One processor per delivery *)

(* Only a published event has deliveries. *)
OnlyPublished ==
  \A d \in Delivery : delivery[d].status # "none" => d[1] \in published

(* The row of a delivery in hand is its holder's young claim, and what is  *)
(* about to be completed was handled or is not subscribed to.              *)
Held ==
  \A p \in Process : Holding(p) =>
    /\ delivery[InHand(p)] = [status |-> "processing", attempts |-> drain[p].attempt,
                              ripe |-> FALSE]
    /\ At(p, "completing") => InHand(p) \in handled \cup Unwanted

OutboxInv == TypeInv /\ OnlyPublished /\ Held /\ OneProcessor

(* What a step of drain p means to the other drains.                       *)
LEMMA OthersKept ==
  ASSUME OutboxInv, NEW p \in Process,
         \A q \in Process \ {p} : drain'[q] = drain[q],
         handled \subseteq handled',
         \A q \in Process \ {p} : Holding(q) => delivery'[InHand(q)] = delivery[InHand(q)],
         Holding(p)' => /\ delivery'[InHand(p)'] = [status |-> "processing",
                              attempts |-> drain'[p].attempt, ripe |-> FALSE]
                        /\ At(p, "completing")' => InHand(p)' \in handled' \cup Unwanted
                        /\ \A q \in Process \ {p} : Holding(q) => InHand(q) # InHand(p)'
  PROVE  Held' /\ OneProcessor'
<1>1. ASSUME NEW q \in Process \ {p}
      PROVE  /\ Holding(q)' <=> Holding(q)
             /\ InHand(q)' = InHand(q) /\ (At(q, "completing")' <=> At(q, "completing"))
  BY DEF Holding, InHand, To, At
<1>2. Held'
  <2> SUFFICES ASSUME NEW q \in Process, Holding(q)'
               PROVE  /\ delivery'[InHand(q)'] = [status |-> "processing",
                            attempts |-> drain'[q].attempt, ripe |-> FALSE]
                      /\ At(q, "completing")' => InHand(q)' \in handled' \cup Unwanted
    BY DEF Held
  <2>1. CASE q = p
    BY <2>1
  <2>2. CASE q # p
    BY <2>2, <1>1 DEF OutboxInv, Held
  <2> QED
    BY <2>1, <2>2
<1>3. OneProcessor'
  <2> SUFFICES ASSUME NEW q \in Process, NEW r \in Process, Holding(q)', Holding(r)',
                      InHand(q)' = InHand(r)', q # r
               PROVE  FALSE
    BY DEF OneProcessor
  <2>1. CASE q # p /\ r # p
    BY <2>1, <1>1 DEF OutboxInv, OneProcessor
  <2>2. CASE q = p \/ r = p
    BY <2>2, <1>1
  <2> QED
    BY <2>1, <2>2
<1> QED
  BY <1>2, <1>3

(* While handlers are timely and a store call that throws has not          *)
(* committed, no step breaks the invariant.                                *)
LEMMA HeldStep ==
  ASSUME HandlersTimely, CommitsAnswered, OutboxInv, [Next]_vars
  PROVE  OutboxInv'
<1>0. TypeInv'
  BY TypeStep DEF OutboxInv
<1> DEFINE Goal == OnlyPublished' /\ Held' /\ OneProcessor'
<1> SUFFICES Goal
  BY <1>0 DEF OutboxInv
<1>t. /\ TypeInv /\ delivery \in [Delivery -> DeliveryRow]
      /\ \A p \in Process : Holding(p) => InHand(p) \in Delivery
  BY InHandType DEF OutboxInv, TypeInv, OutboxTypeOK
<1> HIDE DEF Goal
<1>1. CASE UNCHANGED vars
  BY <1>1 DEF Goal, vars, OutboxInv, OnlyPublished, Held, OneProcessor, Holding, InHand, To, At
<1>2. ASSUME NEW e \in EventId, Publish(e) PROVE Goal
  BY <1>2 DEF Goal, Publish, OutboxInv, OnlyPublished, Held, OneProcessor, Holding, InHand, To, At
<1>3. ASSUME NEW p \in Process,
             DrainBegins(p) \/ DrainEnds(p) \/ List(p) \/ NextConsumer(p) \/ ClaimLost(p)
      PROVE  Goal
  <2>1. IdleMove(p)
    BY <1>3, <1>t, IdleSteps
  <2>2. Held' /\ OneProcessor'
    BY <2>1, OthersKept DEF IdleMove
  <2>3. OnlyPublished'
    BY <2>1 DEF IdleMove, OutboxInv, OnlyPublished
  <2> QED
    BY <2>2, <2>3 DEF Goal
<1>4. ASSUME NEW p \in Process, Claim(p) PROVE Goal
  <2>1. PICK e \in Oldest(drain[p].queue, 1) : Claimable(To(p, e)) /\ TakeRow(p, e)
    BY <1>4 DEF Claim
  <2> DEFINE d == To(p, e)
  <2>2. e \in drain[p].queue
    BY DEF Oldest
  <2>3. /\ d \in Delivery /\ d[1] = e
        /\ delivery' = [delivery EXCEPT ![d] =
             [status |-> "processing", attempts |-> delivery[d].attempts + 1,
              ripe |-> FALSE]]
        /\ drain'[p].turn = drain[p].turn /\ drain'[p].event = e
        /\ drain'[p].attempt = delivery[d].attempts + 1
        /\ drain'[p].pc = IF d \in Unwanted THEN "completing" ELSE "handling"
        /\ \A q \in Process \ {p} : drain'[q] = drain[q]
    BY <1>4, <1>t, <2>1, <2>2, TakeType DEF Claim
  <2>4. InHand(p)' = d
    BY <2>3 DEF InHand, To
  <2> HIDE DEF d
  <2>5. \A q \in Process : Holding(q) => InHand(q) # d
    <3> SUFFICES ASSUME NEW q \in Process, Holding(q), InHand(q) = d
                 PROVE  FALSE
      OBVIOUS
    <3>0. delivery[InHand(q)] = [status |-> "processing", attempts |-> drain[q].attempt,
                                 ripe |-> FALSE]
      BY DEF OutboxInv, Held
    <3>1. delivery[d].status = "processing" /\ delivery[d].ripe = FALSE
      BY <3>0
    <3>2. Claimable(d)
      BY <2>1 DEF d
    <3> QED
      BY <3>1, <3>2 DEF Claimable
  <2>6. UNCHANGED <<published, handled>>
    BY <1>4 DEF Claim
  <2>7. delivery'[d] = [status |-> "processing", attempts |-> drain'[p].attempt,
                        ripe |-> FALSE]
    BY <1>t, <2>3
  <2>8. \A q \in Process \ {p} : Holding(q) => delivery'[InHand(q)] = delivery[InHand(q)]
    BY <1>t, <2>3, <2>5
  <2>9. At(p, "completing")' => d \in Unwanted
    BY <2>3 DEF At
  <2>10. Held' /\ OneProcessor'
    BY <2>3, <2>4, <2>5, <2>6, <2>7, <2>8, <2>9, OthersKept
  <2>11. d[1] \in published
    BY <2>1 DEF d, Claimable
  <2>12. OnlyPublished'
    BY <1>t, <2>3, <2>6, <2>11 DEF OutboxInv, OnlyPublished
  <2> QED
    BY <2>10, <2>12 DEF Goal
<1>5. ASSUME NEW p \in Process, HandlerReturns(p) \/ HandlerThrows(p) PROVE Goal
  <2>1. PICK pc \in {"completing", "failing"} :
          Goto(p, pc) /\ (pc = "completing" => InHand(p) \in handled')
    BY <1>5 DEF HandlerReturns, HandlerThrows
  <2>2. Holding(p) /\ published' = published /\ delivery' = delivery
        /\ handled \subseteq handled'
    BY <1>5 DEF HandlerReturns, HandlerThrows, Holding, At
  <2>3. /\ drain'[p].pc = pc /\ drain'[p].turn = drain[p].turn
        /\ drain'[p].event = drain[p].event /\ drain'[p].attempt = drain[p].attempt
        /\ \A q \in Process \ {p} : drain'[q] = drain[q]
    BY <1>t, <2>1, <2>2, StayType
  <2>4. InHand(p)' = InHand(p)
    BY <2>3 DEF InHand, To
  <2>5. Held' /\ OneProcessor'
    BY <2>1, <2>2, <2>3, <2>4, OthersKept DEF OutboxInv, Held, OneProcessor, At
  <2>6. OnlyPublished'
    BY <2>2 DEF OutboxInv, OnlyPublished
  <2> QED
    BY <2>5, <2>6 DEF Goal
<1>6. ASSUME NEW p \in Process, Complete(p) \/ Fail(p) PROVE Goal
  <2>1. PICK st \in {"completed", "failed", "abandoned"} : Write(InHand(p), st)
    BY <1>6 DEF Complete, Fail, FailWhen
  <2>2. Holding(p) /\ Advance(p) /\ UNCHANGED <<published, handled>>
    BY <1>6 DEF Complete, Fail, FailWhen, Holding, At
  <2>3. drain'[p].pc = "next" /\ \A q \in Process \ {p} : drain'[q] = drain[q]
    BY <1>t, <2>2, AdvanceType
  <2>4. \A q \in Process \ {p} : Holding(q) => InHand(q) # InHand(p)
    BY <2>2 DEF OutboxInv, OneProcessor
  <2>5. \A q \in Process \ {p} : Holding(q) => delivery'[InHand(q)] = delivery[InHand(q)]
    BY <1>t, <2>1, <2>2, <2>4 DEF Write
  <2>6. Held' /\ OneProcessor'
    BY <2>2, <2>3, <2>5, OthersKept DEF Holding
  <2>7. OnlyPublished'
    BY <1>t, <2>1, <2>2, InHandType DEF Write, OutboxInv, OnlyPublished
  <2> QED
    BY <2>6, <2>7 DEF Goal
<1>7. ASSUME NEW p \in Process, CompleteThrows(p) PROVE Goal
  <2>1. Holding(p) /\ UNCHANGED <<published, delivery, handled>>
    BY <1>7 DEF CompleteThrows, Holding, At
  <2>2. OnlyPublished'
    BY <2>1 DEF OutboxInv, OnlyPublished
  <2>3. ASSUME Move(p, Resting) PROVE Goal
    <3>1. ~Holding(p)' /\ \A q \in Process \ {p} : drain'[q] = drain[q]
      BY <1>t, <2>1, <2>3, RestType
    <3> QED
      BY <2>1, <2>2, <3>1, OthersKept DEF Goal
  <2>4. ASSUME Goto(p, "failing") PROVE Goal
    <3>1. /\ drain'[p].pc = "failing" /\ drain'[p].turn = drain[p].turn
          /\ drain'[p].event = drain[p].event /\ drain'[p].attempt = drain[p].attempt
          /\ \A q \in Process \ {p} : drain'[q] = drain[q]
      BY <1>t, <2>1, <2>4, StayType
    <3>2. InHand(p)' = InHand(p)
      BY <3>1 DEF InHand, To
    <3>3. Held' /\ OneProcessor'
      BY <2>1, <3>1, <3>2, OthersKept DEF OutboxInv, Held, OneProcessor, At
    <3> QED
      BY <2>2, <3>3 DEF Goal
  <2> QED
    BY <1>7, <2>3, <2>4 DEF CompleteThrows
<1>8. ASSUME NEW p \in Process, DrainDies(p) PROVE Goal
  <2>1. UNCHANGED <<published, delivery, handled>> /\ Move(p, Resting)
    BY <1>8 DEF DrainDies
  <2>2. ~Holding(p)' /\ \A q \in Process \ {p} : drain'[q] = drain[q]
    BY <1>t, <2>1, RestType
  <2>3. OnlyPublished'
    BY <2>1 DEF OutboxInv, OnlyPublished
  <2> QED
    BY <2>1, <2>2, <2>3, OthersKept DEF Goal
<1>9. ASSUME NEW d \in Delivery, Ripen(d) PROVE Goal
  <2>1. UNCHANGED <<published, drain, handled>>
        /\ \A p \in Process : Holding(p) => InHand(p) # d
    BY <1>9 DEF Ripen
  <2>2. \A c \in Delivery \ {d} : delivery'[c] = delivery[c]
    BY <1>9, <1>t DEF Ripen
  <2>3. \A p \in Process : Holding(p) => delivery'[InHand(p)] = delivery[InHand(p)]
    BY <1>t, <2>1, <2>2
  <2>4. Held' /\ OneProcessor'
    BY <2>1, <2>3 DEF OutboxInv, Held, OneProcessor, Holding, InHand, To, At
  <2>5. delivery[d].status # "none"
    BY <1>9 DEF Ripen
  <2>6. OnlyPublished'
    BY <2>1, <2>2, <2>5 DEF OutboxInv, OnlyPublished
  <2> QED
    BY <2>4, <2>6 DEF Goal
<1> QED
  BY <1>1, <1>2, <1>3, <1>4, <1>5, <1>6, <1>7, <1>8, <1>9 DEF Next, DrainNext

LEMMA OutboxInit == Init => OutboxInv
<1> SUFFICES ASSUME Init PROVE OutboxInv
  OBVIOUS
<1>1. \A p \in Process : ~Holding(p)
  BY DEF Init, Resting, Holding
<1>2. OnlyPublished
  BY DEF Init, NoDelivery, OnlyPublished
<1> QED
  BY <1>1, <1>2, TypeInit DEF OutboxInv, Held, OneProcessor

(* A delivery has at most one processor between its claim and its update,  *)
(* across drains, crashes and any number of instances, as long as no       *)
(* handler outlives the stale window.                                      *)
THEOREM OneProcessorHolds ==
  ASSUME HandlersTimely, CommitsAnswered
  PROVE  Spec => []OneProcessor
<1>1. OutboxInv /\ [Next]_vars => OutboxInv'
  BY HeldStep
<1>2. OutboxInv => OneProcessor
  BY DEF OutboxInv
<1> QED
  BY OutboxInit, <1>1, <1>2, PTL DEF Spec

-----------------------------------------------------------------------------
(* The drains implement the promise *)

Outcomes == [d \in Delivery |-> Outcome(d)]
Tries    == [d \in Delivery |-> delivery[d].attempts]

(* A step that writes one row changes the promise at that delivery only.   *)
LEMMA OneRow ==
  ASSUME TypeInv, NEW d \in Delivery, published' = published,
         \A c \in Delivery \ {d} : delivery'[c] = delivery[c]
  PROVE  /\ Outcomes' = [Outcomes EXCEPT ![d] = Outcome(d)']
         /\ Tries' = [Tries EXCEPT ![d] = delivery'[d].attempts]
<1>1. \A c \in Delivery \ {d} : Outcome(c)' = Outcome(c)
  BY DEF Outcome
<1> QED
  BY <1>1 DEF Outcomes, Tries

LEMMA SameRows ==
  ASSUME UNCHANGED <<published, delivery>>
  PROVE  Outcomes' = Outcomes /\ Tries' = Tries
BY DEF Outcomes, Tries, Outcome

LEMMA PromiseInit == Init => Promised!Init
<1> SUFFICES ASSUME Init PROVE Promised!Init
  OBVIOUS
<1>1. \A d \in Delivery : Outcome(d) = "unpublished" /\ delivery[d].attempts = 0
  BY DEF Init, Outcome, NoDelivery
<1> QED
  BY <1>1 DEF Promised!Init, Init

(* Every step of the outbox is a step of the promise, or does not show.    *)
LEMMA PromiseStep ==
  ASSUME HandlersTimely, CommitsAnswered, OutboxInv, [Next]_vars
  PROVE  \/ Promised!Next
         \/ Outcomes' = Outcomes /\ Tries' = Tries /\ handled' = handled
<1> DEFINE Goal == \/ Promised!Next
                   \/ Outcomes' = Outcomes /\ Tries' = Tries /\ handled' = handled
<1> SUFFICES Goal
  OBVIOUS
<1>t. /\ TypeInv /\ delivery \in [Delivery -> DeliveryRow]
      /\ \A p \in Process : Holding(p) =>
           /\ InHand(p) \in Delivery /\ InHand(p)[1] \in published
           /\ delivery[InHand(p)] = [status |-> "processing",
                                     attempts |-> drain[p].attempt, ripe |-> FALSE]
           /\ At(p, "completing") => InHand(p) \in handled \cup Unwanted
  BY InHandType DEF OutboxInv, TypeInv, OutboxTypeOK, Held
<1>h. ASSUME NEW p \in Process, Holding(p)
      PROVE  /\ InHand(p) \in Delivery /\ Outcomes[InHand(p)] = "owed"
             /\ delivery[InHand(p)].attempts = drain[p].attempt
             /\ Tries[InHand(p)] = drain[p].attempt /\ drain[p].attempt \in Nat \ {0}
  <2>1. InHand(p) \in Delivery /\ InHand(p)[1] \in published
    BY <1>h, <1>t
  <2>2. delivery[InHand(p)] = [status |-> "processing", attempts |-> drain[p].attempt,
                               ripe |-> FALSE]
    BY <1>h, <1>t
  <2>3. /\ delivery[InHand(p)].status = "processing"
        /\ delivery[InHand(p)].attempts = drain[p].attempt
    BY <2>2
  <2>4. delivery[InHand(p)].attempts \in Nat \ {0}
    BY <1>t, <2>1, <2>3 DEF DeliveryRow, NoDelivery
  <2> QED
    BY <2>1, <2>3, <2>4 DEF Outcomes, Outcome, Tries
<1>s. ASSUME UNCHANGED <<published, delivery, handled>> PROVE Goal
  BY <1>s, SameRows
<1>n. ASSUME NEW d \in Delivery,
             Promised!Try(d) \/ Promised!Handle(d) \/ Promised!Complete(d)
               \/ Promised!Abandon(d)
      PROVE  Goal
  BY <1>n DEF Promised!Next
<1>m. ASSUME NEW D \in SUBSET Delivery, Promised!Publish(D) PROVE Goal
  BY <1>m DEF Promised!Next
<1> HIDE DEF Goal
<1>1. CASE UNCHANGED vars
  BY <1>1, <1>s DEF vars
<1>2. ASSUME NEW e \in EventId, Publish(e) PROVE Goal
  <2> DEFINE D == {d \in Delivery : d[1] = e}
  <2>1. \A d \in D : Outcome(d) = "unpublished"
    BY <1>2 DEF Publish, Outcome
  <2>2. \A d \in D : delivery[d].status = "none"
    BY <1>2 DEF Publish, OutboxInv, OnlyPublished
  <2>3. \A d \in D : Outcome(d)' = "owed"
    BY <1>2, <2>2 DEF Publish, Outcome
  <2>4. \A d \in Delivery \ D : Outcome(d)' = Outcome(d)
    BY <1>2 DEF Publish, Outcome
  <2>5. Tries' = Tries /\ handled' = handled
    BY <1>2 DEF Publish, Tries
  <2>6. Promised!Publish(D)
    BY <2>1, <2>3, <2>4, <2>5 DEF Promised!Publish, Tries
  <2> QED
    BY <2>6, <1>m
<1>3. ASSUME NEW p \in Process,
             DrainBegins(p) \/ DrainEnds(p) \/ List(p) \/ NextConsumer(p) \/ ClaimLost(p)
      PROVE  Goal
  BY <1>3, <1>s DEF DrainBegins, DrainEnds, List, NextConsumer, ClaimLost
<1>4. ASSUME NEW p \in Process, Claim(p) PROVE Goal
  <2>1. PICK e \in Oldest(drain[p].queue, 1) : Claimable(To(p, e)) /\ TakeRow(p, e)
    BY <1>4 DEF Claim
  <2>2. e \in drain[p].queue
    BY DEF Oldest
  <2>a. PICK d \in Delivery : d = To(p, e)
    BY <1>4, <1>t, <2>1, <2>2, TakeType DEF Claim
  <2>3. /\ d \in Delivery
        /\ delivery' = [delivery EXCEPT ![d] =
             [status |-> "processing", attempts |-> delivery[d].attempts + 1,
              ripe |-> FALSE]]
    BY <1>4, <1>t, <2>1, <2>2, <2>a, TakeType DEF Claim
  <2>4. Claimable(d)
    BY <2>1, <2>a
  <2>5. published' = published /\ handled' = handled
    BY <1>4 DEF Claim
  <2>6. delivery'[d].status = "processing"
        /\ delivery'[d].attempts = delivery[d].attempts + 1
    BY <1>t, <2>3
  <2>7. Outcome(d) = "owed" /\ Outcome(d)' = "owed"
    BY <2>4, <2>5, <2>6 DEF Claimable, Outcome
  <2>8. \A c \in Delivery \ {d} : delivery'[c] = delivery[c]
    BY <1>t, <2>3
  <2>9. Outcomes' = Outcomes /\ Tries' = [Tries EXCEPT ![d] = Tries[d] + 1]
        /\ Outcomes[d] = "owed"
    <3>1. /\ Outcomes' = [Outcomes EXCEPT ![d] = Outcome(d)']
          /\ Tries' = [Tries EXCEPT ![d] = delivery'[d].attempts]
      BY <1>t, <2>5, <2>8, OneRow
    <3>2. Outcomes[d] = "owed" /\ Tries[d] = delivery[d].attempts
      BY <2>7 DEF Outcomes, Tries
    <3>3. Outcomes' = Outcomes
      BY <3>1, <3>2, <2>7 DEF Outcomes
    <3> QED
      BY <3>1, <3>2, <3>3, <2>6
  <2>10. Promised!Try(d)
    BY <2>5, <2>9 DEF Promised!Try, Outcomes, Tries
  <2> QED
    BY <2>3, <2>10, <1>n
<1>5. ASSUME NEW p \in Process, HandlerReturns(p) PROVE Goal
  <2>1. /\ Holding(p) /\ handled' = handled \cup {InHand(p)}
        /\ UNCHANGED <<published, delivery>>
    BY <1>5 DEF HandlerReturns, Holding, At
  <2>2. Outcomes' = Outcomes /\ Tries' = Tries
    BY <2>1, SameRows
  <2>3. /\ InHand(p) \in Delivery /\ Outcomes[InHand(p)] = "owed"
        /\ Tries[InHand(p)] \in Nat \ {0}
    BY <2>1, <1>h
  <2>4. Promised!Handle(InHand(p))
    BY <2>1, <2>2, <2>3 DEF Promised!Handle, Outcomes, Tries
  <2> QED
    BY <2>3, <2>4, <1>n
<1>6. ASSUME NEW p \in Process, HandlerThrows(p) PROVE Goal
  BY <1>6, <1>s DEF HandlerThrows
<1>7. ASSUME NEW p \in Process, NEW st \in {"completed", "failed", "abandoned"},
             Holding(p), Write(InHand(p), st), UNCHANGED <<published, handled>>
      PROVE  /\ InHand(p) \in Delivery /\ Tries' = Tries
             /\ Outcomes[InHand(p)] = "owed"
             /\ Outcomes' = [Outcomes EXCEPT ![InHand(p)] =
                               IF st = "failed" THEN "owed" ELSE st]
  <2>a. PICK d \in Delivery : d = InHand(p)
    BY <1>7, <1>h
  <2>1. d \in Delivery /\ d[1] \in published /\ Outcomes[d] = "owed"
    BY <1>7, <1>h, <1>t, <2>a
  <2>2. delivery' = [delivery EXCEPT ![d] =
          [status |-> st, attempts |-> delivery[d].attempts, ripe |-> FALSE]]
    BY <1>7, <2>a DEF Write
  <2>3. delivery'[d].status = st /\ delivery'[d].attempts = delivery[d].attempts
        /\ \A c \in Delivery \ {d} : delivery'[c] = delivery[c]
    BY <1>t, <2>1, <2>2
  <2>4. Outcome(d)' = IF st = "failed" THEN "owed" ELSE st
    BY <1>7, <2>1, <2>3 DEF Outcome
  <2>5. /\ Outcomes' = [Outcomes EXCEPT ![d] = Outcome(d)']
        /\ Tries' = [Tries EXCEPT ![d] = delivery'[d].attempts]
    BY <1>7, <1>t, <2>1, <2>3, OneRow
  <2>6. Tries' = Tries
    BY <2>1, <2>3, <2>5 DEF Tries
  <2> QED
    BY <2>a, <2>1, <2>4, <2>5, <2>6
<1>8. ASSUME NEW p \in Process, Complete(p) PROVE Goal
  <2>1. Holding(p) /\ At(p, "completing") /\ Write(InHand(p), "completed")
        /\ UNCHANGED <<published, handled>>
    BY <1>8 DEF Complete, Holding, At
  <2>2. /\ InHand(p) \in Delivery /\ Tries' = Tries /\ Outcomes[InHand(p)] = "owed"
        /\ Outcomes' = [Outcomes EXCEPT ![InHand(p)] = "completed"]
    BY <2>1, <1>7
  <2>3. InHand(p) \in handled \cup Unwanted
    BY <2>1, <1>t
  <2>4. Promised!Complete(InHand(p))
    BY <2>1, <2>2, <2>3 DEF Promised!Complete, Outcomes, Tries
  <2> QED
    BY <2>2, <2>4, <1>n
<1>9. ASSUME NEW p \in Process, Fail(p) PROVE Goal
  <2>1. /\ Holding(p) /\ UNCHANGED <<published, handled>>
        /\ Write(InHand(p), IF drain[p].attempt >= MaxAttempts
                            THEN "abandoned" ELSE "failed")
    BY <1>9 DEF Fail, FailWhen, Holding, At
  <2>2. CASE drain[p].attempt >= MaxAttempts
    <3>1. /\ InHand(p) \in Delivery /\ Tries' = Tries /\ Outcomes[InHand(p)] = "owed"
          /\ Outcomes' = [Outcomes EXCEPT ![InHand(p)] = "abandoned"]
      BY <2>1, <2>2, <1>7
    <3>2. Tries[InHand(p)] >= MaxAttempts
      BY <2>1, <2>2, <1>h
    <3>3. Promised!Abandon(InHand(p))
      BY <2>1, <3>1, <3>2 DEF Promised!Abandon, Outcomes, Tries
    <3> QED
      BY <3>1, <3>3, <1>n
  <2>3. CASE ~(drain[p].attempt >= MaxAttempts)
    <3>1. /\ InHand(p) \in Delivery /\ Tries' = Tries /\ Outcomes[InHand(p)] = "owed"
          /\ Outcomes' = [Outcomes EXCEPT ![InHand(p)] = "owed"]
      BY <2>1, <2>3, <1>7
    <3>2. Outcomes' = Outcomes
      BY <3>1 DEF Outcomes
    <3> QED
      BY <2>1, <3>1, <3>2 DEF Goal
  <2> QED
    BY <2>2, <2>3
<1>10. ASSUME NEW p \in Process, CompleteThrows(p) \/ DrainDies(p) PROVE Goal
  BY <1>10, <1>s DEF CompleteThrows, DrainDies
<1>11. ASSUME NEW d \in Delivery, Ripen(d) PROVE Goal
  <2>1. delivery' = [delivery EXCEPT ![d] = [delivery[d] EXCEPT !.ripe = TRUE]]
        /\ UNCHANGED <<published, handled>>
    BY <1>11 DEF Ripen
  <2>2. delivery[d] \in DeliveryRow
    BY <1>t
  <2>3. delivery'[d].status = delivery[d].status
        /\ delivery'[d].attempts = delivery[d].attempts
    BY <1>t, <2>1, <2>2 DEF DeliveryRow, NoDelivery
  <2>4. \A c \in Delivery : delivery'[c].status = delivery[c].status
                            /\ delivery'[c].attempts = delivery[c].attempts
    BY <1>t, <2>1, <2>3
  <2>5. Outcomes' = Outcomes /\ Tries' = Tries
    BY <2>1, <2>4 DEF Outcomes, Outcome, Tries
  <2> QED
    BY <2>1, <2>5 DEF Goal
<1> QED
  BY <1>1, <1>2, <1>3, <1>4, <1>5, <1>6, <1>8, <1>9, <1>10, <1>11 DEF Next, DrainNext

(* The drains keep the outbox's promise: whatever they do and however they *)
(* die, a delivery is owed until it is completed, which only happens after *)
(* its consumer handled it or does not want it, or abandoned, which only   *)
(* happens after all its tries; either is final.                           *)
THEOREM OutboxKeepsPromise ==
  ASSUME HandlersTimely, CommitsAnswered
  PROVE  Spec => PromiseKept
<1>1. OutboxInv /\ [Next]_vars => OutboxInv'
  BY HeldStep
<1>2. OutboxInv /\ [Next]_vars => [Promised!Next]_(Promised!vars)
  BY PromiseStep DEF Promised!vars, Outcomes, Tries
<1> QED
  BY OutboxInit, PromiseInit, <1>1, <1>2, PTL DEF Spec, PromiseKept, Promised!Spec

(* A completed or abandoned delivery stays that.                           *)
THEOREM TerminalHolds ==
  ASSUME HandlersTimely, CommitsAnswered
  PROVE  Spec => TerminalIsFinal
<1> DEFINE A == \A d \in Delivery :
                  delivery[d].status \in {"completed", "abandoned"} =>
                    delivery'[d].status = delivery[d].status
<1>1. OutboxInv /\ [Next]_vars => OutboxInv'
  BY HeldStep
<1>2. OutboxInv /\ [Next]_vars => A
  <2> SUFFICES ASSUME OutboxInv, [Next]_vars, NEW d \in Delivery,
                      delivery[d].status \in {"completed", "abandoned"}
               PROVE  delivery'[d].status = delivery[d].status
    OBVIOUS
  <2>1. Outcomes[d] = delivery[d].status
    BY DEF OutboxInv, OnlyPublished, Outcomes, Outcome
  <2>2. Outcomes'[d] = Outcomes[d]
    <3>1. CASE Outcomes' = Outcomes
      BY <3>1
    <3>2. CASE Promised!Next
      BY <3>2, <2>1 DEF Promised!Next, Promised!Publish, Promised!Try, Promised!Handle,
                        Promised!Complete, Promised!Abandon, Outcomes
    <3> QED
      BY <3>1, <3>2, PromiseStep
  <2> QED
    BY <2>1, <2>2 DEF Outcomes, Outcome
<1> QED
  BY OutboxInit, <1>1, <1>2, PTL DEF Spec, TerminalIsFinal

-----------------------------------------------------------------------------
(* How often a delivery is claimed *)

(* A delivery that failed has tries left, and one nobody holds although it *)
(* is processing was let go by a mishap that is counted.                   *)
Counted ==
  \A d \in Delivery :
    /\ delivery[d].attempts <= MaxAttempts + mishaps
    /\ delivery[d].status = "failed" => delivery[d].attempts < MaxAttempts
    /\ \/ delivery[d].status # "processing"
       \/ \E p \in Process : Holding(p) /\ InHand(p) = d
       \/ delivery[d].attempts < MaxAttempts + mishaps

LEMMA CountedStep ==
  ASSUME HandlersTimely, CommitsAnswered, OutboxInv, Counted, [Next]_vars
  PROVE  Counted'
<1>t. /\ TypeInv /\ delivery \in [Delivery -> DeliveryRow]
      /\ MaxAttempts \in Nat \ {0} /\ mishaps \in Nat
      /\ \A p \in Process : Holding(p) => InHand(p) \in Delivery
  BY InHandType, OutboxAssumption DEF OutboxInv, TypeInv, OutboxTypeOK
<1>n. \A d \in Delivery : delivery[d].attempts \in Nat
  BY <1>t DEF DeliveryRow, NoDelivery
(* A mishap raises the bound for every delivery. *)
<1>m. ASSUME mishaps' = mishaps + 1, delivery' = delivery PROVE Counted'
  BY <1>m, <1>t, <1>n DEF Counted
(* The rows of the deliveries that others hold stay theirs. *)
<1>o. ASSUME NEW p \in Process, NEW d \in Delivery,
             \A q \in Process \ {p} : drain'[q] = drain[q],
             d # InHand(p) \/ ~Holding(p),
             \E q \in Process : Holding(q) /\ InHand(q) = d
      PROVE  \E q \in Process : Holding(q)' /\ InHand(q)' = d
  BY <1>o DEF Holding, InHand, To
<1>1. CASE UNCHANGED vars
  BY <1>1 DEF vars, Counted, Holding, InHand, To
<1>2. ASSUME NEW e \in EventId, Publish(e) PROVE Counted'
  BY <1>2 DEF Publish, Counted, Holding, InHand, To
<1>3. ASSUME NEW p \in Process,
             DrainBegins(p) \/ DrainEnds(p) \/ List(p) \/ NextConsumer(p) \/ ClaimLost(p)
      PROVE  Counted'
  <2>1. IdleMove(p)
    BY <1>3, <1>t, IdleSteps
  <2> QED
    BY <2>1, <1>o DEF IdleMove, Counted
<1>4. ASSUME NEW p \in Process, Claim(p) PROVE Counted'
  <2>1. PICK e \in Oldest(drain[p].queue, 1) : Claimable(To(p, e)) /\ TakeRow(p, e)
    BY <1>4 DEF Claim
  <2>2. e \in drain[p].queue
    BY DEF Oldest
  <2>3. PICK d \in Delivery : d = To(p, e)
    BY <1>4, <1>t, <2>1, <2>2, TakeType DEF Claim
  <2>4. /\ delivery' = [delivery EXCEPT ![d] =
             [status |-> "processing", attempts |-> delivery[d].attempts + 1,
              ripe |-> FALSE]]
        /\ drain'[p].turn = drain[p].turn /\ drain'[p].event = e
        /\ drain'[p].pc \in {"completing", "handling"}
        /\ \A q \in Process \ {p} : drain'[q] = drain[q]
        /\ ~Holding(p) /\ mishaps' = mishaps
    BY <1>4, <1>t, <2>1, <2>2, <2>3, TakeType DEF Claim, Holding, At
  <2>5. Holding(p)' /\ InHand(p)' = d
    BY <2>3, <2>4 DEF Holding, InHand, To
  <2>6. \A q \in Process : Holding(q) => InHand(q) # d
    <3> SUFFICES ASSUME NEW q \in Process, Holding(q), InHand(q) = d
                 PROVE  FALSE
      OBVIOUS
    <3>1. delivery[InHand(q)] = [status |-> "processing", attempts |-> drain[q].attempt,
                                 ripe |-> FALSE]
      BY DEF OutboxInv, Held
    <3>2. delivery[d].status = "processing" /\ delivery[d].ripe = FALSE
      BY <3>1
    <3>3. Claimable(d)
      BY <2>1, <2>3
    <3> QED
      BY <3>2, <3>3 DEF Claimable
  <2>7. delivery[d].attempts < MaxAttempts + mishaps
    <3>1. Claimable(d)
      BY <2>1, <2>3
    <3>2. CASE delivery[d].status = "none"
      <4>1. delivery[d].attempts = 0
        BY <1>t, <3>2 DEF DeliveryRow, NoDelivery
      <4> QED
        BY <4>1, <1>t
    <3>3. CASE delivery[d].status = "failed"
      BY <3>3, <1>t, <1>n DEF Counted
    <3>4. CASE delivery[d].status = "processing"
      BY <3>4, <2>6 DEF Counted
    <3> QED
      BY <3>1, <3>2, <3>3, <3>4 DEF Claimable
  <2>8. /\ delivery'[d].attempts = delivery[d].attempts + 1
        /\ delivery'[d].status = "processing"
        /\ \A c \in Delivery \ {d} : delivery'[c] = delivery[c]
    BY <1>t, <2>4
  <2>9. ASSUME NEW c \in Delivery
        PROVE  /\ delivery'[c].attempts <= MaxAttempts + mishaps'
               /\ delivery'[c].status = "failed" => delivery'[c].attempts < MaxAttempts
               /\ \/ delivery'[c].status # "processing"
                  \/ \E q \in Process : Holding(q)' /\ InHand(q)' = c
                  \/ delivery'[c].attempts < MaxAttempts + mishaps'
    <3>1. CASE c = d
      BY <3>1, <1>t, <1>n, <2>4, <2>5, <2>7, <2>8
    <3>2. CASE c # d
      BY <3>2, <1>o, <2>4, <2>8 DEF Counted
    <3> QED
      BY <3>1, <3>2
  <2> QED
    BY <2>9 DEF Counted
<1>5. ASSUME NEW p \in Process, HandlerReturns(p) \/ HandlerThrows(p) PROVE Counted'
  <2>1. PICK pc \in {"completing", "failing"} : Goto(p, pc)
    BY <1>5 DEF HandlerReturns, HandlerThrows
  <2>2. Holding(p) /\ published' = published /\ delivery' = delivery /\ mishaps' = mishaps
    BY <1>5 DEF HandlerReturns, HandlerThrows, Holding, At
  <2>3. /\ drain'[p].pc = pc /\ drain'[p].turn = drain[p].turn
        /\ drain'[p].event = drain[p].event
        /\ \A q \in Process \ {p} : drain'[q] = drain[q]
    BY <1>t, <2>1, <2>2, StayType
  <2>4. \A q \in Process : (Holding(q) => Holding(q)') /\ InHand(q)' = InHand(q)
    BY <2>3 DEF Holding, InHand, To
  <2> QED
    BY <2>2, <2>4 DEF Counted
<1>6. ASSUME NEW p \in Process, NEW st \in {"completed", "failed", "abandoned"},
             Holding(p), Advance(p), UNCHANGED <<published, mishaps>>,
             Write(InHand(p), st),
             st = "failed" => delivery[InHand(p)].attempts < MaxAttempts
      PROVE  Counted'
  <2>1. PICK d \in Delivery : d = InHand(p)
    BY <1>6, <1>t
  <2>2. /\ delivery'[d].status = st /\ delivery'[d].attempts = delivery[d].attempts
        /\ \A c \in Delivery \ {d} : delivery'[c] = delivery[c]
    BY <1>6, <1>t, <2>1 DEF Write
  <2>3. \A q \in Process \ {p} : drain'[q] = drain[q]
    BY <1>6, <1>t, AdvanceType
  <2>4. ASSUME NEW c \in Delivery
        PROVE  /\ delivery'[c].attempts <= MaxAttempts + mishaps'
               /\ delivery'[c].status = "failed" => delivery'[c].attempts < MaxAttempts
               /\ \/ delivery'[c].status # "processing"
                  \/ \E q \in Process : Holding(q)' /\ InHand(q)' = c
                  \/ delivery'[c].attempts < MaxAttempts + mishaps'
    <3>1. CASE c = d
      BY <3>1, <1>6, <2>1, <2>2 DEF Counted
    <3>2. CASE c # d
      BY <3>2, <1>o, <1>6, <2>1, <2>2, <2>3 DEF Counted
    <3> QED
      BY <3>1, <3>2
  <2> QED
    BY <2>4 DEF Counted
<1>7. ASSUME NEW p \in Process, Complete(p) PROVE Counted'
  BY <1>7, <1>6 DEF Complete, Holding, At
<1>8. ASSUME NEW p \in Process, Fail(p) PROVE Counted'
  <2>1. Holding(p) /\ Advance(p) /\ UNCHANGED <<published, mishaps>>
        /\ Write(InHand(p), IF drain[p].attempt >= MaxAttempts
                            THEN "abandoned" ELSE "failed")
    BY <1>8 DEF Fail, FailWhen, Holding, At
  <2>2. delivery[InHand(p)] = [status |-> "processing", attempts |-> drain[p].attempt,
                               ripe |-> FALSE]
    BY <2>1 DEF OutboxInv, Held
  <2>3. delivery[InHand(p)].attempts = drain[p].attempt
    BY <2>2
  <2>4. drain[p].attempt \in Nat
    BY <1>n, <1>t, <2>1, <2>3
  <2>5. CASE drain[p].attempt >= MaxAttempts
    BY <2>1, <2>5, <1>6
  <2>6. CASE ~(drain[p].attempt >= MaxAttempts)
    <3>1. delivery[InHand(p)].attempts < MaxAttempts
      BY <1>t, <2>3, <2>4, <2>6
    <3> QED
      BY <2>1, <2>6, <3>1, <1>6
  <2> QED
    BY <2>5, <2>6
<1>9. ASSUME NEW p \in Process, CompleteThrows(p) \/ DrainDies(p) PROVE Counted'
  BY <1>9, <1>m DEF CompleteThrows, DrainDies, Mishap
<1>10. ASSUME NEW d \in Delivery, Ripen(d) PROVE Counted'
  <2>1. delivery' = [delivery EXCEPT ![d] = [delivery[d] EXCEPT !.ripe = TRUE]]
        /\ UNCHANGED <<drain, mishaps>>
    BY <1>10 DEF Ripen
  <2>2. delivery[d] \in DeliveryRow
    BY <1>t
  <2>3. \A c \in Delivery : delivery'[c].status = delivery[c].status
                            /\ delivery'[c].attempts = delivery[c].attempts
    BY <1>t, <2>1, <2>2 DEF DeliveryRow, NoDelivery
  <2> QED
    BY <2>1, <2>3 DEF Counted, Holding, InHand, To
<1> QED
  BY <1>1, <1>2, <1>3, <1>4, <1>5, <1>7, <1>8, <1>9, <1>10 DEF Next, DrainNext

(* Retries are bounded: a delivery is claimed no more often than the       *)
(* bound, and once more for each claim a crash or a failing store wasted.  *)
THEOREM AttemptsHold ==
  ASSUME HandlersTimely, CommitsAnswered
  PROVE  Spec => []AttemptsBounded
<1> DEFINE I == OutboxInv /\ Counted
<1>1. Init => I
  <2> SUFFICES ASSUME Init PROVE Counted
    BY OutboxInit
  <2>1. \A d \in Delivery : delivery[d].attempts = 0 /\ delivery[d].status = "none"
    BY DEF Init, NoDelivery
  <2> QED
    BY <2>1, OutboxAssumption DEF Init, Counted
<1>2. I /\ [Next]_vars => I'
  BY HeldStep, CountedStep
<1>3. I => AttemptsBounded
  BY DEF Counted, AttemptsBounded
<1> QED
  BY <1>1, <1>2, <1>3, PTL DEF Spec
=============================================================================
