----------------------- MODULE BookingLifecycle_proofs -----------------------
(***************************************************************************)
(* Proofs about the booking-context store, of any set of contexts, and     *)
(* about the booking lifecycle, for any contexts, calendars, instants,     *)
(* requests and passes.                                                    *)
(*                                                                         *)
(* With no assumption on timing: requests and reconciler use the store     *)
(* only through its operations, so that what is proved of the store holds  *)
(* of the lifecycle, and a booking is attempted once.  When writes land in *)
(* time: no two events collide (DoubleInv).  When reschedule tokens are    *)
(* kept apart: a booking reported cancelled has no event (CancelInv).      *)
(* Under both: a booking settled as moved lives on in a successor, no      *)
(* event is left without a row (KeepInv), and what a caller is told of a   *)
(* booking or a move is so (ToldInv).  With one pass at a time, and as     *)
(* long as a booking has one change at a time: a booking and its           *)
(* successors are never two live appointments, and what says booked has    *)
(* its event (ChangeInv).                                                  *)
(***************************************************************************)
EXTENDS BookingLifecycle, FiniteSetTheorems, SequenceTheorems, TLAPS

-----------------------------------------------------------------------------
(* Lemmas about the update of one row *)

(* A well-typed row written to the store leaves it well-typed. *)
LEMMA PutTypeOK ==
  ASSUME TypeOK, NEW c \in Context, NEW row \in Row, Put(c, row)
  PROVE  TypeOK'
<1>1. [row EXCEPT !.aged = FALSE] \in Row
  BY DEF Row
<1>2. rows' \in [Context -> Row]
  BY <1>1 DEF TypeOK, Put
<1>3. parked' \in Seq(Context)
  BY DEF TypeOK, Put
<1> QED
  BY <1>2, <1>3 DEF TypeOK

(* Taking one entry out of the queue leaves a queue. *)
LEMMA RemoveAtType ==
  ASSUME NEW S, NEW s \in Seq(S), NEW i \in DOMAIN s
  PROVE  RemoveAt(s, i) \in Seq(S)
<1>1. i \in 1 .. Len(s) /\ Len(s) \in Nat
  BY LenProperties
<1>2. SubSeq(s, 1, i - 1) \in Seq(S)
  BY <1>1, SubSeqProperties
<1>3. SubSeq(s, i + 1, Len(s)) \in Seq(S)
  BY <1>1, SubSeqProperties
<1> QED
  BY <1>2, <1>3, ConcatProperties DEF RemoveAt

(* An order on the stale rows is a queue of them. *)
LEMMA OrderType ==
  ASSUME NEW S \in SUBSET Context, NEW order \in SetToSeqs(S)
  PROVE  order \in Seq(S) /\ order \in Seq(Context)
<1>1. IsFiniteSet(S)
  BY TableIsFinite, FS_Subset
<1>2. Cardinality(S) \in Nat
  BY <1>1, FS_CardinalityType
<1>3. order \in [1 .. Cardinality(S) -> S]
  BY DEF SetToSeqs
<1>4. \A n \in 1 .. Cardinality(S) : order[n] \in S
  BY <1>3
<1>5. \A n \in 1 .. Cardinality(S) : order[n] \in Context
  BY <1>4
<1>6. order = [n \in 1 .. Cardinality(S) |-> order[n]]
  BY <1>3
<1> HIDE <1>3
<1> QED
  BY <1>2, <1>4, <1>5, <1>6, IsASeq

-----------------------------------------------------------------------------
(* Type correctness *)

LEMMA NoRowType == NoRow \in Row
BY DEF NoRow, Row, Status, Reason

LEMMA InitTypeOK == StoreInit => TypeOK
BY NoRowType, EmptySeq DEF StoreInit, TypeOK

(* Every operation of the store leaves it well-typed. *)
LEMMA NextTypeOK == TypeOK /\ [StoreNext]_store => TypeOK'
<1> SUFFICES ASSUME TypeOK, [StoreNext]_store
             PROVE  TypeOK'
  OBVIOUS
<1>1. ASSUME NEW c \in Context, NEW native \in BOOLEAN,
             NEW offered \in SUBSET Start,
             NEW targets \in [Start -> Calendar \cup {None}],
             NEW cal \in Calendar \cup {None}, NEW of \in Context \cup {None},
             Create(c, native, offered, targets, cal, of)
      PROVE  TypeOK'
  <2> DEFINE row == [NoRow EXCEPT !.status = "offered", !.native = native,
                                  !.offered = offered, !.targets = targets,
                                  !.calendar = cal, !.rescheduleOf = of]
  <2>1. row \in Row
    BY <1>1, NoRowType DEF Row, Status
  <2> QED
    BY <1>1, <2>1, PutTypeOK DEF Create
<1>2. ASSUME NEW c \in Context, NEW st \in Status, NEW why \in Reason,
             Move(c, st, why)
      PROVE  TypeOK'
  <2>1. [rows[c] EXCEPT !.status = st, !.reason = why] \in Row
    BY <1>2 DEF TypeOK, Row
  <2> QED
    BY <1>2, <2>1, PutTypeOK DEF Move
<1>3. ASSUME NEW c \in Context, NEW s \in Start, Claim(c, s)
      PROVE  TypeOK'
  <2>1. BoundCalendar(c, s) \in Calendar \cup {None}
    BY DEF TypeOK, Row, BoundCalendar
  <2>2. [rows[c] EXCEPT !.status = "booking_in_progress", !.start = s,
                        !.calendar = BoundCalendar(c, s)] \in Row
    BY <2>1 DEF TypeOK, Row, Status, InFlight
  <2> QED
    BY <1>3, <2>2, PutTypeOK DEF Claim
<1>4. ASSUME NEW st, NEW why \in Reason
      PROVE  Kept(st, why) \in Reason
  BY <1>4 DEF Kept, Reason
<1>5. ASSUME NEW c \in Context, NEW st \in Status,
             NEW ev \in Context \cup {None}, NEW why \in Reason,
             Complete(c, st, ev, why)
      PROVE  TypeOK'
  <2>1. [rows[c] EXCEPT !.status = st, !.event = ev,
                        !.reason = Kept(st, why)] \in Row
    BY <1>4 DEF TypeOK, Row
  <2> QED
    BY <1>5, <2>1, PutTypeOK DEF Complete
<1>6. ASSUME NEW c \in Context, NEW st \in Status,
             NEW ev \in Context \cup {None}, ResolveVerification(c, st, ev)
      PROVE  TypeOK'
  <2> DEFINE row == [rows[c] EXCEPT !.status = st, !.reason = "none",
                       !.event = IF ev = None THEN rows[c].event ELSE ev]
  <2>3. row \in Row
    BY DEF TypeOK, Row, Reason
  <2>1. rows' \in [Context -> Row]
    BY <1>6, <2>3 DEF ResolveVerification, TypeOK
  <2>2. parked' \in Seq(Context)
    BY <1>6, RemoveAtType DEF ResolveVerification, TypeOK
  <2> QED
    BY <2>1, <2>2 DEF TypeOK
<1>7. ASSUME NEW c \in Context, Age(c)
      PROVE  TypeOK'
  <2>1. rows[c] \in Row
    BY DEF TypeOK
  <2>2. [rows[c] EXCEPT !.aged = TRUE] \in Row
    BY <2>1 DEF Row
  <2> QED
    BY <1>7, <2>2 DEF Age, TypeOK
<1>8. ASSUME ReconcileStale
      PROVE  TypeOK'
  <2>1. \A c \in Context : StaleReason(rows[c].status) \in Reason
    BY DEF StaleReason, Reason
  <2>6. ASSUME NEW c \in Context
        PROVE  [rows[c] EXCEPT !.status = "verification_required",
                               !.reason = StaleReason(rows[c].status),
                               !.aged   = FALSE] \in Row
    BY <2>1 DEF TypeOK, Row, Status
  <2>2. rows' \in [Context -> Row]
    BY <1>8, <2>6 DEF ReconcileStale, TypeOK
  <2>3. PICK order \in SetToSeqs({c \in Context : Stale(c)}) :
               parked' = parked \o order
    BY <1>8 DEF ReconcileStale
  <2>4. order \in Seq(Context)
    BY <2>3, OrderType
  <2>5. parked' \in Seq(Context)
    BY <2>3, <2>4, ConcatProperties DEF TypeOK
  <2> QED
    BY <2>2, <2>5 DEF TypeOK
<1>9. CASE UNCHANGED store
  BY <1>9 DEF store, TypeOK
<1>10. {"expired", "cancellation_pending", "rescheduling"} \subseteq Status
       /\ "none" \in Reason
  BY DEF Status, InFlight, Terminal, Reason
<1>11. ASSUME NEW c \in Context, NEW st \in Status, NEW why \in Reason,
              CompleteCancellation(c, st, why) \/ CompleteReschedule(c, st, why)
       PROVE  TypeOK'
  BY <1>11, <1>2, <1>4 DEF CompleteCancellation, CompleteReschedule
<1>12. ASSUME NEW c \in Context,
              Expire(c) \/ BeginCancellation(c) \/ BeginReschedule(c)
       PROVE  TypeOK'
  BY <1>12, <1>2, <1>10 DEF Expire, BeginCancellation, BeginReschedule
<1> QED
  BY <1>1, <1>3, <1>5, <1>6, <1>7, <1>8, <1>9, <1>11, <1>12 DEF StoreNext

(* Every reachable store is well-typed. *)
THEOREM TypeCorrect == StoreSpec => []TypeOK
<1>1. StoreInit => TypeOK
  BY InitTypeOK
<1>2. TypeOK /\ [StoreNext]_store => TypeOK'
  BY NextTypeOK
<1> QED
  BY <1>1, <1>2, PTL DEF StoreSpec

-----------------------------------------------------------------------------
(* The slot guard *)

(* A write keeps the guard when the row it writes holds no slot, the slot  *)
(* it held before, or one that is free.                                    *)
LEMMA WriteKeepsGuard ==
  ASSUME TypeOK, SlotGuard, NEW c \in Context, NEW row \in Row,
         rows' = [rows EXCEPT ![c] = row],
         \/ row.status \notin SlotOccupying
         \/ /\ rows[c].status \in SlotOccupying
            /\ row.calendar = rows[c].calendar
            /\ row.start = rows[c].start
         \/ SlotFree(c, row.calendar, row.start)
  PROVE  SlotGuard'
<1> SUFFICES ASSUME NEW d \in Context, NEW e \in Context,
                    NEW cal \in Calendar, NEW s \in Start,
                    Holds(rows'[d], cal, s), Holds(rows'[e], cal, s)
             PROVE  d = e
  BY DEF SlotGuard
<1>1. rows'[c] = row /\ \A x \in Context \ {c} : rows'[x] = rows[x]
  BY DEF TypeOK
<1>2. cal # None
  BY NoneAssumption
<1>3. ASSUME NEW x \in Context \ {c}, Holds(row, cal, s), Holds(rows[x], cal, s)
      PROVE  FALSE
  <2>1. CASE Holds(rows[c], cal, s)
    BY <1>3, <2>1 DEF SlotGuard
  <2>2. CASE SlotFree(c, row.calendar, row.start)
    BY <1>2, <1>3, <2>2 DEF SlotFree, Holds
  <2> QED
    BY <1>3, <2>1, <2>2 DEF Holds
<1>4. CASE d = c /\ e # c
  BY <1>1, <1>3, <1>4
<1>5. CASE e = c /\ d # c
  BY <1>1, <1>3, <1>5
<1>6. CASE d # c /\ e # c
  BY <1>1, <1>6 DEF SlotGuard
<1> QED
  BY <1>4, <1>5, <1>6

(* No operation, in any order, gives a slot to two rows. *)
LEMMA NextSlotGuard ==
  TypeOK /\ SlotGuard /\ [StoreNext]_store => SlotGuard'
<1> SUFFICES ASSUME TypeOK, SlotGuard, [StoreNext]_store
             PROVE  SlotGuard'
  OBVIOUS
<1>1. ASSUME NEW c \in Context, NEW row \in Row, Put(c, row),
             \/ row.status \notin SlotOccupying
             \/ /\ rows[c].status \in SlotOccupying
                /\ row.calendar = rows[c].calendar
                /\ row.start = rows[c].start
             \/ SlotFree(c, row.calendar, row.start)
      PROVE  SlotGuard'
  <2> DEFINE new == [row EXCEPT !.aged = FALSE]
  <2>1. /\ new \in Row
        /\ new.status = row.status
        /\ new.calendar = row.calendar
        /\ new.start = row.start
    BY DEF Row
  <2>2. rows' = [rows EXCEPT ![c] = new]
    BY <1>1 DEF Put
  <2> HIDE DEF new
  <2> QED
    BY <1>1, <2>1, <2>2, WriteKeepsGuard
<1>2. ASSUME NEW c \in Context, NEW native \in BOOLEAN,
             NEW offered \in SUBSET Start,
             NEW targets \in [Start -> Calendar \cup {None}],
             NEW cal \in Calendar \cup {None}, NEW of \in Context \cup {None},
             Create(c, native, offered, targets, cal, of)
      PROVE  SlotGuard'
  <2> DEFINE row == [NoRow EXCEPT !.status = "offered", !.native = native,
                                  !.offered = offered, !.targets = targets,
                                  !.calendar = cal, !.rescheduleOf = of]
  <2>1. row \in Row /\ row.status = "offered"
    BY <1>2, NoRowType DEF Row, Status
  <2>2. row.status \notin SlotOccupying
    BY <2>1 DEF SlotOccupying
  <2>3. Put(c, row)
    BY <1>2 DEF Create
  <2> HIDE DEF row
  <2> QED
    BY <1>1, <2>1, <2>2, <2>3
<1>3. ASSUME NEW c \in Context, NEW s \in Start, Claim(c, s)
      PROVE  SlotGuard'
  <2> DEFINE row == [rows[c] EXCEPT !.status = "booking_in_progress",
                                    !.start = s,
                                    !.calendar = BoundCalendar(c, s)]
  <2>1. BoundCalendar(c, s) \in Calendar \cup {None}
    BY DEF TypeOK, Row, BoundCalendar
  <2>2. row \in Row /\ row.start = s /\ row.calendar = BoundCalendar(c, s)
    BY <2>1 DEF TypeOK, Row, Status, InFlight
  <2>3. Put(c, row) /\ SlotFree(c, BoundCalendar(c, s), s)
    BY <1>3 DEF Claim
  <2> HIDE DEF row
  <2>4. SlotFree(c, row.calendar, row.start)
    BY <2>2, <2>3
  <2> QED
    BY <1>1, <2>2, <2>3, <2>4
<1>4. ASSUME NEW c \in Context, NEW st \in Status, NEW why \in Reason,
             NEW ev \in Context \cup {None}, rows[c].status \in SlotOccupying,
             Put(c, [rows[c] EXCEPT !.status = st, !.event = ev, !.reason = why])
      PROVE  SlotGuard'
  <2> DEFINE row == [rows[c] EXCEPT !.status = st, !.event = ev, !.reason = why]
  <2>1. /\ row \in Row
        /\ row.calendar = rows[c].calendar
        /\ row.start = rows[c].start
    BY DEF TypeOK, Row
  <2>2. Put(c, row)
    BY <1>4
  <2> HIDE DEF row
  <2> QED
    BY <1>1, <1>4, <2>1, <2>2
<1>5. ASSUME NEW c \in Context, NEW st \in Status, NEW why \in Reason,
             Move(c, st, why),
             rows[c].status \in SlotOccupying \/ st \notin SlotOccupying
      PROVE  SlotGuard'
  <2> DEFINE row == [rows[c] EXCEPT !.status = st, !.reason = why]
  <2>1. /\ row \in Row
        /\ row.status = st
        /\ row.calendar = rows[c].calendar
        /\ row.start = rows[c].start
    BY DEF TypeOK, Row
  <2>2. Put(c, row)
    BY <1>5 DEF Move
  <2> HIDE DEF row
  <2> QED
    BY <1>1, <1>5, <2>1, <2>2
<1>6. ASSUME NEW st, NEW why \in Reason
      PROVE  Kept(st, why) \in Reason
  BY <1>6 DEF Kept, Reason
<1>7. ASSUME NEW c \in Context, NEW st \in Status,
             NEW ev \in Context \cup {None}, NEW why \in Reason,
             Complete(c, st, ev, why)
      PROVE  SlotGuard'
  <2>1. rows[c].status \in SlotOccupying
    BY <1>7 DEF Complete, Is, SlotOccupying
  <2> QED
    BY <1>4, <1>6, <1>7, <2>1 DEF Complete
<1>8. ASSUME NEW c \in Context,
             Expire(c) \/ BeginCancellation(c) \/ BeginReschedule(c)
      PROVE  SlotGuard'
  <2>1. {"expired", "cancellation_pending", "rescheduling"} \subseteq Status
        /\ "none" \in Reason
    BY DEF Status, InFlight, Terminal, Reason
  <2>2. CASE Expire(c)
    BY <1>5, <2>1, <2>2 DEF Expire, SlotOccupying
  <2>3. CASE BeginCancellation(c) \/ BeginReschedule(c)
    <3>1. rows[c].status \in SlotOccupying
      BY <2>3 DEF BeginCancellation, BeginReschedule, Is, SlotOccupying
    <3> QED
      BY <1>5, <2>1, <2>3, <3>1 DEF BeginCancellation, BeginReschedule
  <2> QED
    BY <1>8, <2>2, <2>3
<1>9. ASSUME NEW c \in Context, NEW st \in Status, NEW why \in Reason,
             CompleteCancellation(c, st, why) \/ CompleteReschedule(c, st, why)
      PROVE  SlotGuard'
  <2>1. rows[c].status \in SlotOccupying
    BY <1>9 DEF CompleteCancellation, CompleteReschedule, Is, SlotOccupying
  <2> QED
    BY <1>5, <1>6, <1>9, <2>1 DEF CompleteCancellation, CompleteReschedule
<1>10. ASSUME NEW c \in Context, NEW st \in Status,
              NEW ev \in Context \cup {None}, ResolveVerification(c, st, ev)
       PROVE  SlotGuard'
  <2> DEFINE row == [rows[c] EXCEPT !.status = st, !.reason = "none",
                       !.event = IF ev = None THEN rows[c].event ELSE ev]
  <2>1. /\ row \in Row
        /\ row.status = st
        /\ row.calendar = rows[c].calendar
        /\ row.start = rows[c].start
    BY DEF TypeOK, Row, Reason
  <2>2. rows' = [rows EXCEPT ![c] = row]
    BY <1>10 DEF ResolveVerification
  <2> HIDE DEF row
  <2>3. row.status \notin SlotOccupying
          \/ SlotFree(c, row.calendar, row.start)
    BY <1>10, <2>1 DEF ResolveVerification, ResolutionRefused, SlotOccupying
  <2> QED
    BY <2>1, <2>2, <2>3, WriteKeepsGuard
<1>11. ASSUME NEW c \in Context, Age(c)
       PROVE  SlotGuard'
  <2> DEFINE row == [rows[c] EXCEPT !.aged = TRUE]
  <2>1. /\ row \in Row
        /\ row.calendar = rows[c].calendar
        /\ row.start = rows[c].start
    BY DEF TypeOK, Row
  <2>2. rows[c].status \in SlotOccupying
    BY <1>11 DEF Age, InFlight, SlotOccupying
  <2>3. rows' = [rows EXCEPT ![c] = row]
    BY <1>11 DEF Age, TypeOK
  <2> HIDE DEF row
  <2> QED
    BY <2>1, <2>2, <2>3, WriteKeepsGuard
<1>12. ASSUME ReconcileStale
       PROVE  SlotGuard'
  <2>1. \A c \in Context : \A cal \in Calendar : \A s \in Start :
          Holds(rows'[c], cal, s) => Holds(rows[c], cal, s)
    <3> SUFFICES ASSUME NEW c \in Context, NEW cal \in Calendar, NEW s \in Start,
                        Holds(rows'[c], cal, s)
                 PROVE  Holds(rows[c], cal, s)
      OBVIOUS
    <3>1. rows[c] \in Row
      BY DEF TypeOK
    <3>2. CASE Stale(c)
      <4>1. rows'[c] = [rows[c] EXCEPT !.status = "verification_required",
                                       !.reason = StaleReason(rows[c].status),
                                       !.aged   = FALSE]
        BY <1>12, <3>2 DEF ReconcileStale
      <4>2. rows'[c].calendar = rows[c].calendar /\ rows'[c].start = rows[c].start
        BY <3>1, <4>1 DEF Row
      <4>3. rows[c].status \in SlotOccupying
        BY <3>2 DEF Stale, InFlight, SlotOccupying
      <4> QED
        BY <4>2, <4>3 DEF Holds
    <3>3. CASE ~Stale(c)
      BY <1>12, <3>3 DEF ReconcileStale
    <3> QED
      BY <3>2, <3>3
  <2> QED
    BY <2>1 DEF SlotGuard
<1>13. CASE UNCHANGED store
  BY <1>13 DEF store, SlotGuard
<1> QED
  BY <1>2, <1>3, <1>7, <1>8, <1>9, <1>10, <1>11, <1>12, <1>13 DEF StoreNext

(* However the operations of however many callers interleave, no two rows  *)
(* ever hold one calendar at one instant.                                  *)
THEOREM SlotGuardHolds == StoreSpec => []SlotGuard
<1>1. StoreInit => TypeOK /\ SlotGuard
  <2>1. StoreInit => SlotGuard
    BY DEF StoreInit, SlotGuard, Holds, NoRow, SlotOccupying
  <2> QED
    BY <2>1, InitTypeOK
<1>2. TypeOK /\ SlotGuard /\ [StoreNext]_store => (TypeOK /\ SlotGuard)'
  BY NextTypeOK, NextSlotGuard
<1> QED
  BY <1>1, <1>2, PTL DEF StoreSpec

-----------------------------------------------------------------------------
(* Finality *)

(* Nothing is chosen before the claim: what a row keeps for good, it got   *)
(* from the claim.                                                         *)
Unchosen ==
  \A c \in Context : Is(c, "absent") \/ Is(c, "offered") => rows[c].start = None

(* What an update of one row changes, field by field. *)
LEMMA PutRow ==
  ASSUME TypeOK, NEW c \in Context, NEW row \in Row, Put(c, row)
  PROVE  /\ rows'[c].status = row.status
         /\ rows'[c].start = row.start
         /\ rows'[c].calendar = row.calendar
         /\ rows'[c].rescheduleOf = row.rescheduleOf
         /\ \A d \in Context \ {c} : rows'[d] = rows[d]
<1>1. rows'[c] = [row EXCEPT !.aged = FALSE]
  BY DEF TypeOK, Put
<1>2. \A d \in Context \ {c} : rows'[d] = rows[d]
  BY DEF TypeOK, Put
<1> QED
  BY <1>1, <1>2 DEF Row

(* A row is never deleted, keeps the booking it moves, and once claimed is *)
(* never on offer again.                                                   *)
RowsStay ==
  \A c \in Context :
    /\ rows[c].status # "absent" =>
         /\ rows'[c].status # "absent"
         /\ rows'[c].rescheduleOf = rows[c].rescheduleOf
    /\ rows[c].status \notin {"absent", "offered"} =>
         rows'[c].status \notin {"absent", "offered"}

(* The claim is the only operation that binds a row, and it meets only     *)
(* rows that are not bound yet.                                            *)
LEMMA NextBinding ==
  TypeOK /\ Unchosen /\ [StoreNext]_store => Unchosen' /\ BindingKept /\ RowsStay
<1> SUFFICES ASSUME TypeOK, Unchosen, [StoreNext]_store
             PROVE  Unchosen' /\ BindingKept /\ RowsStay
  OBVIOUS
<1>1. ASSUME NEW c \in Context, NEW row \in Row, Put(c, row),
             \/ /\ row.status \notin {"absent", "offered"}
                /\ rows[c].start = None
                /\ row.rescheduleOf = rows[c].rescheduleOf
             \/ /\ Is(c, "absent") /\ rows[c].start = None
                /\ row.status = "offered" /\ row.start = None
             \/ /\ row.status \notin {"absent", "offered"}
                /\ row.start = rows[c].start
                /\ row.calendar = rows[c].calendar
                /\ row.rescheduleOf = rows[c].rescheduleOf
      PROVE  Unchosen' /\ BindingKept /\ RowsStay
  <2>1. /\ rows'[c].status = row.status
        /\ rows'[c].start = row.start
        /\ rows'[c].calendar = row.calendar
        /\ rows'[c].rescheduleOf = row.rescheduleOf
        /\ \A d \in Context \ {c} : rows'[d] = rows[d]
    BY <1>1, PutRow
  <2> QED
    BY <1>1, <2>1 DEF Unchosen, BindingKept, RowsStay, Is
<1>2. ASSUME NEW c \in Context, NEW native \in BOOLEAN,
             NEW offered \in SUBSET Start,
             NEW targets \in [Start -> Calendar \cup {None}],
             NEW cal \in Calendar \cup {None}, NEW of \in Context \cup {None},
             Create(c, native, offered, targets, cal, of)
      PROVE  Unchosen' /\ BindingKept /\ RowsStay
  <2> DEFINE row == [NoRow EXCEPT !.status = "offered", !.native = native,
                                  !.offered = offered, !.targets = targets,
                                  !.calendar = cal, !.rescheduleOf = of]
  <2>1. row \in Row /\ row.status = "offered" /\ row.start = None
    BY <1>2, NoRowType DEF Row, Status, NoRow
  <2>2. Put(c, row) /\ rows[c].start = None /\ Is(c, "absent")
    BY <1>2 DEF Create, Unchosen
  <2> HIDE DEF row
  <2> QED
    BY <1>1, <2>1, <2>2
<1>3. ASSUME NEW c \in Context, NEW s \in Start, Claim(c, s)
      PROVE  Unchosen' /\ BindingKept /\ RowsStay
  <2> DEFINE row == [rows[c] EXCEPT !.status = "booking_in_progress",
                                    !.start = s,
                                    !.calendar = BoundCalendar(c, s)]
  <2>1. BoundCalendar(c, s) \in Calendar \cup {None}
    BY DEF TypeOK, Row, BoundCalendar
  <2>2. /\ row \in Row
        /\ row.status = "booking_in_progress"
        /\ row.rescheduleOf = rows[c].rescheduleOf
    BY <2>1 DEF TypeOK, Row, Status, InFlight
  <2>3. Put(c, row) /\ rows[c].start = None
    BY <1>3 DEF Claim, Unchosen
  <2> HIDE DEF row
  <2> QED
    BY <1>1, <2>2, <2>3
<1>4. ASSUME NEW c \in Context, NEW st \in Status \ {"absent", "offered"},
             NEW ev \in Context \cup {None}, NEW why \in Reason,
             Put(c, [rows[c] EXCEPT !.status = st, !.event = ev, !.reason = why])
      PROVE  Unchosen' /\ BindingKept /\ RowsStay
  <2> DEFINE row == [rows[c] EXCEPT !.status = st, !.event = ev, !.reason = why]
  <2>1. /\ row \in Row
        /\ row.status = st
        /\ row.start = rows[c].start
        /\ row.calendar = rows[c].calendar
        /\ row.rescheduleOf = rows[c].rescheduleOf
    BY DEF TypeOK, Row
  <2>2. Put(c, row)
    BY <1>4
  <2> HIDE DEF row
  <2> QED
    BY <1>1, <2>1, <2>2
<1>5. ASSUME NEW c \in Context, NEW st \in Status \ {"absent", "offered"},
             NEW why \in Reason, Move(c, st, why)
      PROVE  Unchosen' /\ BindingKept /\ RowsStay
  <2> DEFINE row == [rows[c] EXCEPT !.status = st, !.reason = why]
  <2>1. /\ row \in Row
        /\ row.status = st
        /\ row.start = rows[c].start
        /\ row.calendar = rows[c].calendar
        /\ row.rescheduleOf = rows[c].rescheduleOf
    BY DEF TypeOK, Row
  <2>2. Put(c, row)
    BY <1>5 DEF Move
  <2> HIDE DEF row
  <2> QED
    BY <1>1, <2>1, <2>2
<1>6. ASSUME NEW st, NEW why \in Reason
      PROVE  Kept(st, why) \in Reason
  BY <1>6 DEF Kept, Reason
<1>7. ASSUME NEW c \in Context, NEW st \in Status,
             NEW ev \in Context \cup {None}, NEW why \in Reason,
             Complete(c, st, ev, why)
      PROVE  Unchosen' /\ BindingKept /\ RowsStay
  <2>1. st \in Status \ {"absent", "offered"}
    BY <1>7 DEF Complete
  <2> QED
    BY <1>4, <1>6, <1>7, <2>1 DEF Complete
<1>8. ASSUME NEW c \in Context,
             Expire(c) \/ BeginCancellation(c) \/ BeginReschedule(c)
      PROVE  Unchosen' /\ BindingKept /\ RowsStay
  <2>1. {"expired", "cancellation_pending", "rescheduling"}
          \subseteq Status \ {"absent", "offered"}
        /\ "none" \in Reason
    BY DEF Status, InFlight, Terminal, Reason
  <2> QED
    BY <1>5, <1>8, <2>1 DEF Expire, BeginCancellation, BeginReschedule
<1>9. ASSUME NEW c \in Context, NEW st \in Status, NEW why \in Reason,
             CompleteCancellation(c, st, why) \/ CompleteReschedule(c, st, why)
      PROVE  Unchosen' /\ BindingKept /\ RowsStay
  <2>1. st \in Status \ {"absent", "offered"}
    BY <1>9 DEF CompleteCancellation, CompleteReschedule
  <2> QED
    BY <1>5, <1>6, <1>9, <2>1 DEF CompleteCancellation, CompleteReschedule
<1>10. ASSUME NEW c \in Context, NEW st \in Status,
              NEW ev \in Context \cup {None}, ResolveVerification(c, st, ev)
       PROVE  Unchosen' /\ BindingKept /\ RowsStay
  <2> DEFINE row == [rows[c] EXCEPT !.status = st, !.reason = "none",
                       !.event = IF ev = None THEN rows[c].event ELSE ev]
  <2>1. /\ row.status = st
        /\ row.start = rows[c].start
        /\ row.calendar = rows[c].calendar
        /\ row.rescheduleOf = rows[c].rescheduleOf
    BY DEF TypeOK, Row
  <2>2. rows'[c] = row /\ \A d \in Context \ {c} : rows'[d] = rows[d]
    BY <1>10 DEF ResolveVerification, TypeOK
  <2>3. st \notin {"absent", "offered"}
    BY <1>10 DEF ResolveVerification
  <2> HIDE DEF row
  <2> QED
    BY <2>1, <2>2, <2>3 DEF Unchosen, BindingKept, RowsStay, Is
<1>11. ASSUME NEW c \in Context, Age(c)
       PROVE  Unchosen' /\ BindingKept /\ RowsStay
  <2>1. \A d \in Context : /\ rows'[d].status = rows[d].status
                           /\ rows'[d].start = rows[d].start
                           /\ rows'[d].calendar = rows[d].calendar
                           /\ rows'[d].rescheduleOf = rows[d].rescheduleOf
    BY <1>11 DEF Age, TypeOK, Row
  <2> QED
    BY <2>1 DEF Unchosen, BindingKept, RowsStay, Is
<1>12. ASSUME ReconcileStale
       PROVE  Unchosen' /\ BindingKept /\ RowsStay
  <2>1. \A d \in Context : /\ \/ rows'[d].status = rows[d].status
                              \/ rows'[d].status = "verification_required"
                           /\ rows'[d].start = rows[d].start
                           /\ rows'[d].calendar = rows[d].calendar
                           /\ rows'[d].rescheduleOf = rows[d].rescheduleOf
    BY <1>12 DEF ReconcileStale, TypeOK, Row
  <2> QED
    BY <2>1 DEF Unchosen, BindingKept, RowsStay, Is
<1>13. CASE UNCHANGED store
  BY <1>13 DEF store, Unchosen, BindingKept, RowsStay, Is
<1> QED
  BY <1>2, <1>3, <1>7, <1>8, <1>9, <1>10, <1>11, <1>12, <1>13 DEF StoreNext

(* The calendar, the instant and the original a row is bound to are those  *)
(* its one claim gave it.                                                  *)
THEOREM BindingNeverChanges == StoreSpec => BindingIsFinal
<1>1. StoreInit => TypeOK /\ Unchosen
  BY InitTypeOK DEF StoreInit, Unchosen, Is, NoRow
<1>2. TypeOK /\ Unchosen /\ [StoreNext]_store =>
        (TypeOK /\ Unchosen)' /\ BindingKept
  BY NextTypeOK, NextBinding
<1> QED
  BY <1>1, <1>2, PTL DEF StoreSpec, BindingIsFinal

(* Every condition an update carries fails on a settled row. *)
LEMMA NextSettled == TypeOK /\ [StoreNext]_store => SettledKept
<1> SUFFICES ASSUME TypeOK, [StoreNext]_store, NEW d \in Context,
                    rows[d].status \in Terminal
             PROVE  rows'[d] = rows[d]
  BY DEF SettledKept
<1> DEFINE Unsettled == {"absent", "offered", "booked", "verification_required"}
                          \cup InFlight
<1>1. Unsettled \cap Terminal = {}
  BY DEF InFlight, Terminal
<1>2. ASSUME NEW c \in Context, NEW row, rows[c].status \in Unsettled,
             rows' = [rows EXCEPT ![c] = row]
      PROVE  rows'[d] = rows[d]
  BY <1>1, <1>2 DEF TypeOK
<1>3. ASSUME NEW c \in Context, NEW row, rows[c].status \in Unsettled, Put(c, row)
      PROVE  rows'[d] = rows[d]
  BY <1>2, <1>3 DEF Put
<1>4. ASSUME NEW c \in Context, NEW native, NEW offered, NEW targets, NEW cal,
             NEW of, Create(c, native, offered, targets, cal, of)
      PROVE  rows'[d] = rows[d]
  BY <1>3, <1>4 DEF Create, Is
<1>5. ASSUME NEW c \in Context,
             Expire(c) \/ BeginCancellation(c) \/ BeginReschedule(c)
      PROVE  rows'[d] = rows[d]
  BY <1>3, <1>5 DEF Expire, BeginCancellation, BeginReschedule, Move, Is
<1>6. ASSUME NEW c \in Context, NEW s \in Start, Claim(c, s)
      PROVE  rows'[d] = rows[d]
  BY <1>3, <1>6 DEF Claim, Is
<1>7. ASSUME NEW c \in Context, NEW st, NEW ev, NEW why,
             \/ Complete(c, st, ev, why)
             \/ CompleteCancellation(c, st, why)
             \/ CompleteReschedule(c, st, why)
      PROVE  rows'[d] = rows[d]
  <2>1. rows[c].status \in Unsettled
    BY <1>7 DEF Complete, CompleteCancellation, CompleteReschedule, Is, InFlight
  <2> HIDE DEF Unsettled
  <2> QED
    BY <1>3, <1>7, <2>1 DEF Complete, CompleteCancellation, CompleteReschedule, Move
<1>8. ASSUME NEW c \in Context, NEW st, NEW ev, ResolveVerification(c, st, ev)
      PROVE  rows'[d] = rows[d]
  BY <1>2, <1>8 DEF ResolveVerification, Is
<1>9. ASSUME NEW c \in Context, Age(c)
      PROVE  rows'[d] = rows[d]
  <2>1. rows[c].status \in Unsettled
    BY <1>9 DEF Age
  <2>2. c # d
    BY <1>1, <2>1
  <2> QED
    BY <1>9, <2>2 DEF Age, TypeOK
<1>10. ASSUME ReconcileStale
       PROVE  rows'[d] = rows[d]
  <2>1. ~Stale(d)
    BY <1>1 DEF Stale
  <2> QED
    BY <1>10, <2>1 DEF ReconcileStale
<1>11. CASE UNCHANGED store
  BY <1>11 DEF store
<1> QED
  BY <1>4, <1>5, <1>6, <1>7, <1>8, <1>9, <1>10, <1>11 DEF StoreNext

(* A late completion, cancellation or resolution never rewrites a row that *)
(* has been settled.                                                       *)
THEOREM SettledNeverChanges == StoreSpec => SettledIsFinal
<1>1. StoreInit => TypeOK
  BY InitTypeOK
<1>2. TypeOK /\ [StoreNext]_store => TypeOK' /\ SettledKept
  BY NextTypeOK, NextSettled
<1> QED
  BY <1>1, <1>2, PTL DEF StoreSpec, SettledIsFinal

-----------------------------------------------------------------------------
(* The queue of parked rows *)

(* A queue of members of a set is one of members of any set that has them. *)
LEMMA QueueWidens ==
  ASSUME NEW S, NEW T, NEW s \in Seq(S), \A i \in DOMAIN s : s[i] \in T
  PROVE  s \in Seq(T)
<1>1. Len(s) \in Nat /\ s = [i \in 1 .. Len(s) |-> s[i]] /\ DOMAIN s = 1 .. Len(s)
  BY LenProperties
<1> QED
  BY <1>1, IsASeq

LEMMA PutQueues ==
  ASSUME TypeOK, NEW S, parked \in Seq(S), NEW c \in Context, NEW row \in Row,
         Put(c, row), rows'[c].status = "verification_required" => c \in S
  PROVE  parked' \in Seq(S)
<1>1. rows'[c].status = row.status
  BY PutRow
<1> QED
  BY <1>1, AppendProperties DEF Put

(* An operation queues the row it parks, and no other. *)
LEMMA QueuedWithin ==
  ASSUME TypeOK, [StoreNext]_store, NEW S, parked \in Seq(S),
         \A c \in Context : rows'[c].status = "verification_required" => c \in S
  PROVE  parked' \in Seq(S)
<1>1. ASSUME NEW c \in Context, NEW native \in BOOLEAN,
             NEW offered \in SUBSET Start,
             NEW targets \in [Start -> Calendar \cup {None}],
             NEW cal \in Calendar \cup {None}, NEW of \in Context \cup {None},
             Create(c, native, offered, targets, cal, of)
      PROVE  parked' \in Seq(S)
  <2>1. [NoRow EXCEPT !.status = "offered", !.native = native,
                      !.offered = offered, !.targets = targets,
                      !.calendar = cal, !.rescheduleOf = of] \in Row
    BY <1>1, NoRowType DEF Row, Status
  <2> QED
    BY <1>1, <2>1, PutQueues DEF Create
<1>2. ASSUME NEW c \in Context, NEW st \in Status, NEW why \in Reason,
             Move(c, st, why)
      PROVE  parked' \in Seq(S)
  <2>1. [rows[c] EXCEPT !.status = st, !.reason = why] \in Row
    BY <1>2 DEF TypeOK, Row
  <2> QED
    BY <1>2, <2>1, PutQueues DEF Move
<1>3. ASSUME NEW c \in Context, NEW s \in Start, Claim(c, s)
      PROVE  parked' \in Seq(S)
  <2>1. BoundCalendar(c, s) \in Calendar \cup {None}
    BY DEF TypeOK, Row, BoundCalendar
  <2>2. [rows[c] EXCEPT !.status = "booking_in_progress", !.start = s,
                        !.calendar = BoundCalendar(c, s)] \in Row
    BY <2>1 DEF TypeOK, Row, Status, InFlight
  <2> QED
    BY <1>3, <2>2, PutQueues DEF Claim
<1>4. ASSUME NEW st, NEW why \in Reason
      PROVE  Kept(st, why) \in Reason
  BY <1>4 DEF Kept, Reason
<1>5. ASSUME NEW c \in Context, NEW st \in Status,
             NEW ev \in Context \cup {None}, NEW why \in Reason,
             Complete(c, st, ev, why)
      PROVE  parked' \in Seq(S)
  <2>1. [rows[c] EXCEPT !.status = st, !.event = ev,
                        !.reason = Kept(st, why)] \in Row
    BY <1>4 DEF TypeOK, Row
  <2> QED
    BY <1>5, <2>1, PutQueues DEF Complete
<1>6. ASSUME NEW c \in Context, NEW st, NEW ev, ResolveVerification(c, st, ev)
      PROVE  parked' \in Seq(S)
  BY <1>6, RemoveAtType DEF ResolveVerification
<1>7. ASSUME ReconcileStale
      PROVE  parked' \in Seq(S)
  <2> DEFINE stale == {c \in Context : Stale(c)}
  <2>1. PICK order \in SetToSeqs(stale) : parked' = parked \o order
    BY <1>7 DEF ReconcileStale
  <2>2. order \in Seq(stale)
    BY <2>1, OrderType
  <2>3. \A c \in stale : rows'[c].status = "verification_required"
    BY <1>7 DEF ReconcileStale, TypeOK, Row
  <2>4. \A i \in DOMAIN order : order[i] \in S
    BY <2>2, <2>3, ElementOfSeq, LenProperties
  <2>5. order \in Seq(S)
    BY <2>2, <2>4, QueueWidens
  <2> QED
    BY <2>1, <2>5, ConcatProperties
<1>8. CASE UNCHANGED store
  BY <1>8 DEF store
<1>9. {"expired", "cancellation_pending", "rescheduling"} \subseteq Status
       /\ "none" \in Reason
  BY DEF Status, InFlight, Terminal, Reason
<1>10. ASSUME NEW c \in Context, NEW st \in Status, NEW why \in Reason,
              CompleteCancellation(c, st, why) \/ CompleteReschedule(c, st, why)
       PROVE  parked' \in Seq(S)
  BY <1>10, <1>2, <1>4 DEF CompleteCancellation, CompleteReschedule
<1>11. ASSUME NEW c \in Context,
              Expire(c) \/ BeginCancellation(c) \/ BeginReschedule(c)
       PROVE  parked' \in Seq(S)
  BY <1>11, <1>2, <1>9 DEF Expire, BeginCancellation, BeginReschedule
<1>12. ASSUME NEW c \in Context, Age(c)
       PROVE  parked' \in Seq(S)
  BY <1>12 DEF Age
<1> QED
  BY <1>1, <1>3, <1>5, <1>6, <1>7, <1>8, <1>10, <1>11, <1>12 DEF StoreNext

(* The reconciler's queue and the parked rows are the same rows, and each  *)
(* row is queued once.                                                     *)
QueueExact ==
  /\ \A i \in DOMAIN parked : Is(parked[i], "verification_required")
  /\ \A i, j \in DOMAIN parked : parked[i] = parked[j] => i = j
  /\ \A c \in Context :
       Is(c, "verification_required") => \E i \in DOMAIN parked : parked[i] = c

(* An update of a row that is not parked queues it if it parks it.         *)
LEMMA PutExact ==
  ASSUME TypeOK, QueueExact, NEW c \in Context, NEW row \in Row,
         ~Is(c, "verification_required"), Put(c, row)
  PROVE  QueueExact'
<1>1. /\ rows'[c].status = row.status
      /\ \A d \in Context \ {c} : rows'[d] = rows[d]
  BY PutRow
<1>2. /\ parked \in Seq(Context) /\ Len(parked) \in Nat
      /\ DOMAIN parked = 1 .. Len(parked)
      /\ \A i \in DOMAIN parked : parked[i] \in Context \ {c}
  BY LenProperties, ElementOfSeq DEF TypeOK, QueueExact
<1>3. CASE row.status = "verification_required"
  <2> DEFINE q == Append(parked, c)
  <2>1. parked' = q
    BY <1>3 DEF Put
  <2>2. /\ Len(q) = Len(parked) + 1 /\ q[Len(parked) + 1] = c
        /\ \A i \in 1 .. Len(parked) : q[i] = parked[i]
        /\ DOMAIN q = 1 .. Len(parked) + 1
    BY <1>2, AppendProperties, LenProperties
  <2> HIDE DEF q
  <2>3. \A i \in DOMAIN q : i \in DOMAIN parked \/ i = Len(parked) + 1
    BY <1>2, <2>2
  <2>4. \A i \in DOMAIN q : rows'[q[i]].status = "verification_required"
    BY <1>1, <1>2, <1>3, <2>2, <2>3 DEF QueueExact, Is
  <2>5. \A i, j \in DOMAIN q : q[i] = q[j] => i = j
    BY <1>2, <2>2, <2>3 DEF QueueExact
  <2>6. ASSUME NEW d \in Context, rows'[d].status = "verification_required"
        PROVE  \E i \in DOMAIN q : q[i] = d
    <3>1. CASE d = c
      BY <1>2, <2>2, <3>1
    <3>2. CASE d # c
      <4>1. PICK i \in DOMAIN parked : parked[i] = d
        BY <1>1, <2>6, <3>2 DEF QueueExact, Is
      <4> QED
        BY <1>2, <2>2, <4>1
    <3> QED
      BY <3>1, <3>2
  <2> QED
    BY <2>1, <2>4, <2>5, <2>6 DEF QueueExact, Is
<1>4. CASE row.status # "verification_required"
  <2>1. parked' = parked
    BY <1>4 DEF Put
  <2> QED
    BY <1>1, <1>2, <1>4, <2>1 DEF QueueExact, Is
<1> QED
  BY <1>3, <1>4

(* What is left of a sequence when one entry is taken out.                 *)
LEMMA RemoveAtEntries ==
  ASSUME NEW S, NEW s \in Seq(S), NEW n \in DOMAIN s
  PROVE  /\ Len(s) \in Nat /\ DOMAIN s = 1 .. Len(s)
         /\ DOMAIN RemoveAt(s, n) = 1 .. Len(s) - 1
         /\ \A i \in 1 .. Len(s) - 1 :
              RemoveAt(s, n)[i] = IF i < n THEN s[i] ELSE s[i + 1]
<1>1. Len(s) \in Nat /\ DOMAIN s = 1 .. Len(s) /\ n \in 1 .. Len(s)
  BY LenProperties
<1> DEFINE a == SubSeq(s, 1, n - 1)
           b == SubSeq(s, n + 1, Len(s))
<1>2. /\ a \in Seq(S) /\ Len(a) = n - 1
      /\ \A i \in 1 .. n - 1 : a[i] = s[i]
  BY <1>1, SubSeqProperties
<1>3. /\ b \in Seq(S) /\ Len(b) = Len(s) - n
      /\ \A i \in 1 .. Len(s) - n : b[i] = s[n + i]
  BY <1>1, SubSeqProperties
<1> HIDE DEF a, b
<1>4. /\ Len(a \o b) = Len(s) - 1 /\ a \o b \in Seq(S)
      /\ \A i \in 1 .. Len(s) - 1 : (a \o b)[i] = IF i < n THEN s[i] ELSE s[i + 1]
  <2>1. /\ Len(a \o b) = Len(a) + Len(b) /\ a \o b \in Seq(S)
        /\ \A i \in 1 .. Len(a) + Len(b) :
             (a \o b)[i] = IF i <= Len(a) THEN a[i] ELSE b[i - Len(a)]
    BY <1>2, <1>3, ConcatProperties
  <2>2. ASSUME NEW i \in 1 .. Len(s) - 1
        PROVE  (a \o b)[i] = IF i < n THEN s[i] ELSE s[i + 1]
    <3>1. CASE i < n
      BY <1>1, <1>2, <1>3, <2>1, <3>1
    <3>2. CASE ~(i < n)
      <4>1. /\ i - Len(a) \in 1 .. Len(s) - n /\ ~(i <= Len(a))
            /\ i \in 1 .. Len(a) + Len(b)
        BY <1>1, <1>2, <1>3, <3>2
      <4>2. (a \o b)[i] = b[i - Len(a)]
        BY <2>1, <4>1
      <4>3. b[i - Len(a)] = s[n + (i - Len(a))]
        BY <1>3, <4>1
      <4>4. n + (i - Len(a)) = i + 1
        BY <1>1, <1>2
      <4> QED
        BY <3>2, <4>2, <4>3, <4>4
    <3> QED
      BY <3>1, <3>2
  <2> QED
    BY <1>1, <1>2, <1>3, <2>1, <2>2
<1> QED
  BY <1>1, <1>4, LenProperties DEF RemoveAt, a, b

(* A resolution takes the row it resolves out of the queue.                *)
LEMMA ResolveExact ==
  ASSUME TypeOK, QueueExact, NEW c \in Context, NEW st, NEW ev,
         ResolveVerification(c, st, ev)
  PROVE  QueueExact'
<1>1. PICK n \in DOMAIN parked : parked[n] = c /\ parked' = RemoveAt(parked, n)
  BY DEF ResolveVerification
<1>2. /\ Len(parked) \in Nat /\ DOMAIN parked = 1 .. Len(parked)
      /\ DOMAIN parked' = 1 .. Len(parked) - 1
      /\ \A i \in DOMAIN parked' :
           parked'[i] = IF i < n THEN parked[i] ELSE parked[i + 1]
  BY <1>1, RemoveAtEntries DEF TypeOK
<1>3. rows'[c].status # "verification_required"
      /\ \A d \in Context \ {c} : rows'[d] = rows[d]
  BY DEF ResolveVerification, TypeOK, Row
<1>4. \A i \in DOMAIN parked : parked[i] \in Context
  BY ElementOfSeq, LenProperties DEF TypeOK
<1>5. ASSUME NEW i \in DOMAIN parked'
      PROVE  /\ parked'[i] \in Context /\ parked'[i] # c
             /\ rows'[parked'[i]].status = "verification_required"
  <2>1. PICK m \in DOMAIN parked : m # n /\ parked'[i] = parked[m]
    BY <1>1, <1>2, <1>5
  <2> QED
    BY <1>1, <1>3, <1>4, <2>1 DEF QueueExact, Is
<1>6. \A i, j \in DOMAIN parked' : parked'[i] = parked'[j] => i = j
  BY <1>1, <1>2 DEF QueueExact
<1>7. ASSUME NEW d \in Context, rows'[d].status = "verification_required"
      PROVE  \E i \in DOMAIN parked' : parked'[i] = d
  <2>1. PICK m \in DOMAIN parked : parked[m] = d
    BY <1>3, <1>7 DEF QueueExact, Is
  <2>2. m # n
    BY <1>1, <1>3, <1>7, <2>1
  <2>3. CASE m < n
    BY <1>1, <1>2, <2>1, <2>3
  <2>4. CASE m > n
    <3>1. m - 1 \in DOMAIN parked' /\ parked'[m - 1] = parked[m]
      BY <1>1, <1>2, <2>4
    <3> QED
      BY <2>1, <3>1
  <2> QED
    BY <1>1, <1>2, <2>2, <2>3, <2>4
<1> QED
  BY <1>5, <1>6, <1>7 DEF QueueExact, Is

(* An order on the stale rows has each of them once.                       *)
LEMMA OrderExact ==
  ASSUME NEW S \in SUBSET Context, NEW order \in SetToSeqs(S)
  PROVE  /\ order \in Seq(S)
         /\ \A i, j \in DOMAIN order : order[i] = order[j] => i = j
         /\ \A c \in S : \E i \in DOMAIN order : order[i] = c
<1>1. IsFiniteSet(S) /\ Cardinality(S) \in Nat
  BY TableIsFinite, FS_Subset, FS_CardinalityType
<1> DEFINE D == 1 .. Cardinality(S)
<1>2. /\ order \in [D -> S]
      /\ \A i, j \in D : order[i] = order[j] => i = j
  BY DEF SetToSeqs
<1>3. IsFiniteSet(D) /\ Cardinality(D) = Cardinality(S)
  BY <1>1, FS_Interval
<1> HIDE DEF D
<1>4. order \in Injection(D, S)
  BY <1>2 DEF Injection, IsInjective
<1>5. order \in Surjection(D, S)
  BY <1>1, <1>3, <1>4, FS_Injection
<1>6. \A c \in S : \E i \in D : order[i] = c
  BY <1>5 DEF Surjection
<1> QED
  BY <1>2, <1>6, OrderType

(* The sweep queues the rows it parks behind those that are parked.        *)
LEMMA SweepExact ==
  ASSUME TypeOK, QueueExact, ReconcileStale
  PROVE  QueueExact'
<1> DEFINE stale == {c \in Context : Stale(c)}
           n == Len(parked)
<1>1. PICK order \in SetToSeqs(stale) : parked' = parked \o order
  BY DEF ReconcileStale
<1>2. /\ \A c \in stale : rows'[c].status = "verification_required"
      /\ \A c \in Context \ stale : rows'[c] = rows[c]
      /\ \A c \in stale : ~Is(c, "verification_required")
  BY DEF ReconcileStale, TypeOK, Row, Stale, InFlight, Is
<1>3. /\ order \in Seq(stale) /\ order \in Seq(Context)
      /\ \A i, j \in DOMAIN order : order[i] = order[j] => i = j
      /\ \A c \in stale : \E i \in DOMAIN order : order[i] = c
  BY OrderExact, OrderType
<1>4. \A i \in DOMAIN order : order[i] \in stale
  BY <1>3, ElementOfSeq, LenProperties
<1>5. /\ n \in Nat /\ DOMAIN parked = 1 .. n
      /\ \A i \in DOMAIN parked : parked[i] \in Context \ stale
  BY <1>2, LenProperties, ElementOfSeq DEF TypeOK, QueueExact
<1> HIDE DEF stale, n
<1>6. /\ Len(order) \in Nat /\ DOMAIN order = 1 .. Len(order)
      /\ DOMAIN parked' = 1 .. n + Len(order)
      /\ \A i \in DOMAIN parked' : parked'[i] = IF i <= n THEN parked[i] ELSE order[i - n]
  <2> DEFINE q == parked \o order
  <2>1. /\ parked \in Seq(Context) /\ Len(parked) = n /\ order \in Seq(Context)
        /\ Len(order) \in Nat /\ DOMAIN order = 1 .. Len(order)
    BY <1>3, LenProperties DEF TypeOK, n
  <2>2. /\ q \in Seq(Context) /\ Len(q) = Len(parked) + Len(order)
        /\ \A i \in 1 .. Len(parked) + Len(order) :
             q[i] = IF i <= Len(parked) THEN parked[i] ELSE order[i - Len(parked)]
    BY <2>1, ConcatProperties, Zenon
  <2>3. parked' = q
    BY <1>1
  <2> HIDE DEF q
  <2>4. DOMAIN q = 1 .. n + Len(order)
    BY <2>1, <2>2, LenProperties
  <2> QED
    BY <2>1, <2>2, <2>3, <2>4
<1>7. ASSUME NEW i \in DOMAIN parked'
      PROVE  \/ i \in DOMAIN parked /\ parked'[i] = parked[i]
             \/ i - n \in DOMAIN order /\ parked'[i] = order[i - n]
  <2>1. CASE i <= n
    BY <1>5, <1>6, <1>7, <2>1
  <2>2. CASE ~(i <= n)
    <3>1. i - n \in 1 .. Len(order)
      BY <1>5, <1>6, <1>7, <2>2
    <3> QED
      BY <1>6, <1>7, <2>2, <3>1
  <2> QED
    BY <2>1, <2>2
<1>8. \A i \in DOMAIN parked' : rows'[parked'[i]].status = "verification_required"
  BY <1>2, <1>4, <1>5, <1>7 DEF QueueExact, Is
<1>9. \A i, j \in DOMAIN parked' : parked'[i] = parked'[j] => i = j
  <2>1. SUFFICES ASSUME NEW i \in DOMAIN parked', NEW j \in DOMAIN parked',
                        parked'[i] = parked'[j]
                 PROVE  i = j
    OBVIOUS
  <2>2. CASE parked'[i] \in stale
    <3>1. i - n \in DOMAIN order /\ j - n \in DOMAIN order
          /\ order[i - n] = order[j - n]
      BY <1>5, <1>7, <2>1, <2>2
    <3>2. i - n = j - n
      BY <1>3, <3>1
    <3> QED
      BY <1>5, <1>6, <3>2
  <2>3. CASE parked'[i] \notin stale
    <3>1. i \in DOMAIN parked /\ j \in DOMAIN parked /\ parked[i] = parked[j]
      BY <1>4, <1>7, <2>1, <2>3
    <3> QED
      BY <3>1 DEF QueueExact
  <2> QED
    BY <2>2, <2>3
<1>10. ASSUME NEW c \in Context, rows'[c].status = "verification_required"
       PROVE  \E i \in DOMAIN parked' : parked'[i] = c
  <2>1. CASE c \in stale
    <3>1. PICK i \in DOMAIN order : order[i] = c
      BY <1>3, <2>1
    <3>2. /\ i + n \in DOMAIN parked' /\ ~(i + n <= n) /\ (i + n) - n = i
      BY <1>5, <1>6, <3>1
    <3> QED
      BY <1>6, <3>1, <3>2
  <2>2. CASE c \notin stale
    <3>1. PICK i \in DOMAIN parked : parked[i] = c
      BY <1>2, <1>10, <2>2 DEF QueueExact, Is
    <3>2. i \in DOMAIN parked' /\ i <= n
      BY <1>5, <1>6, <3>1
    <3> QED
      BY <1>6, <3>1, <3>2
  <2> QED
    BY <2>1, <2>2
<1> QED
  BY <1>8, <1>9, <1>10 DEF QueueExact, Is

LEMMA NextExact == TypeOK /\ QueueExact /\ [StoreNext]_store => QueueExact'
<1> SUFFICES ASSUME TypeOK, QueueExact, [StoreNext]_store
             PROVE  QueueExact'
  OBVIOUS
<1>1. ASSUME NEW c \in Context, NEW native \in BOOLEAN,
             NEW offered \in SUBSET Start,
             NEW targets \in [Start -> Calendar \cup {None}],
             NEW cal \in Calendar \cup {None}, NEW of \in Context \cup {None},
             Create(c, native, offered, targets, cal, of)
      PROVE  QueueExact'
  <2>1. [NoRow EXCEPT !.status = "offered", !.native = native,
                      !.offered = offered, !.targets = targets,
                      !.calendar = cal, !.rescheduleOf = of] \in Row
    BY <1>1, NoRowType DEF Row, Status
  <2> QED
    BY <1>1, <2>1, PutExact DEF Create, Is
<1>2. ASSUME NEW c \in Context, NEW st \in Status, NEW why \in Reason,
             Move(c, st, why), ~Is(c, "verification_required")
      PROVE  QueueExact'
  <2>1. [rows[c] EXCEPT !.status = st, !.reason = why] \in Row
    BY <1>2 DEF TypeOK, Row
  <2> QED
    BY <1>2, <2>1, PutExact DEF Move
<1>3. ASSUME NEW c \in Context, NEW s \in Start, Claim(c, s)
      PROVE  QueueExact'
  <2>1. BoundCalendar(c, s) \in Calendar \cup {None}
    BY DEF TypeOK, Row, BoundCalendar
  <2>2. [rows[c] EXCEPT !.status = "booking_in_progress", !.start = s,
                        !.calendar = BoundCalendar(c, s)] \in Row
    BY <2>1 DEF TypeOK, Row, Status, InFlight
  <2> QED
    BY <1>3, <2>2, PutExact DEF Claim, Is
<1>4. ASSUME NEW st, NEW why \in Reason
      PROVE  Kept(st, why) \in Reason
  BY <1>4 DEF Kept, Reason
<1>5. ASSUME NEW c \in Context, NEW st \in Status,
             NEW ev \in Context \cup {None}, NEW why \in Reason,
             Complete(c, st, ev, why)
      PROVE  QueueExact'
  <2>1. [rows[c] EXCEPT !.status = st, !.event = ev,
                        !.reason = Kept(st, why)] \in Row
    BY <1>4 DEF TypeOK, Row
  <2> QED
    BY <1>5, <2>1, PutExact DEF Complete, Is
<1>6. ASSUME NEW c \in Context, NEW st \in Status, NEW why \in Reason,
             CompleteCancellation(c, st, why) \/ CompleteReschedule(c, st, why)
      PROVE  QueueExact'
  BY <1>6, <1>2, <1>4 DEF CompleteCancellation, CompleteReschedule, Is
<1>7. {"expired", "cancellation_pending", "rescheduling"} \subseteq Status
       /\ "none" \in Reason
  BY DEF Status, InFlight, Terminal, Reason
<1>8. ASSUME NEW c \in Context,
             Expire(c) \/ BeginCancellation(c) \/ BeginReschedule(c)
      PROVE  QueueExact'
  BY <1>8, <1>2, <1>7 DEF Expire, BeginCancellation, BeginReschedule, Is
<1>9. ASSUME NEW c \in Context, Age(c)
      PROVE  QueueExact'
  <2>1. \A d \in Context : rows'[d].status = rows[d].status
    BY <1>9 DEF Age, TypeOK, Row
  <2>2. \A i \in DOMAIN parked : parked[i] \in Context
    BY ElementOfSeq, LenProperties DEF TypeOK
  <2> QED
    BY <1>9, <2>1, <2>2 DEF Age, QueueExact, Is
<1>10. CASE UNCHANGED store
  BY <1>10 DEF store, QueueExact, Is
<1> QED
  BY <1>1, <1>3, <1>5, <1>6, <1>8, <1>9, <1>10, ResolveExact, SweepExact DEF StoreNext

LEMMA InitExact == StoreInit => QueueExact
BY EmptySeq DEF StoreInit, QueueExact, Is, NoRow

(* However rows are parked, swept and resolved, the reconciler's queue has *)
(* every parked row, each once, and no row that has been resolved.         *)
THEOREM QueueIsExact == StoreSpec => []QueueExact
<1>1. TypeOK /\ QueueExact /\ [StoreNext]_store => (TypeOK /\ QueueExact)'
  BY NextTypeOK, NextExact
<1> QED
  BY <1>1, InitTypeOK, InitExact, PTL DEF StoreSpec

-----------------------------------------------------------------------------
(* The lifecycle over the store *)

(* A request at work, or whose write is still under way. *)
Engaged(r) == Live(r) \/ write[r] = "sent"

(* What a request works on exists: a live booking or move has claimed its  *)
(* row, and a move's row names the booking it moves.                       *)
WorkExists(r) ==
  /\ Ctx(r) \in Context
  /\ ~Is(Ctx(r), "absent")
  /\ req[r].op \in {"book", "cancel", "move"}
  /\ req[r].op # "cancel" => ~Is(Ctx(r), "offered") /\ rows[Ctx(r)].start \in Start
  /\ req[r].op = "move" => Original(r) \in Context

RequestsHold == \A r \in Request : Engaged(r) => WorkExists(r)

(* The program counter says which operation a request runs. *)
OperationOf(pc) == IF pc \in {"recheck", "creating"} THEN "book"
                   ELSE IF pc = "cancelling" THEN "cancel" ELSE "move"

(* What settle() is about to write to the successor.                       *)
Verdict == {"booked", "rejected", "verification_required"}

PcMatches ==
  \A r \in Request :
    /\ Live(r) => req[r].op = OperationOf(req[r].pc)
    /\ req[r].pc = "settleSuccessor" => req[r].verdict \in Verdict

(* A pass that examined a row knows it, and its original if it has one. *)
PassesHold ==
  \A k \in Reconciler :
    /\ rec[k].pc \in {"resolve", "also"} => rec[k].ctx \in Context
    /\ rec[k].pc = "also" => /\ ~Is(rec[k].ctx, "absent")
                             /\ rows[rec[k].ctx].rescheduleOf \in Context

LifecycleInv == /\ LifecycleTypeOK
                /\ Unchosen
                /\ RequestsHold
                /\ PcMatches
                /\ PassesHold

-----------------------------------------------------------------------------
(* Every step is a step of the store, or leaves it alone *)

(* An operation of the store, with arguments of its types, is a step of    *)
(* StoreNext.                                                              *)
LEMMA CompleteSteps ==
  ASSUME NEW c \in Context, NEW st \in Status, NEW ev \in Context \cup {None},
         NEW why \in Reason,
         \/ Complete(c, st, ev, why)
         \/ CompleteCancellation(c, st, why)
         \/ CompleteReschedule(c, st, why)
         \/ ResolveVerification(c, st, ev)
  PROVE  StoreNext
<1>1. /\ Complete(c, st, ev, why) => Is(c, "booking_in_progress")
      /\ CompleteCancellation(c, st, why) => Is(c, "cancellation_pending")
      /\ CompleteReschedule(c, st, why) => Is(c, "rescheduling")
      /\ ResolveVerification(c, st, ev) => Is(c, "verification_required")
  BY DEF Complete, CompleteCancellation, CompleteReschedule, ResolveVerification
<1> QED
  BY <1>1 DEF StoreNext

LEMMA BeginSteps ==
  ASSUME NEW c \in Context,
         \/ Expire(c) \/ BeginCancellation(c) \/ BeginReschedule(c) \/ Age(c)
         \/ \E s \in Start : Claim(c, s)
  PROVE  StoreNext
BY DEF StoreNext

LEMMA CreateSteps ==
  ASSUME NEW c \in Context, NEW native \in BOOLEAN, NEW offered \in SUBSET Start,
         NEW targets \in [Start -> Calendar \cup {None}],
         NEW cal \in Calendar \cup {None}, NEW of \in Context \cup {None},
         Create(c, native, offered, targets, cal, of)
  PROVE  StoreNext
<1>1. Is(c, "absent")
  BY DEF Create
<1> QED
  BY <1>1 DEF StoreNext

(* So is the update of a caller that does not look at a null answer. *)
LEMMA TrySteps ==
  ASSUME NEW c \in Context, NEW st \in Status, NEW ev \in Context \cup {None},
         NEW why \in Reason,
         TryComplete(c, st, ev, why) \/ TryCompleteReschedule(c, st, why)
  PROVE  [StoreNext]_store
BY CompleteSteps DEF TryComplete, TryCompleteReschedule

LEMMA StatusHas ==
  /\ {"booked", "rejected", "verification_required", "cancelled", "rescheduled"}
       \subseteq Status
  /\ {"none", "creation", "cancellation", "reschedule", "correlation_mismatch"}
       \subseteq Reason
BY DEF Status, Terminal, Reason

(* What a request that is live works on, by its program counter. *)
LEMMA LiveHolds ==
  ASSUME LifecycleInv, NEW r \in Request, req[r].pc \notin {"idle", "done"}
  PROVE  /\ Ctx(r) \in Context
         /\ rows[Ctx(r)] \in Row
         /\ req[r].pc \in {"begin", "moveCheck", "moving", "settleSuccessor"} =>
              Original(r) \in Context /\ rows[Original(r)] \in Row
<1>1. Live(r) /\ Engaged(r)
  BY DEF Live, Engaged
<1>2. Ctx(r) \in Context /\ (req[r].op = "move" => Original(r) \in Context)
  BY <1>1 DEF LifecycleInv, RequestsHold, WorkExists
<1>3. req[r].pc \in {"begin", "moveCheck", "moving", "settleSuccessor"} =>
        req[r].op = "move"
  BY <1>1 DEF LifecycleInv, PcMatches, OperationOf
<1> QED
  BY <1>2, <1>3 DEF LifecycleInv, LifecycleTypeOK, TypeOK

(* A request changes the store by at most one of its operations a step. *)
LEMMA RequestStoreStep ==
  ASSUME LifecycleInv, NEW r \in Request, RequestNext(r)
  PROVE  [StoreNext]_store
<1> USE StatusHas
<1>1. ASSUME NEW c \in Context, NEW s \in Start,
             BookClaim(r, c, s) \/ MoveClaim(r, c, s)
      PROVE  [StoreNext]_store
  BY <1>1, BeginSteps DEF BookClaim, MoveClaim
<1>2. ASSUME NEW c \in Context, CancelBegin(r, c)
      PROVE  [StoreNext]_store
  BY <1>2, BeginSteps DEF CancelBegin
<1>3. CASE BookCreate(r) \/ MoveUpdate(r) \/ Crash(r)
  BY <1>3 DEF BookCreate, MoveUpdate, Crash
<1>4. CASE BookRecheckFails(r) \/ BookRefused(r) \/ BookUnverified(r)
  <2>1. Ctx(r) \in Context
    BY <1>4, LiveHolds DEF BookRecheckFails, BookRefused, BookUnverified, At
  <2> QED
    BY <1>4, <2>1, TrySteps DEF BookRecheckFails, BookRefused, BookUnverified
<1>5. CASE BookConfirmed(r) \/ BookPersistenceFails(r)
  <2>1. Ctx(r) \in Context
    BY <1>5, LiveHolds DEF BookConfirmed, BookPersistenceFails, At
  <2> QED
    BY <1>5, <2>1, CompleteSteps DEF BookConfirmed, BookPersistenceFails
<1>6. CASE \/ CancelConfirmed(r) \/ CancelMismatch(r) \/ CancelRefused(r)
           \/ CancelUnverified(r)
  <2>1. Ctx(r) \in Context
    BY <1>6, LiveHolds
       DEF CancelConfirmed, CancelMismatch, CancelRefused, CancelUnverified, At
  <2>2. ASSUME NEW st \in Status, NEW why \in Reason, NEW outcome,
               CancelSettle(r, st, why, outcome)
        PROVE  [StoreNext]_store
    BY <2>1, <2>2, CompleteSteps DEF CancelSettle
  <2> QED
    BY <1>6, <2>2
       DEF CancelConfirmed, CancelMismatch, CancelRefused, CancelUnverified
<1>7. CASE MoveBegin(r)
  <2>1. Ctx(r) \in Context /\ Original(r) \in Context
    BY <1>7, LiveHolds DEF MoveBegin, At
  <2> QED
    BY <1>7, <2>1, BeginSteps, TrySteps DEF MoveBegin
<1>8. CASE \/ MoveCheckFails(r) \/ MoveRefused(r) \/ MoveUnverified(r)
           \/ MoveConfirmed(r) \/ MovePersistenceFails(r)
  <2>1. Original(r) \in Context
    BY <1>8, LiveHolds
       DEF MoveCheckFails, MoveRefused, MoveUnverified, MoveConfirmed,
           MovePersistenceFails, At
  <2>2. ASSUME NEW st \in Status, NEW verdict, Settle(r, st, verdict)
        PROVE  [StoreNext]_store
    BY <2>1, <2>2, TrySteps DEF Settle
  <2> QED
    BY <1>8, <2>2
       DEF MoveCheckFails, MoveRefused, MoveUnverified, MoveConfirmed,
           MovePersistenceFails
<1>9. CASE SettleSuccessor(r)
  <2>1. /\ Ctx(r) \in Context
        /\ rows[Original(r)] \in Row
        /\ req[r].verdict \in Status
    BY <1>9, LiveHolds DEF SettleSuccessor, At, LifecycleInv, LifecycleTypeOK
  <2>2. rows[Original(r)].event \in Context \cup {None}
    BY <2>1 DEF Row
  <2> QED
    BY <1>9, <2>1, <2>2, TrySteps DEF SettleSuccessor
<1> QED
  BY <1>1, <1>2, <1>3, <1>4, <1>5, <1>6, <1>7, <1>8, <1>9 DEF RequestNext

(* So does a pass: it parks stale rows and resolves parked ones. *)
LEMMA PassStoreStep ==
  ASSUME LifecycleInv, NEW k \in Reconciler, ReconcilerNext(k)
  PROVE  [StoreNext]_store
<1>1. CASE Tick(k)
  BY <1>1 DEF Tick, StoreNext
<1>2. CASE \/ PassEnds(k) \/ Leave(k) \/ PassDies(k) \/ PassRaises(k)
           \/ \E c \in Context, why \in Reason : Examine(k, c, why)
  BY <1>2 DEF PassEnds, Leave, PassDies, PassRaises, Examine
<1>3. CASE Resolve(k)
  <2> DEFINE c  == rec[k].ctx
             st == Resolution(c, rec[k].why, rec[k].seen)
             ev == IF st = "booked" /\ rec[k].why # "cancellation"
                   THEN Correlation(c) ELSE None
  <2>1. c \in Context
    BY <1>3 DEF Resolve, LifecycleInv, PassesHold
  <2>2. rows[c].rescheduleOf \in Context \cup {None}
    BY <2>1 DEF LifecycleInv, LifecycleTypeOK, TypeOK, Row
  <2>3. ev \in Context \cup {None}
    BY <2>1, <2>2 DEF Correlation
  <2>4. ResolveVerification(c, st, ev) \/ UNCHANGED store
    BY <1>3 DEF Resolve
  <2>5. ResolveVerification(c, st, ev) => st \in Status
    BY StatusHas DEF ResolveVerification
  <2> HIDE DEF c, st, ev
  <2> QED
    BY <2>1, <2>3, <2>4, <2>5, CompleteSteps, StatusHas
<1>4. CASE ResolveOriginal(k)
  <2> DEFINE o  == rows[rec[k].ctx].rescheduleOf
             st == OriginalResolution(rec[k].ctx, rec[k].seen)
  <2>1. o \in Context
    BY <1>4 DEF ResolveOriginal, LifecycleInv, PassesHold
  <2>2. ResolveVerification(o, st, None) \/ UNCHANGED store
    BY <1>4 DEF ResolveOriginal
  <2>3. st \in Status
    BY StatusHas DEF OriginalResolution
  <2> HIDE DEF o, st
  <2> QED
    BY <2>1, <2>2, <2>3, CompleteSteps, StatusHas
<1> QED
  BY <1>1, <1>2, <1>3, <1>4 DEF ReconcilerNext

(* And everything else: offers, expiry, time and the calendar.             *)
LEMMA LifecycleStoreStep == LifecycleInv /\ [Next]_vars => [StoreNext]_store
<1> SUFFICES ASSUME LifecycleInv, [Next]_vars
             PROVE  [StoreNext]_store
  OBVIOUS
<1>1. ASSUME NEW c \in Context, Offer(c)
      PROVE  [StoreNext]_store
  <2>1. PICK native \in Native, offered \in SUBSET Start :
          \E targets \in [offered -> Calendar] :
            Create(c, native, offered,
                   [s \in Start |-> IF native /\ s \in offered THEN targets[s]
                                                               ELSE None],
                   None, None)
    BY <1>1 DEF Offer
  <2>2. PICK targets \in [offered -> Calendar] :
          Create(c, native, offered,
                 [s \in Start |-> IF native /\ s \in offered THEN targets[s]
                                                             ELSE None],
                 None, None)
    BY <2>1
  <2>3. [s \in Start |-> IF native /\ s \in offered THEN targets[s] ELSE None]
          \in [Start -> Calendar \cup {None}]
    OBVIOUS
  <2>4. native \in BOOLEAN
    BY LifecycleAssumption
  <2> QED
    BY <2>2, <2>3, <2>4, CreateSteps
<1>2. ASSUME NEW c \in Context, NEW o \in Context, OfferReschedule(c, o)
      PROVE  [StoreNext]_store
  <2>1. rows[o].calendar \in Calendar \cup {None}
    BY DEF LifecycleInv, LifecycleTypeOK, TypeOK, Row
  <2> DEFINE offered == Start \ {rows[o].start}
             targets == [s \in Start |-> IF s \in offered THEN rows[o].calendar
                                                          ELSE None]
  <2>2. targets \in [Start -> Calendar \cup {None}] /\ offered \in SUBSET Start
    BY <2>1
  <2>3. Create(c, TRUE, offered, targets, rows[o].calendar, o)
    BY <1>2 DEF OfferReschedule
  <2> HIDE DEF offered, targets
  <2> QED
    BY <2>1, <2>2, <2>3, CreateSteps
<1>3. ASSUME NEW c \in Context, Lapse(c) \/ BeginOfferReschedule(c) \/ Elapse(c)
      PROVE  [StoreNext]_store
  BY <1>3, BeginSteps DEF Lapse, BeginOfferReschedule, Elapse
<1>4. CASE ProviderNext
  BY <1>4 DEF ProviderNext, ProviderApplies, ProviderRefuses, AttorneyFills,
              AttorneyDeletes, AttorneyMoves
<1>5. CASE UNCHANGED vars
  BY <1>5 DEF vars
<1> QED
  BY <1>1, <1>2, <1>3, <1>4, <1>5, RequestStoreStep, PassStoreStep DEF Next

-----------------------------------------------------------------------------
(* What a step does to the request that takes it *)

Req == [pc : Pc, op : {"none", "book", "cancel", "move"},
        ctx : Context \cup {None}, verdict : Status]

(* A live request moves on: it keeps its operation and its row as long as  *)
(* either matters, and nobody else is touched.                             *)
MovesOn(r) ==
  /\ req' \in [Request -> Req]
  /\ write' \in [Request -> Reply]
  /\ told' \in [Context -> Told]
  /\ Live(r)
  /\ \A q \in Request \ {r} : req'[q] = req[q] /\ write'[q] = write[q]
  /\ req'[r].pc # "recheck"
  /\ req'[r].pc = "done" \/ OperationOf(req'[r].pc) = OperationOf(req[r].pc)
  /\ req'[r].pc = "settleSuccessor" => req'[r].verdict \in Verdict
  /\ req'[r].pc # "done" \/ write'[r] = "sent" =>
       req'[r].ctx = req[r].ctx /\ req'[r].op = req[r].op

LEMMA WriteShape ==
  ASSUME LifecycleInv, NEW r \in Request,
         \/ \E reply \in Reply : write' = [write EXCEPT ![r] = reply]
         \/ \E replies : GotReply(r, replies)
         \/ NoReply(r)
         \/ UNCHANGED write
  PROVE  /\ write' \in [Request -> Reply]
         /\ \A q \in Request \ {r} : write'[q] = write[q]
BY DEF LifecycleInv, LifecycleTypeOK, GotReply, NoReply, Reply

LEMMA OverMovesOn ==
  ASSUME LifecycleInv, NEW r \in Request, req' = [req EXCEPT ![r] = Over(r)],
         Live(r), told' \in [Context -> Told], write' \in [Request -> Reply],
         \A q \in Request \ {r} : write'[q] = write[q]
  PROVE  MovesOn(r)
<1>1. Over(r) \in Req /\ Over(r).pc = "done"
  BY DEF Over, Idle, Req, Pc, Status, LifecycleInv, LifecycleTypeOK
<1>2. write'[r] = "sent" => Over(r).ctx = req[r].ctx /\ Over(r).op = req[r].op
  BY DEF Over, LifecycleInv, LifecycleTypeOK
<1>3. /\ req' \in [Request -> Req]
      /\ req'[r] = Over(r)
      /\ \A q \in Request \ {r} : req'[q] = req[q]
  BY <1>1 DEF LifecycleInv, LifecycleTypeOK, Req
<1> QED
  BY <1>1, <1>2, <1>3 DEF MovesOn

LEMMA AnswerMovesOn ==
  ASSUME LifecycleInv, NEW r \in Request, NEW outcome \in Told,
         Answer(r, outcome), Live(r),
         write' \in [Request -> Reply],
         \A q \in Request \ {r} : write'[q] = write[q]
  PROVE  MovesOn(r)
<1>1. told' \in [Context -> Told]
  BY DEF Answer, LifecycleInv, LifecycleTypeOK
<1> QED
  BY <1>1, OverMovesOn DEF Answer

LEMMA GotoMovesOn ==
  ASSUME LifecycleInv, NEW r \in Request, NEW pc \in Pc, NEW verdict \in Verdict,
         \/ pc # "settleSuccessor" /\ Goto(r, pc)
         \/ req' = [req EXCEPT ![r].pc = pc, ![r].verdict = verdict],
         Live(r), OperationOf(pc) = OperationOf(req[r].pc), pc # "recheck",
         write' \in [Request -> Reply],
         \A q \in Request \ {r} : write'[q] = write[q],
         UNCHANGED told
  PROVE  MovesOn(r)
<1>1. req[r] \in Req /\ req \in [Request -> Req]
  BY DEF LifecycleInv, LifecycleTypeOK, Req
<1> DEFINE there == [req[r] EXCEPT !.pc = pc]
           judged == [[req[r] EXCEPT !.pc = pc] EXCEPT !.verdict = verdict]
<1>2. \A one \in {there, judged} :
        one \in Req /\ one.pc = pc /\ one.ctx = req[r].ctx /\ one.op = req[r].op
  <2>1. verdict \in Status
    BY StatusHas DEF Verdict
  <2>2. there \in Req /\ there.pc = pc /\ there.ctx = req[r].ctx /\ there.op = req[r].op
    BY <1>1 DEF Req
  <2>3. judged \in Req /\ judged.pc = pc /\ judged.ctx = req[r].ctx /\ judged.op = req[r].op
    BY <1>1, <2>1 DEF Req
  <2> QED
    BY <2>2, <2>3
<1>3. judged.verdict = verdict
  BY <1>1 DEF Req
<1>4. \E one \in {there, judged} :
        /\ req' = [req EXCEPT ![r] = one]
        /\ pc = "settleSuccessor" => one = judged
  BY <1>1 DEF Goto
<1> HIDE DEF there, judged
<1>5. /\ req' \in [Request -> Req]
      /\ \A q \in Request \ {r} : req'[q] = req[q]
  BY <1>1, <1>2, <1>4
<1>6. /\ req'[r].pc = pc /\ req'[r].ctx = req[r].ctx /\ req'[r].op = req[r].op
      /\ pc = "settleSuccessor" => req'[r].verdict \in Verdict
  BY <1>1, <1>2, <1>4, <1>3
<1>7. told' \in [Context -> Told]
  BY DEF LifecycleInv, LifecycleTypeOK
<1> QED
  BY <1>5, <1>6, <1>7 DEF MovesOn

(* A request that begins has its row, and knows it is there.               *)
Begins(r) ==
  \E c \in Context :
    CancelBegin(r, c) \/ \E s \in Start : BookClaim(r, c, s) \/ MoveClaim(r, c, s)

Starts(r) ==
  /\ Begins(r)
  /\ req' \in [Request -> Req]
  /\ write' \in [Request -> Reply]
  /\ told' \in [Context -> Told]
  /\ \A q \in Request \ {r} : req'[q] = req[q] /\ write'[q] = write[q]
  /\ req'[r].pc \in {"recheck", "begin", "cancelling"}
  /\ req'[r].pc # "cancelling" => Is(req'[r].ctx, "offered")
  /\ req'[r].op = OperationOf(req'[r].pc)
  /\ WorkExists(r)'

(* What a claim leaves in the row it wins. *)
LEMMA ClaimedRow ==
  ASSUME TypeOK, NEW c \in Context, NEW s \in Start, Claim(c, s)
  PROVE  /\ rows'[c].status = "booking_in_progress"
         /\ rows'[c].start = s
         /\ rows'[c].rescheduleOf = rows[c].rescheduleOf
<1> DEFINE row == [rows[c] EXCEPT !.status = "booking_in_progress", !.start = s,
                                  !.calendar = BoundCalendar(c, s)]
<1>1. BoundCalendar(c, s) \in Calendar \cup {None}
  BY DEF TypeOK, Row, BoundCalendar
<1>2. /\ row \in Row /\ row.status = "booking_in_progress" /\ row.start = s
      /\ row.rescheduleOf = rows[c].rescheduleOf
  BY <1>1 DEF TypeOK, Row, Status, InFlight
<1>3. Put(c, row)
  BY DEF Claim
<1> HIDE DEF row
<1> QED
  BY <1>2, <1>3, PutRow

LEMMA BeginShape ==
  ASSUME LifecycleInv, NEW r \in Request, NEW op \in {"book", "cancel", "move"},
         NEW c \in Context, NEW pc \in Pc, Begin(r, op, c, pc)
  PROVE  /\ req' \in [Request -> Req]
         /\ req'[r].pc = pc /\ req'[r].op = op /\ req'[r].ctx = c
         /\ \A q \in Request \ {r} : req'[q] = req[q]
<1> DEFINE new == [pc |-> pc, op |-> op, ctx |-> c, verdict |-> "absent"]
<1>1. new \in Req /\ new.pc = pc /\ new.op = op /\ new.ctx = c
  BY DEF Req, Status
<1>2. req \in [Request -> Req] /\ req' = [req EXCEPT ![r] = new]
  BY DEF Begin, LifecycleInv, LifecycleTypeOK, Req
<1> HIDE DEF new
<1> QED
  BY <1>1, <1>2

LEMMA ClaimStarts ==
  ASSUME LifecycleInv, NEW r \in Request, NEW c \in Context, NEW s \in Start,
         BookClaim(r, c, s) \/ MoveClaim(r, c, s)
  PROVE  Starts(r)
<1>1. /\ rows'[c].status = "booking_in_progress"
      /\ rows'[c].start = s
      /\ rows'[c].rescheduleOf = rows[c].rescheduleOf
  BY ClaimedRow DEF BookClaim, MoveClaim, LifecycleInv, LifecycleTypeOK
<1>2. /\ write' \in [Request -> Reply] /\ told' \in [Context -> Told]
      /\ \A q \in Request \ {r} : write'[q] = write[q]
  BY DEF BookClaim, MoveClaim, LifecycleInv, LifecycleTypeOK
<1>3. CASE BookClaim(r, c, s)
  <2>1. /\ req' \in [Request -> Req]
        /\ req'[r].pc = "recheck" /\ req'[r].op = "book" /\ req'[r].ctx = c
        /\ \A q \in Request \ {r} : req'[q] = req[q]
        /\ Is(c, "offered")
    BY <1>3, BeginShape DEF BookClaim, Claim, Pc
  <2> QED
    BY <1>1, <1>2, <2>1 DEF Starts, Begins, OperationOf, WorkExists, Ctx, Is
<1>4. CASE MoveClaim(r, c, s)
  <2>1. /\ req' \in [Request -> Req]
        /\ req'[r].pc = "begin" /\ req'[r].op = "move" /\ req'[r].ctx = c
        /\ \A q \in Request \ {r} : req'[q] = req[q]
        /\ Is(c, "offered")
    BY <1>4, BeginShape DEF MoveClaim, Claim, Pc
  <2>2. rows[c].rescheduleOf \in Context
    BY <1>4 DEF MoveClaim, LifecycleInv, LifecycleTypeOK, TypeOK, Row
  <2> QED
    BY <1>1, <1>2, <2>1, <2>2 DEF Starts, Begins, OperationOf, WorkExists, Ctx, Original, Is
<1> QED
  BY <1>3, <1>4

LEMMA CancelStarts ==
  ASSUME LifecycleInv, NEW r \in Request, NEW c \in Context, CancelBegin(r, c)
  PROVE  Starts(r)
<1>1. rows'[c].status = "cancellation_pending"
  <2> DEFINE row == [rows[c] EXCEPT !.status = "cancellation_pending",
                                    !.reason = "none"]
  <2>1. rows[c] \in Row
    BY DEF LifecycleInv, LifecycleTypeOK, TypeOK
  <2>2. row \in Row /\ row.status = "cancellation_pending"
    BY <2>1 DEF Row, Status, InFlight, Reason
  <2>3. Put(c, row)
    BY DEF CancelBegin, BeginCancellation, Move
  <2> HIDE DEF row
  <2> QED
    BY <2>2, <2>3, PutRow DEF LifecycleInv, LifecycleTypeOK
<1>2. /\ write' \in [Request -> Reply] /\ told' \in [Context -> Told]
      /\ \A q \in Request \ {r} : write'[q] = write[q]
  BY DEF CancelBegin, LifecycleInv, LifecycleTypeOK, Reply
<1>3. /\ req' \in [Request -> Req]
      /\ req'[r].pc = "cancelling" /\ req'[r].op = "cancel" /\ req'[r].ctx = c
      /\ \A q \in Request \ {r} : req'[q] = req[q]
  BY BeginShape DEF CancelBegin, Pc
<1> QED
  BY <1>1, <1>2, <1>3 DEF Starts, Begins, OperationOf, WorkExists, Ctx, Is

(* Every step of a request begins it or moves it on. *)
LEMMA RequestShape ==
  ASSUME LifecycleInv, NEW r \in Request, RequestNext(r)
  PROVE  MovesOn(r) \/ Starts(r)
<1> USE DEF At
<1>1. /\ req[r].pc \in Pc
      /\ req[r].verdict \in Status
      /\ {"nothing", "booked", "rejected", "verification_required", "cancelled",
          "rescheduled"} = Told
  BY DEF LifecycleInv, LifecycleTypeOK, Told
<1>2. ASSUME NEW c \in Context, NEW s \in Start,
             BookClaim(r, c, s) \/ MoveClaim(r, c, s)
      PROVE  Starts(r)
  BY <1>2, ClaimStarts
<1>3. ASSUME NEW c \in Context, CancelBegin(r, c)
      PROVE  Starts(r)
  BY <1>3, CancelStarts
<1>4. ASSUME NEW outcome \in Told, Live(r), Answer(r, outcome),
             \/ \E replies : GotReply(r, replies)
             \/ NoReply(r)
             \/ UNCHANGED write
      PROVE  MovesOn(r)
  BY <1>4, WriteShape, AnswerMovesOn
<1>5. CASE \/ BookRecheckFails(r) \/ BookRefused(r) \/ BookUnverified(r)
           \/ BookConfirmed(r) \/ BookPersistenceFails(r)
  BY <1>1, <1>4, <1>5
     DEF BookRecheckFails, BookRefused, BookUnverified, BookConfirmed,
         BookPersistenceFails, Live
<1>6. CASE \/ CancelConfirmed(r) \/ CancelMismatch(r) \/ CancelRefused(r)
           \/ CancelUnverified(r)
  <2>1. \E outcome \in Told : Answer(r, outcome)
    BY <1>1, <1>6
       DEF CancelConfirmed, CancelMismatch, CancelRefused, CancelUnverified,
           CancelSettle
  <2> QED
    BY <1>4, <1>6, <2>1
       DEF CancelConfirmed, CancelMismatch, CancelRefused, CancelUnverified, Live
<1>7. ASSUME NEW pc \in Pc, pc # "recheck", Live(r),
             OperationOf(pc) = OperationOf(req[r].pc),
             NEW verdict \in Verdict,
             \/ pc # "settleSuccessor" /\ Goto(r, pc)
             \/ req' = [req EXCEPT ![r].pc = pc, ![r].verdict = verdict],
             \/ \E reply \in Reply : write' = [write EXCEPT ![r] = reply]
             \/ \E replies : GotReply(r, replies)
             \/ NoReply(r)
             \/ UNCHANGED write,
             UNCHANGED told
      PROVE  MovesOn(r)
  BY <1>7, WriteShape, GotoMovesOn
<1>8. CASE BookCreate(r)
  <2>1. Goto(r, "creating") /\ \E reply \in Reply : write' = [write EXCEPT ![r] = reply]
    BY <1>8 DEF BookCreate, Send, Reply
  <2> QED
    BY <1>1, <1>7, <1>8, <2>1 DEF BookCreate, Live, OperationOf, Pc, Verdict
<1>9. CASE MoveUpdate(r)
  <2>1. Goto(r, "moving") /\ \E reply \in Reply : write' = [write EXCEPT ![r] = reply]
    BY <1>9 DEF MoveUpdate, Send, Reply
  <2> QED
    BY <1>1, <1>7, <1>9, <2>1 DEF MoveUpdate, Live, OperationOf, Pc, Verdict
<1>10. CASE MoveBegin(r)
  <2>1. CASE Goto(r, "moveCheck") /\ UNCHANGED told
    BY <1>1, <1>7, <1>10, <2>1 DEF MoveBegin, Live, OperationOf, Pc, Verdict
  <2>2. CASE Answer(r, "rejected")
    BY <1>1, <1>4, <1>10, <2>2 DEF MoveBegin, Live
  <2> QED
    BY <1>10, <2>1, <2>2 DEF MoveBegin
<1>11. CASE \/ MoveCheckFails(r) \/ MoveRefused(r) \/ MoveUnverified(r)
            \/ MoveConfirmed(r) \/ MovePersistenceFails(r)
  <2>1. \E verdict \in Verdict :
          req' = [req EXCEPT ![r].pc = "settleSuccessor", ![r].verdict = verdict]
    BY <1>11
       DEF Verdict, MoveCheckFails, MoveRefused, MoveUnverified, MoveConfirmed,
           MovePersistenceFails, Settle
  <2>2. /\ Live(r) /\ "settleSuccessor" \in Pc
        /\ OperationOf("settleSuccessor") = OperationOf(req[r].pc)
    BY <1>11
       DEF MoveCheckFails, MoveRefused, MoveUnverified, MoveConfirmed,
           MovePersistenceFails, Live, OperationOf, Pc
  <2> QED
    BY <1>7, <1>11, <2>1, <2>2
       DEF MoveCheckFails, MoveRefused, MoveUnverified, MoveConfirmed,
           MovePersistenceFails
<1>12. CASE SettleSuccessor(r)
  <2>1. \E outcome \in Told : Answer(r, outcome)
    <3>1. req[r].verdict \in Verdict
      BY <1>12 DEF SettleSuccessor, LifecycleInv, PcMatches
    <3> QED
      BY <1>1, <1>12, <3>1 DEF SettleSuccessor, Verdict
  <2> QED
    BY <1>4, <1>12, <2>1 DEF SettleSuccessor, Live
<1>13. CASE Crash(r)
  <2>1. /\ write' \in [Request -> Reply]
        /\ \A q \in Request \ {r} : write'[q] = write[q]
    BY <1>13, WriteShape DEF Crash, Reply
  <2>2. req' = [req EXCEPT ![r] = Over(r)] /\ Live(r) /\ told' \in [Context -> Told]
    BY <1>13 DEF Crash, LifecycleInv, LifecycleTypeOK
  <2> QED
    BY <2>1, <2>2, OverMovesOn
<1> QED
  BY <1>2, <1>3, <1>5, <1>6, <1>8, <1>9, <1>10, <1>11, <1>12, <1>13 DEF RequestNext

-----------------------------------------------------------------------------
(* The invariant *)

(* A request that keeps its row and its operation keeps what it holds, and *)
(* a pass what it knows: rows stay.                                        *)
LEMMA WorkStays ==
  ASSUME LifecycleInv, TypeOK', BindingKept, RowsStay, NEW r \in Request,
         Engaged(r), req'[r].ctx = req[r].ctx, req'[r].op = req[r].op
  PROVE  WorkExists(r)'
<1>1. WorkExists(r)
  BY DEF LifecycleInv, RequestsHold
<1>2. ~Is(Ctx(r), "absent") =>
        ~Is(Ctx(r), "absent")' /\ rows'[Ctx(r)].rescheduleOf = rows[Ctx(r)].rescheduleOf
  BY <1>1 DEF WorkExists, RowsStay, Is, Ctx
<1>3. ~Is(Ctx(r), "absent") /\ ~Is(Ctx(r), "offered") => ~Is(Ctx(r), "offered")'
  BY <1>1 DEF WorkExists, RowsStay, Is, Ctx
<1>4. rows[Ctx(r)].start \in Start => rows'[Ctx(r)].start = rows[Ctx(r)].start
  BY <1>1, NoneAssumption DEF WorkExists, BindingKept
<1> QED
  BY <1>1, <1>2, <1>3, <1>4 DEF WorkExists, Is, Ctx, Original

LEMMA PassStays ==
  ASSUME LifecycleInv, RowsStay, NEW k \in Reconciler, rec'[k] = rec[k]
  PROVE  /\ rec'[k].pc \in {"resolve", "also"} => rec'[k].ctx \in Context
         /\ rec'[k].pc = "also" => /\ rows'[rec'[k].ctx].status # "absent"
                                   /\ rows'[rec'[k].ctx].rescheduleOf \in Context
BY DEF LifecycleInv, PassesHold, RowsStay, Is

(* What the pieces of the type invariant say, as separate facts. *)
LEMMA TypeParts ==
  ASSUME LifecycleInv
  PROVE  /\ TypeOK
         /\ event \in [Context -> Event \cup {None}]
         /\ filled \subseteq Calendar \X Start
         /\ creates \in [Context -> Nat]
         /\ req \in [Request -> Req]
         /\ write \in [Request -> Reply]
         /\ offering \subseteq Context
         /\ rec \in [Reconciler -> Pass]
         /\ told \in [Context -> Told]
BY DEF LifecycleInv, LifecycleTypeOK, Req

LEMMA RequestInv ==
  ASSUME LifecycleInv, TypeOK', Unchosen', BindingKept, RowsStay,
         NEW r \in Request, RequestNext(r)
  PROVE  LifecycleInv'
<1>1. UNCHANGED <<event, filled, offering, rec>>
  BY DEF RequestNext, BookClaim, MoveClaim, CancelBegin, BookRecheckFails,
         BookCreate, BookRefused, BookUnverified, BookConfirmed,
         BookPersistenceFails, CancelConfirmed, CancelMismatch, CancelRefused,
         CancelUnverified, MoveBegin, MoveCheckFails, MoveUpdate, MoveRefused,
         MoveUnverified, MoveConfirmed, MovePersistenceFails, SettleSuccessor,
         Crash, provider
<1>2. creates' \in [Context -> Nat]
  <2>1. CASE BookCreate(r)
    <3>1. Ctx(r) \in Context /\ creates[Ctx(r)] + 1 \in Nat
      BY <2>1, LiveHolds, TypeParts DEF BookCreate, At
    <3> QED
      BY <2>1, <3>1, TypeParts DEF BookCreate
  <2>2. CASE ~BookCreate(r)
    <3>1. UNCHANGED creates
      BY <2>2 DEF RequestNext, BookClaim, MoveClaim, CancelBegin, BookRecheckFails,
           BookRefused, BookUnverified, BookConfirmed,
           BookPersistenceFails, CancelConfirmed, CancelMismatch, CancelRefused,
           CancelUnverified, MoveBegin, MoveCheckFails, MoveUpdate, MoveRefused,
           MoveUnverified, MoveConfirmed, MovePersistenceFails, SettleSuccessor,
           Crash
    <3> QED
      BY <3>1, TypeParts
  <2> QED
    BY <2>1, <2>2
<1>3. MovesOn(r) \/ Starts(r)
  BY RequestShape
<1>4. /\ req' \in [Request -> Req] /\ write' \in [Request -> Reply]
      /\ told' \in [Context -> Told]
      /\ \A q \in Request \ {r} : req'[q] = req[q] /\ write'[q] = write[q]
  BY <1>3 DEF MovesOn, Starts
<1>5. LifecycleTypeOK'
  BY <1>1, <1>2, <1>4, TypeParts DEF LifecycleTypeOK, Req
<1>6. RequestsHold'
  <2>1. SUFFICES ASSUME NEW q \in Request, Engaged(q)'
                 PROVE  WorkExists(q)'
    BY DEF RequestsHold
  <2>2. CASE q # r
    <3>1. req'[q] = req[q] /\ write'[q] = write[q]
      BY <1>4, <2>2
    <3>2. Engaged(q)
      BY <2>1, <3>1 DEF Engaged, Live
    <3> QED
      BY <3>1, <3>2, WorkStays
  <2>3. CASE q = r /\ MovesOn(r)
    <3>1. req'[r].ctx = req[r].ctx /\ req'[r].op = req[r].op
      BY <2>1, <2>3 DEF MovesOn, Engaged, Live
    <3> QED
      BY <2>3, <3>1, WorkStays DEF MovesOn, Engaged
  <2>4. CASE q = r /\ Starts(r)
    BY <2>4 DEF Starts
  <2> QED
    BY <1>3, <2>2, <2>3, <2>4
<1>7. PcMatches'
  <2>1. SUFFICES ASSUME NEW q \in Request
                 PROVE  /\ Live(q)' => req'[q].op = OperationOf(req'[q].pc)
                        /\ req'[q].pc = "settleSuccessor" =>
                             req'[q].verdict \in Verdict
    BY DEF PcMatches, OperationOf
  <2>2. CASE q # r
    BY <1>4, <2>2 DEF LifecycleInv, PcMatches, Live
  <2>3. CASE q = r /\ MovesOn(r)
    BY <2>3 DEF MovesOn, LifecycleInv, PcMatches, Live
  <2>4. CASE q = r /\ Starts(r)
    BY <2>4 DEF Starts
  <2> QED
    BY <1>3, <2>2, <2>3, <2>4
<1>8. PassesHold'
  BY <1>1, PassStays DEF PassesHold, Is
<1> QED
  BY <1>5, <1>6, <1>7, <1>8 DEF LifecycleInv

(* What a step that leaves the requests alone keeps. *)
LEMMA QuietRequests ==
  ASSUME LifecycleInv, TypeOK', BindingKept, RowsStay, UNCHANGED req,
         \A r \in Request : write'[r] = "sent" => write[r] = "sent"
  PROVE  RequestsHold' /\ PcMatches'
<1>1. RequestsHold'
  <2>1. SUFFICES ASSUME NEW r \in Request, Engaged(r)'
                 PROVE  WorkExists(r)'
    BY DEF RequestsHold
  <2>2. Engaged(r)
    BY <2>1 DEF Engaged, Live
  <2> QED
    BY <2>2, WorkStays
<1>2. PcMatches'
  BY DEF LifecycleInv, PcMatches, Live
<1> QED
  BY <1>1, <1>2

(* A pass that is replaced by a well-typed one, the others left alone. *)
LEMMA PassShape ==
  ASSUME LifecycleInv, RowsStay, NEW k \in Reconciler, NEW pass \in Pass,
         rec' = [rec EXCEPT ![k] = pass],
         pass.pc \in {"resolve", "also"} => pass.ctx \in Context,
         pass.pc = "also" => /\ rows'[pass.ctx].status # "absent"
                             /\ rows'[pass.ctx].rescheduleOf \in Context
  PROVE  rec' \in [Reconciler -> Pass] /\ PassesHold'
<1>1. /\ rec' \in [Reconciler -> Pass]
      /\ rec'[k] = pass
      /\ \A j \in Reconciler \ {k} : rec'[j] = rec[j]
  BY TypeParts
<1> QED
  BY <1>1, PassStays DEF PassesHold, Is

(* The queue a pass lists is one of parked rows and their reasons. *)
LEMMA ListedType ==
  ASSUME NEW queue \in Seq(Context), NEW table \in [Context -> Row]
  PROVE  [i \in 1 .. (IF Len(queue) < Limit THEN Len(queue) ELSE Limit) |->
            <<queue[i], table[queue[i]].reason>>] \in Seq(Context \X Reason)
<1> DEFINE n == IF Len(queue) < Limit THEN Len(queue) ELSE Limit
<1>1. n \in Nat /\ n <= Len(queue)
  BY LenProperties, LifecycleAssumption
<1>2. \A i \in 1 .. n : queue[i] \in Context
  BY <1>1, ElementOfSeq
<1>3. \A i \in 1 .. n : <<queue[i], table[queue[i]].reason>> \in Context \X Reason
  BY <1>2 DEF Row
<1> HIDE DEF n
<1> QED
  BY <1>1, <1>3, IsASeq DEF n

LEMMA EvidenceType ==
  ASSUME LifecycleInv, NEW c \in Context
  PROVE  Evidence(c) \in Start \cup {None}
<1>1. rows[c].rescheduleOf \in Context \cup {None}
  BY DEF LifecycleInv, LifecycleTypeOK, TypeOK, Row
<1>2. Correlation(c) \in Context
  BY <1>1 DEF Correlation
<1>3. event[Correlation(c)] # None => event[Correlation(c)].start \in Start
  BY <1>2, TypeParts DEF Event
<1> QED
  BY <1>3 DEF Evidence

LEMMA PassInv ==
  ASSUME LifecycleInv, TypeOK', Unchosen', BindingKept, RowsStay,
         NEW k \in Reconciler, ReconcilerNext(k)
  PROVE  LifecycleInv'
<1> DEFINE pass == rec[k]
           Goal == rec' \in [Reconciler -> Pass] /\ PassesHold'
<1>1. UNCHANGED <<event, filled, creates, req, write, offering, told>>
  BY DEF ReconcilerNext, Tick, PassEnds, Leave, PassDies, Examine, Resolve,
         ResolveOriginal, PassRaises, provider
<1>2. /\ pass \in Pass /\ rec \in [Reconciler -> Pass]
      /\ pass.queue \in Seq(Context \X Reason)
  BY TypeParts DEF Pass
<1>3. ASSUME PassEnds(k) \/ PassDies(k) \/ PassRaises(k)
      PROVE  Goal
  <2>1. IdlePass \in Pass /\ IdlePass.pc = "idle"
    BY EmptySeq DEF IdlePass, Pass, Reason
  <2>2. rec' = [rec EXCEPT ![k] = IdlePass]
    BY <1>3 DEF PassEnds, PassDies, PassRaises
  <2> QED
    BY <2>1, <2>2, PassShape
<1>4. ASSUME Tick(k)
      PROVE  Goal
  <2> DEFINE queue == [i \in 1 .. (IF Len(parked') < Limit THEN Len(parked') ELSE Limit) |->
                         <<parked'[i], rows'[parked'[i]].reason>>]
             new == [[pass EXCEPT !.pc = "next"] EXCEPT !.queue = queue]
  <2>1. queue \in Seq(Context \X Reason)
    BY ListedType DEF TypeOK
  <2>2. rec' = [rec EXCEPT ![k] = new]
    BY <1>2, <1>4 DEF Tick
  <2> HIDE DEF queue
  <2>3. new \in Pass /\ new.pc = "next"
    BY <1>2, <2>1 DEF Pass
  <2> HIDE DEF new
  <2> QED
    BY <2>2, <2>3, PassShape
<1>5. ASSUME Leave(k)
      PROVE  Goal
  <2> DEFINE new == [pass EXCEPT !.queue = Tail(pass.queue)]
  <2>1. Tail(pass.queue) \in Seq(Context \X Reason)
    BY <1>2, <1>5, HeadTailProperties DEF Leave
  <2>2. rec' = [rec EXCEPT ![k] = new]
    BY <1>2, <1>5 DEF Leave
  <2>3. new \in Pass /\ new.pc = "next"
    BY <1>2, <1>5, <2>1 DEF Leave, Pass
  <2> HIDE DEF new
  <2> QED
    BY <2>2, <2>3, PassShape
<1>6. ASSUME NEW c \in Context, NEW why \in Reason, Examine(k, c, why)
      PROVE  Goal
  <2> DEFINE new == [pc |-> "resolve", queue |-> Tail(pass.queue), ctx |-> c,
                     why |-> why, seen |-> Evidence(c)]
  <2>1. Tail(pass.queue) \in Seq(Context \X Reason)
    BY <1>2, <1>6, HeadTailProperties DEF Examine
  <2>2. rec' = [rec EXCEPT ![k] = new]
    BY <1>2, <1>6 DEF Examine
  <2>3. new \in Pass /\ new.pc = "resolve" /\ new.ctx = c
    BY <2>1, EvidenceType DEF Pass
  <2> HIDE DEF new
  <2> QED
    BY <2>2, <2>3, PassShape
<1>7. ASSUME Resolve(k)
      PROVE  Goal
  <2> DEFINE c   == pass.ctx
             new == [pass EXCEPT !.pc = "also"]
             old == [pass EXCEPT !.pc = "next"]
  <2>1. c \in Context
    BY <1>7 DEF Resolve, LifecycleInv, PassesHold
  <2>2. /\ new \in Pass /\ new.pc = "also" /\ new.ctx = c
        /\ old \in Pass /\ old.pc = "next"
    BY <1>2 DEF Pass
  <2>3. \/ rec' = [rec EXCEPT ![k] = old]
        \/ /\ rec' = [rec EXCEPT ![k] = new]
           /\ Is(c, "verification_required")
           /\ rows[c].rescheduleOf # None
    BY <1>7 DEF Resolve, HasOriginal, ResolveVerification
  <2> HIDE DEF new, old
  <2>4. CASE rec' = [rec EXCEPT ![k] = old]
    BY <2>2, <2>4, PassShape
  <2>5. CASE /\ rec' = [rec EXCEPT ![k] = new]
             /\ Is(c, "verification_required")
             /\ rows[c].rescheduleOf # None
    <3>1. rows[c].rescheduleOf \in Context
      BY <2>1, <2>5, TypeParts DEF TypeOK, Row
    <3>2. /\ rows'[c].status # "absent"
          /\ rows'[c].rescheduleOf = rows[c].rescheduleOf
      BY <2>1, <2>5 DEF RowsStay, Is
    <3> QED
      BY <2>1, <2>2, <2>5, <3>1, <3>2, PassShape
  <2> QED
    BY <2>3, <2>4, <2>5
<1>8. ASSUME ResolveOriginal(k)
      PROVE  Goal
  <2> DEFINE new == [pass EXCEPT !.pc = "next"]
  <2>1. new \in Pass /\ new.pc = "next"
    BY <1>2 DEF Pass
  <2>2. rec' = [rec EXCEPT ![k] = new]
    BY <1>8 DEF ResolveOriginal
  <2> HIDE DEF new
  <2> QED
    BY <2>1, <2>2, PassShape
<1>9. Goal
  BY <1>3, <1>4, <1>5, <1>6, <1>7, <1>8 DEF ReconcilerNext
<1>10. LifecycleTypeOK'
  BY <1>1, <1>9, TypeParts DEF LifecycleTypeOK, Req
<1> QED
  BY <1>1, <1>9, <1>10, QuietRequests DEF LifecycleInv

-----------------------------------------------------------------------------
(* The calendar, and the rest *)

LEMMA ArriveType ==
  ASSUME LifecycleInv, NEW r \in Request, write[r] = "sent", Arrive(r)
  PROVE  event' \in [Context -> Event \cup {None}]
<1>1. WorkExists(r)
  BY DEF LifecycleInv, RequestsHold, Engaged
<1>2. rows[Ctx(r)] \in Row /\ Ctx(r) \in Context
  BY <1>1, TypeParts DEF WorkExists, TypeOK
<1>3. CASE req[r].op = "book"
  <2> DEFINE new == [calendar |-> rows[Ctx(r)].calendar,
                     start |-> rows[Ctx(r)].start]
  <2>1. new \in Event
    BY <1>1, <1>2, <1>3 DEF WorkExists, Event, Row
  <2>2. event' = [event EXCEPT ![Ctx(r)] = new]
    BY <1>3 DEF Arrive
  <2> HIDE DEF new
  <2> QED
    BY <2>1, <2>2, TypeParts
<1>4. CASE req[r].op # "book"
  <2> DEFINE target == IF req[r].op = "cancel" THEN rows[Ctx(r)].event
                                               ELSE rows[Original(r)].event
             new == IF req[r].op = "cancel" THEN None
                    ELSE [event[target] EXCEPT !.start = rows[Ctx(r)].start]
  <2>1. \/ UNCHANGED event
        \/ event[target] # None /\ event' = [event EXCEPT ![target] = new]
    BY <1>4 DEF Arrive
  <2>2. target \in Context /\ event[target] # None => new \in Event \cup {None}
    BY <1>1, <1>2, <1>4, TypeParts DEF WorkExists, Event
  <2> HIDE DEF target, new
  <2> QED
    BY <2>1, <2>2, TypeParts
<1> QED
  BY <1>3, <1>4

ProviderTypes == /\ event' \in [Context -> Event \cup {None}]
                 /\ filled' \subseteq Calendar \X Start
                 /\ write' \in [Request -> Reply]
                 /\ \A r \in Request : write'[r] = "sent" => write[r] = "sent"

LEMMA ProviderInv ==
  ASSUME LifecycleInv, TypeOK', Unchosen', BindingKept, RowsStay, ProviderNext
  PROVE  LifecycleInv'
<1>1. UNCHANGED <<creates, req, offering, rec, told>>
  BY DEF ProviderNext, ProviderApplies, ProviderRefuses, AttorneyFills,
         AttorneyDeletes, AttorneyMoves, provider
<1>2. ProviderTypes
  <2>1. ASSUME NEW r \in Request, ProviderApplies(r)
        PROVE  ProviderTypes
    <3>1. \E reply \in Reply : write' = [write EXCEPT ![r] = reply] /\ reply # "sent"
      BY <2>1 DEF ProviderApplies, Arrive, Reply
    <3> QED
      BY <2>1, <3>1, ArriveType, TypeParts DEF ProviderApplies, ProviderTypes
  <2>2. ASSUME NEW r \in Request, ProviderRefuses(r)
        PROVE  ProviderTypes
    BY <2>2, TypeParts DEF ProviderRefuses, provider, Reply, ProviderTypes
  <2>3. ASSUME NEW cal \in Calendar, NEW s \in Start, AttorneyFills(cal, s)
        PROVE  ProviderTypes
    BY <2>3, TypeParts DEF AttorneyFills, ProviderTypes
  <2>4. ASSUME NEW c \in Context, AttorneyDeletes(c)
        PROVE  ProviderTypes
    BY <2>4, TypeParts DEF AttorneyDeletes, ProviderTypes
  <2>5. ASSUME NEW c \in Context, NEW s \in Start, AttorneyMoves(c, s)
        PROVE  ProviderTypes
    <3>1. [event[c] EXCEPT !.start = s] \in Event
      BY <2>5, TypeParts DEF AttorneyMoves, Event
    <3>2. event' = [event EXCEPT ![c] = [event[c] EXCEPT !.start = s]]
      BY <2>5, TypeParts DEF AttorneyMoves
    <3> QED
      BY <2>5, <3>1, <3>2, TypeParts DEF AttorneyMoves, ProviderTypes
  <2> QED
    BY <2>1, <2>2, <2>3, <2>4, <2>5 DEF ProviderNext
<1>3. LifecycleTypeOK'
  BY <1>1, <1>2, TypeParts DEF LifecycleTypeOK, Req, ProviderTypes
<1>4. PassesHold'
  BY <1>1, PassStays DEF PassesHold, Is
<1> QED
  BY <1>1, <1>2, <1>3, <1>4, QuietRequests DEF LifecycleInv, ProviderTypes

LEMMA InitInv == Init => LifecycleInv
<1> SUFFICES ASSUME Init
             PROVE  LifecycleInv
  OBVIOUS
<1>1. TypeOK /\ Unchosen
  BY InitTypeOK DEF Init, StoreInit, Unchosen, Is, NoRow
<1>2. \A r \in Request : req[r] = Idle /\ write[r] = "none"
  BY DEF Init
<1>3. Idle \in Req /\ Idle.pc = "idle"
  BY DEF Idle, Req, Pc, Status
<1>4. IdlePass \in Pass /\ IdlePass.pc = "idle"
  BY EmptySeq DEF IdlePass, Pass, Reason
<1>5. /\ req \in [Request -> Req] /\ rec \in [Reconciler -> Pass]
      /\ write \in [Request -> Reply] /\ told \in [Context -> Told]
  BY <1>3, <1>4 DEF Init, Reply, Told
<1>6. LifecycleTypeOK
  BY <1>1, <1>5 DEF Init, LifecycleTypeOK, Req
<1>7. RequestsHold /\ PcMatches
  BY <1>2, <1>3 DEF RequestsHold, PcMatches, Engaged, Live
<1>8. PassesHold
  BY <1>4 DEF Init, PassesHold
<1> QED
  BY <1>1, <1>6, <1>7, <1>8 DEF LifecycleInv

LEMMA NextInv == LifecycleInv /\ [Next]_vars => LifecycleInv'
<1> SUFFICES ASSUME LifecycleInv, [Next]_vars
             PROVE  LifecycleInv'
  OBVIOUS
<1>1. TypeOK' /\ Unchosen' /\ BindingKept /\ RowsStay
  BY LifecycleStoreStep, NextTypeOK, NextBinding, TypeParts DEF LifecycleInv
<1>2. ASSUME NEW r \in Request, RequestNext(r)
      PROVE  LifecycleInv'
  BY <1>1, <1>2, RequestInv
<1>3. ASSUME NEW k \in Reconciler, ReconcilerNext(k)
      PROVE  LifecycleInv'
  BY <1>1, <1>3, PassInv
<1>4. CASE ProviderNext
  BY <1>1, <1>4, ProviderInv
<1>5. ASSUME \/ \E c \in Context :
                  \/ Offer(c) \/ Lapse(c) \/ BeginOfferReschedule(c) \/ Elapse(c)
                  \/ \E o \in Context : OfferReschedule(c, o)
             \/ UNCHANGED vars
      PROVE  LifecycleInv'
  <2>1. UNCHANGED <<event, filled, creates, req, write, rec, told>>
    BY <1>5 DEF Offer, Lapse, BeginOfferReschedule, Elapse, OfferReschedule,
                provider, vars
  <2>2. offering' \subseteq Context
    BY <1>5, TypeParts
       DEF Offer, Lapse, BeginOfferReschedule, Elapse, OfferReschedule, vars
  <2>3. LifecycleTypeOK'
    BY <1>1, <2>1, <2>2, TypeParts DEF LifecycleTypeOK, Req
  <2>4. PassesHold'
    BY <1>1, <2>1, PassStays DEF PassesHold, Is
  <2> QED
    BY <1>1, <2>1, <2>3, <2>4, QuietRequests DEF LifecycleInv
<1> QED
  BY <1>2, <1>3, <1>4, <1>5 DEF Next

-----------------------------------------------------------------------------
(* Theorems *)

(* Every reachable state of the lifecycle is well-typed. *)
THEOREM LifecycleTypeCorrect == Spec => []LifecycleTypeOK
<1>1. LifecycleInv => LifecycleTypeOK
  BY DEF LifecycleInv
<1> QED
  BY <1>1, InitInv, NextInv, PTL DEF Spec

(* Requests, crashes, the reconciler and time use the store only through   *)
(* its operations, one row or one sweep a step: the lifecycle implements   *)
(* the store under arbitrary calls.                                        *)
THEOREM ImplementsStore == Spec => StoreSpec
<1>1. Init => StoreInit
  BY DEF Init
<1> QED
  BY <1>1, InitInv, NextInv, LifecycleStoreStep, PTL DEF Spec, StoreSpec

(* So the lifecycle has what the store promises: no slot is held twice,    *)
(* and neither a binding nor a settled row is ever rewritten.              *)
THEOREM LifecycleKeepsStore == Spec => []SlotGuard /\ BindingIsFinal /\ SettledIsFinal
BY ImplementsStore, SlotGuardHolds, BindingNeverChanges, SettledNeverChanges

(* A context that is not claimed has sent nothing; one about to be booked  *)
(* has sent nothing yet, and has one request about to book it.             *)
Attempts ==
  /\ \A c \in Context : Is(c, "absent") \/ Is(c, "offered") => creates[c] = 0
  /\ \A r \in Request :
       At(r, "recheck") =>
         /\ creates[Ctx(r)] = 0
         /\ \A q \in Request \ {r} : At(q, "recheck") => Ctx(q) # Ctx(r)

AttemptInv == LifecycleInv /\ Attempts /\ SingleAttempt

LEMMA AttemptStep == AttemptInv /\ [Next]_vars => AttemptInv'
<1> SUFFICES ASSUME AttemptInv, [Next]_vars
             PROVE  Attempts' /\ SingleAttempt'
  BY NextInv DEF AttemptInv
<1>1. LifecycleInv /\ Attempts /\ SingleAttempt
  BY DEF AttemptInv
<1>2. \A c \in Context : Is(c, "absent")' \/ Is(c, "offered")' =>
                         Is(c, "absent") \/ Is(c, "offered")
  BY <1>1, LifecycleStoreStep, NextTypeOK, NextBinding, TypeParts
     DEF LifecycleInv, RowsStay, Is
<1>3. CASE UNCHANGED <<req, creates>>
  BY <1>1, <1>2, <1>3 DEF Attempts, SingleAttempt, At, Ctx
<1>4. ASSUME NEW r \in Request, BookCreate(r)
      PROVE  Attempts' /\ SingleAttempt'
  <2> DEFINE c == Ctx(r)
  <2>1. c \in Context /\ creates[c] = 0 /\ ~Is(c, "absent") /\ ~Is(c, "offered")
    <3>1. Live(r) /\ req[r].op = "book"
      BY <1>1, <1>4 DEF BookCreate, At, Live, LifecycleInv, PcMatches, OperationOf
    <3>2. WorkExists(r)
      BY <1>1, <3>1 DEF LifecycleInv, RequestsHold, Engaged
    <3> QED
      BY <1>1, <1>4, <3>1, <3>2 DEF WorkExists, Attempts, BookCreate
  <2>2. creates' = [creates EXCEPT ![c] = 1]
    BY <1>1, <1>4, <2>1, TypeParts DEF BookCreate
  <2>3. /\ req'[r].pc # "recheck"
        /\ \A q \in Request \ {r} : req'[q] = req[q]
    BY <1>1, <1>4, TypeParts DEF BookCreate, Send, Goto, Req
  <2>4. SingleAttempt'
    BY <1>1, <2>1, <2>2, TypeParts DEF SingleAttempt
  <2>5. ASSUME NEW d \in Context, Is(d, "absent")' \/ Is(d, "offered")'
        PROVE  creates'[d] = 0
    BY <1>1, <1>2, <2>1, <2>2, <2>5, TypeParts DEF Attempts
  <2>6. ASSUME NEW q \in Request, At(q, "recheck")'
        PROVE  /\ creates'[Ctx(q)'] = 0
               /\ \A p \in Request \ {q} : At(p, "recheck")' => Ctx(p)' # Ctx(q)'
    <3>1. q # r /\ At(q, "recheck") /\ req'[q] = req[q]
      BY <2>3, <2>6 DEF At
    <3>2. creates[Ctx(q)] = 0 /\ Ctx(q) # c
      BY <1>1, <1>4, <3>1 DEF Attempts, BookCreate
    <3>3. creates'[Ctx(q)'] = 0
      BY <2>2, <3>1, <3>2, TypeParts, <1>1 DEF Ctx
    <3>4. ASSUME NEW p \in Request \ {q}, At(p, "recheck")'
          PROVE  Ctx(p)' # Ctx(q)'
      BY <1>1, <2>3, <3>1, <3>4 DEF Attempts, At, Ctx
    <3> QED
      BY <3>3, <3>4
  <2> QED
    BY <2>4, <2>5, <2>6 DEF Attempts
<1>5. ASSUME NEW r \in Request, RequestNext(r), ~BookCreate(r)
      PROVE  Attempts' /\ SingleAttempt'
  <2>1. UNCHANGED creates
    BY <1>5
       DEF RequestNext, BookClaim, MoveClaim, CancelBegin, BookRecheckFails,
           BookRefused, BookUnverified, BookConfirmed, BookPersistenceFails,
           CancelConfirmed, CancelMismatch, CancelRefused, CancelUnverified,
           MoveBegin, MoveCheckFails, MoveUpdate, MoveRefused, MoveUnverified,
           MoveConfirmed, MovePersistenceFails, SettleSuccessor, Crash
  <2>2. BookCreate(r) \/ MovesOn(r) \/ Starts(r)
    BY <1>1, <1>5, RequestShape
  <2>3. \A q \in Request \ {r} : req'[q] = req[q]
    BY <1>5, <2>2 DEF MovesOn, Starts
  <2>4. CASE req'[r].pc # "recheck"
    BY <1>1, <1>2, <2>1, <2>3, <2>4 DEF Attempts, SingleAttempt, At, Ctx
  <2>5. CASE req'[r].pc = "recheck"
    <3> DEFINE c == req'[r].ctx
    <3>1. c \in Context /\ Is(c, "offered")
      BY <1>5, <2>2, <2>5 DEF MovesOn, Starts, WorkExists, Ctx
    <3>2. creates[c] = 0
      BY <1>1, <3>1 DEF Attempts
    <3>3. \A q \in Request : At(q, "recheck") => Ctx(q) # c
      <4>1. ASSUME NEW q \in Request, At(q, "recheck")
            PROVE  ~Is(Ctx(q), "offered")
        BY <1>1, <4>1
           DEF At, LifecycleInv, RequestsHold, PcMatches, WorkExists, Engaged,
               Live, OperationOf
      <4> QED
        BY <3>1, <4>1
    <3> QED
      BY <1>1, <1>2, <2>1, <2>3, <2>5, <3>2, <3>3
         DEF Attempts, SingleAttempt, At, Ctx
  <2> QED
    BY <2>4, <2>5
<1>6. CASE ~\E r \in Request : RequestNext(r)
  <2>1. UNCHANGED <<req, creates>>
    BY <1>6
       DEF Next, vars, Offer, Lapse, BeginOfferReschedule, Elapse,
           OfferReschedule, ProviderNext, ProviderApplies, ProviderRefuses,
           AttorneyFills, AttorneyDeletes, AttorneyMoves, ReconcilerNext, Tick,
           PassEnds, Leave, PassDies, Examine, Resolve, ResolveOriginal,
           PassRaises
  <2> QED
    BY <1>3, <2>1
<1> QED
  BY <1>4, <1>5, <1>6

(* However requests, crashes and reconciliation interleave, and however    *)
(* late a write lands, a context sends its provider at most one create.    *)
THEOREM OneAttempt == Spec => []SingleAttempt
<1>1. Init => AttemptInv
  <2>1. Init => Attempts /\ SingleAttempt
    BY DEF Init, Attempts, SingleAttempt, At, Idle
  <2> QED
    BY <2>1, InitInv DEF AttemptInv
<1>2. AttemptInv => SingleAttempt
  BY DEF AttemptInv
<1> QED
  BY <1>1, <1>2, AttemptStep, PTL DEF Spec

-----------------------------------------------------------------------------
(* What the store's operations do to one row *)

(* What the offer and the claim decide of a row stays as it is. *)
Bound(c) == /\ rows'[c].native = rows[c].native
            /\ rows'[c].offered = rows[c].offered
            /\ rows'[c].targets = rows[c].targets
            /\ rows'[c].calendar = rows[c].calendar
            /\ rows'[c].start = rows[c].start
            /\ rows'[c].rescheduleOf = rows[c].rescheduleOf

(* One row is moved to a status, with its event and its reason. *)
Updates(c, st, ev, why) ==
  /\ \A d \in Context \ {c} : rows'[d] = rows[d]
  /\ rows'[c].status = st
  /\ rows'[c].event = ev
  /\ rows'[c].reason = why
  /\ Bound(c)

LEMMA PutUpdates ==
  ASSUME TypeOK, NEW c \in Context, NEW st \in Status,
         NEW ev \in Context \cup {None}, NEW why \in Reason,
         \/ Put(c, [rows[c] EXCEPT !.status = st, !.event = ev, !.reason = why])
         \/ /\ Put(c, [rows[c] EXCEPT !.status = st, !.reason = why])
            /\ ev = rows[c].event
  PROVE  Updates(c, st, ev, why)
<1>1. rows[c] \in Row /\ rows \in [Context -> Row]
  BY DEF TypeOK
<1>2. ASSUME NEW row \in Row, Put(c, row), row.status = st, row.event = ev,
             row.reason = why, row.native = rows[c].native,
             row.offered = rows[c].offered, row.targets = rows[c].targets,
             row.calendar = rows[c].calendar, row.start = rows[c].start,
             row.rescheduleOf = rows[c].rescheduleOf
      PROVE  Updates(c, st, ev, why)
  <2>1. /\ rows'[c] = [row EXCEPT !.aged = FALSE]
        /\ \A d \in Context \ {c} : rows'[d] = rows[d]
    BY <1>1, <1>2 DEF Put
  <2> QED
    BY <1>2, <2>1 DEF Updates, Bound, Row
<1> DEFINE full == [rows[c] EXCEPT !.status = st, !.event = ev, !.reason = why]
           part == [rows[c] EXCEPT !.status = st, !.reason = why]
<1>3. /\ full \in Row /\ full.status = st /\ full.event = ev /\ full.reason = why
      /\ full.native = rows[c].native /\ full.offered = rows[c].offered
      /\ full.targets = rows[c].targets
      /\ full.calendar = rows[c].calendar /\ full.start = rows[c].start
      /\ full.rescheduleOf = rows[c].rescheduleOf
  BY <1>1 DEF Row
<1>4. /\ part \in Row /\ part.status = st /\ part.event = rows[c].event
      /\ part.reason = why
      /\ part.native = rows[c].native /\ part.offered = rows[c].offered
      /\ part.targets = rows[c].targets
      /\ part.calendar = rows[c].calendar /\ part.start = rows[c].start
      /\ part.rescheduleOf = rows[c].rescheduleOf
  BY <1>1 DEF Row
<1>5. \/ Put(c, full)
      \/ Put(c, part) /\ ev = rows[c].event
  OBVIOUS
<1> HIDE DEF full, part
<1> QED
  BY <1>2, <1>3, <1>4, <1>5

(* Completions, beginnings, expiry and resolutions are such updates. *)
LEMMA CompletionUpdates ==
  ASSUME TypeOK, NEW c \in Context, NEW st \in Status,
         NEW ev \in Context \cup {None}, NEW why \in Reason
  PROVE  /\ Complete(c, st, ev, why) =>
              /\ Is(c, "booking_in_progress")
              /\ st \in {"booked", "rejected", "verification_required"}
              /\ Updates(c, st, ev, Kept(st, why))
         /\ CompleteCancellation(c, st, why) =>
              /\ Is(c, "cancellation_pending")
              /\ st \in {"cancelled", "verification_required", "booked"}
              /\ Updates(c, st, rows[c].event, Kept(st, why))
         /\ CompleteReschedule(c, st, why) =>
              /\ Is(c, "rescheduling")
              /\ st \in {"rescheduled", "verification_required", "booked"}
              /\ Updates(c, st, rows[c].event, Kept(st, why))
<1>1. Kept(st, why) \in Reason /\ rows[c].event \in Context \cup {None}
  BY DEF Kept, Reason, TypeOK, Row
<1> QED
  BY <1>1, PutUpdates DEF Complete, CompleteCancellation, CompleteReschedule, Move

LEMMA BeginningUpdates ==
  ASSUME TypeOK, NEW c \in Context
  PROVE  /\ BeginCancellation(c) =>
              /\ Is(c, "booked")
              /\ Updates(c, "cancellation_pending", rows[c].event, "none")
         /\ BeginReschedule(c) =>
              /\ Is(c, "booked")
              /\ Updates(c, "rescheduling", rows[c].event, "none")
         /\ Expire(c) =>
              /\ Is(c, "offered")
              /\ Updates(c, "expired", rows[c].event, "none")
<1>1. /\ rows[c].event \in Context \cup {None} /\ "none" \in Reason
      /\ {"cancellation_pending", "rescheduling", "expired"} \subseteq Status
  BY DEF Reason, TypeOK, Row, Status, InFlight, Terminal
<1> QED
  BY <1>1, PutUpdates DEF BeginCancellation, BeginReschedule, Expire, Move

LEMMA ResolutionUpdates ==
  ASSUME TypeOK, NEW c \in Context, NEW st, NEW ev \in Context \cup {None},
         ResolveVerification(c, st, ev)
  PROVE  /\ Is(c, "verification_required")
         /\ st \in {"booked", "rejected", "cancelled", "rescheduled"}
         /\ Updates(c, st, IF ev = None THEN rows[c].event ELSE ev, "none")
<1> DEFINE evt == IF ev = None THEN rows[c].event ELSE ev
           row == [rows[c] EXCEPT !.status = st, !.reason = "none", !.event = evt]
<1>1. rows[c] \in Row /\ rows \in [Context -> Row]
  BY DEF TypeOK
<1>2. rows' = [rows EXCEPT ![c] = row]
  BY DEF ResolveVerification
<1>3. /\ row.status = st /\ row.reason = "none" /\ row.event = evt
      /\ row.native = rows[c].native /\ row.offered = rows[c].offered
      /\ row.targets = rows[c].targets
      /\ row.calendar = rows[c].calendar /\ row.start = rows[c].start
      /\ row.rescheduleOf = rows[c].rescheduleOf
  BY <1>1 DEF Row
<1> HIDE DEF row
<1>4. rows'[c] = row /\ \A d \in Context \ {c} : rows'[d] = rows[d]
  BY <1>1, <1>2
<1>5. /\ Is(c, "verification_required")
      /\ st \in {"booked", "rejected", "cancelled", "rescheduled"}
  BY DEF ResolveVerification
<1> HIDE DEF evt
<1>6. Updates(c, st, evt, "none")
  BY <1>3, <1>4 DEF Updates, Bound
<1> QED
  BY <1>5, <1>6 DEF evt

(* A row that is on offer for the first time, and one that is claimed. *)
Opens(c) ==
  /\ Is(c, "absent")
  /\ rows'[c].status = "offered"
  /\ rows'[c].event = None
  /\ rows'[c].start = None
  /\ rows'[c].reason = "none"

LEMMA CreateOpens ==
  ASSUME TypeOK, NEW c \in Context, NEW native \in BOOLEAN, NEW offered \in SUBSET Start,
         NEW targets \in [Start -> Calendar \cup {None}],
         NEW cal \in Calendar \cup {None}, NEW of \in Context \cup {None},
         Create(c, native, offered, targets, cal, of)
  PROVE  /\ Opens(c)
         /\ \A d \in Context \ {c} : rows'[d] = rows[d]
         /\ rows'[c].native = native
         /\ rows'[c].targets = targets
         /\ rows'[c].calendar = cal
         /\ rows'[c].rescheduleOf = of
<1> DEFINE row == [NoRow EXCEPT !.status = "offered", !.native = native,
                                !.offered = offered, !.targets = targets,
                                !.calendar = cal, !.rescheduleOf = of]
<1>1. /\ row \in Row /\ row.status = "offered" /\ row.native = native
      /\ row.targets = targets /\ row.calendar = cal /\ row.rescheduleOf = of
      /\ row.event = None /\ row.start = None /\ row.reason = "none"
  BY DEF NoRow, Row, Status, Reason
<1>2. Put(c, row) /\ Is(c, "absent")
  BY DEF Create
<1> HIDE DEF row
<1>3. /\ rows'[c] = [row EXCEPT !.aged = FALSE]
      /\ \A d \in Context \ {c} : rows'[d] = rows[d]
  BY <1>2 DEF Put, TypeOK
<1> QED
  BY <1>1, <1>2, <1>3 DEF Opens, Row

Claims(c) ==
  /\ Is(c, "offered")
  /\ rows'[c].status = "booking_in_progress"
  /\ \E s \in Start : /\ s \in rows[c].offered
                      /\ rows'[c].start = s
                      /\ rows'[c].calendar = BoundCalendar(c, s)
  /\ rows'[c].offered = rows[c].offered
  /\ rows'[c].aged = FALSE
  /\ rows'[c].native = rows[c].native
  /\ rows'[c].targets = rows[c].targets
  /\ rows'[c].rescheduleOf = rows[c].rescheduleOf
  /\ rows'[c].event = rows[c].event
  /\ rows'[c].reason = rows[c].reason

LEMMA ClaimClaims ==
  ASSUME TypeOK, NEW c \in Context, NEW s \in Start, s \in rows[c].offered,
         Claim(c, s)
  PROVE  /\ Claims(c)
         /\ \A d \in Context \ {c} : rows'[d] = rows[d]
<1> DEFINE row == [rows[c] EXCEPT !.status = "booking_in_progress", !.start = s,
                                  !.calendar = BoundCalendar(c, s)]
<1>1. rows[c] \in Row
  BY DEF TypeOK
<1>2. BoundCalendar(c, s) \in Calendar \cup {None}
  BY <1>1 DEF Row, BoundCalendar
<1>3. /\ row \in Row /\ row.status = "booking_in_progress" /\ row.start = s
      /\ row.calendar = BoundCalendar(c, s) /\ row.native = rows[c].native
      /\ row.offered = rows[c].offered
      /\ row.targets = rows[c].targets /\ row.event = rows[c].event
      /\ row.reason = rows[c].reason /\ row.rescheduleOf = rows[c].rescheduleOf
  BY <1>1, <1>2 DEF Row, Status, InFlight
<1>4. Put(c, row) /\ Is(c, "offered")
  BY DEF Claim
<1> HIDE DEF row
<1>5. /\ rows'[c] = [row EXCEPT !.aged = FALSE]
      /\ \A d \in Context \ {c} : rows'[d] = rows[d]
  BY <1>4 DEF Put, TypeOK
<1> QED
  BY <1>3, <1>4, <1>5 DEF Claims, Row

-----------------------------------------------------------------------------
(* What a request does to the rows *)

OnlyRow(c) == \A d \in Context \ {c} : rows'[d] = rows[d]

(* What a step of a request does to the rows.                              *)
ClaimsRow(r) ==
  \E c \in Context : Claims(c) /\ OnlyRow(c)

BeginsCancelling ==
  \E c \in Context : /\ Is(c, "booked") /\ rows[c].event # None
                     /\ Updates(c, "cancellation_pending", rows[c].event, "none")

EndsCancelling(r) ==
  /\ Live(r) /\ req[r].op = "cancel" /\ Is(Ctx(r), "cancellation_pending")
  /\ \E st \in {"cancelled", "verification_required", "booked"}, why \in Reason :
       /\ Updates(Ctx(r), st, rows[Ctx(r)].event, why)
       /\ st = "cancelled" => write[r] \in {"ok", "event_not_found"}
       /\ st = "booked" => write[r] = "refused"
       /\ st = "verification_required" => why # "reschedule"
  /\ req'[r].pc = "done"
  /\ write'[r] = "sent" => ~WritesLand

MovesOriginal(r) ==
  /\ Live(r) /\ req[r].op = "move"
  /\ \E st \in {"rescheduling", "rescheduled", "verification_required", "booked"} :
       \E why \in Reason \ {"cancellation"} :
         /\ Updates(Original(r), st, rows[Original(r)].event, why)
         /\ st = "rescheduled" => write[r] = "ok"
         /\ st = "booked" => At(r, "moveCheck") \/ write[r] # "ok"
         /\ st = "verification_required" => why = "reschedule"
         /\ st # "rescheduling" => /\ req[r].pc \in {"moveCheck", "moving"}
                                 /\ req'[r].pc = "settleSuccessor"
         /\ Is(Original(r), IF st = "rescheduling" THEN "booked" ELSE "rescheduling")

(* The last update of a booking, or of a move's successor. *)
Earns(r, ev) ==
  \/ ev = None
  \/ req[r].op = "book" /\ write[r] = "ok" /\ ev = Ctx(r)
  \/ /\ req[r].op = "move" /\ req[r].pc = "settleSuccessor"
     /\ req[r].verdict = "booked" /\ ev = rows[Original(r)].event

(* What a booking that is settled as booked is booked with. *)
BookedWith(r, ev) ==
  \/ At(r, "creating") /\ write[r] = "ok" /\ ev = Ctx(r)
  \/ /\ At(r, "settleSuccessor") /\ req[r].verdict = "booked"
     /\ ev = rows[Original(r)].event

(* Nothing was written for it, or nothing came of it. *)
Refused(r) ==
  \/ req[r].pc \in {"recheck", "begin"}
  \/ req[r].op = "book" /\ write[r] = "refused"
  \/ req[r].pc = "settleSuccessor" /\ req[r].verdict = "rejected"

Finishes(r) ==
  /\ Live(r) /\ req[r].op # "cancel" /\ Is(Ctx(r), "booking_in_progress")
  /\ \E st \in {"booked", "rejected", "verification_required"} :
       \E ev \in Context \cup {None}, why \in Reason \ {"cancellation"} :
         /\ Updates(Ctx(r), st, ev, why)
         /\ Earns(r, ev)
         /\ st = "rejected" => Refused(r)
         /\ st = "booked" => BookedWith(r, ev)
         /\ st = "verification_required" /\ req[r].op = "book" => why = "creation"
  /\ req'[r].pc = "done"
  /\ write'[r] = "sent" =>
       \/ ~WritesLand
       \/ req[r].pc \in {"recheck", "begin", "settleSuccessor"} /\ write[r] = "sent"

RequestRows(r) == \/ UNCHANGED rows
                  \/ ClaimsRow(r)
                  \/ BeginsCancelling
                  \/ EndsCancelling(r)
                  \/ MovesOriginal(r)
                  \/ Finishes(r)

LEMMA KeptReason ==
  ASSUME NEW st, NEW why \in Reason
  PROVE  /\ Kept(st, why) \in Reason
         /\ why # "cancellation" => Kept(st, why) # "cancellation"
BY DEF Kept, Reason

(* The row a live request finishes, by the update it tries. *)
LEMMA TryFinishes ==
  ASSUME LifecycleInv, NEW r \in Request, Live(r), req[r].op # "cancel",
         NEW st \in {"booked", "rejected", "verification_required"},
         NEW ev \in Context \cup {None}, NEW why \in Reason \ {"cancellation"},
         \/ TryComplete(Ctx(r), st, ev, why)
         \/ Complete(Ctx(r), st, ev, why),
         Earns(r, ev), st = "rejected" => Refused(r),
         st = "booked" => BookedWith(r, ev),
         st = "verification_required" /\ req[r].op = "book" => why = "creation",
         NEW outcome, Answer(r, outcome),
         \/ \E replies : GotReply(r, replies)
         \/ NoReply(r)
         \/ UNCHANGED write /\ req[r].pc \in {"recheck", "begin", "settleSuccessor"}
  PROVE  RequestRows(r)
<1>1. Ctx(r) \in Context /\ TypeOK
  BY LiveHolds, TypeParts DEF Live
<1>2. st \in Status
  BY StatusHas
<1>3. \/ UNCHANGED rows
      \/ Complete(Ctx(r), st, ev, why)
  BY DEF TryComplete, store
<1>4. CASE Complete(Ctx(r), st, ev, why)
  <2>1. /\ Is(Ctx(r), "booking_in_progress")
        /\ Updates(Ctx(r), st, ev, Kept(st, why))
    BY <1>1, <1>2, <1>4, CompletionUpdates
  <2>2. /\ Kept(st, why) \in Reason \ {"cancellation"}
        /\ st = "verification_required" => Kept(st, why) = why
    BY KeptReason DEF Kept
  <2>3. req'[r].pc = "done"
    BY TypeParts DEF Answer, Over, Req, Idle
  <2>4. write'[r] = "sent" =>
          \/ ~WritesLand
          \/ req[r].pc \in {"recheck", "begin", "settleSuccessor"} /\ write[r] = "sent"
    BY TypeParts DEF GotReply, NoReply
  <2>5. Finishes(r)
    BY <2>1, <2>2, <2>3, <2>4 DEF Finishes
  <2> QED
    BY <2>5 DEF RequestRows
<1> QED
  BY <1>3, <1>4 DEF RequestRows

LEMMA SettleMoves ==
  ASSUME LifecycleInv, NEW r \in Request,
         req[r].pc \in {"moveCheck", "moving"},
         NEW st \in {"rescheduled", "verification_required", "booked"}, NEW verdict,
         Settle(r, st, verdict), st = "rescheduled" => write[r] = "ok",
         st = "booked" => At(r, "moveCheck") \/ write[r] # "ok"
  PROVE  RequestRows(r)
<1>1. Original(r) \in Context /\ Live(r) /\ req[r].op = "move" /\ TypeOK
  BY LiveHolds, TypeParts DEF Live, LifecycleInv, PcMatches, OperationOf
<1>2. st \in Status /\ "reschedule" \in Reason \ {"cancellation"}
  BY StatusHas
<1>3. \/ UNCHANGED rows
      \/ CompleteReschedule(Original(r), st, "reschedule")
  BY DEF Settle, TryCompleteReschedule, store
<1>4. CASE CompleteReschedule(Original(r), st, "reschedule")
  <2>1. /\ Is(Original(r), "rescheduling")
        /\ Updates(Original(r), st, rows[Original(r)].event, Kept(st, "reschedule"))
    BY <1>1, <1>2, <1>4, CompletionUpdates
  <2>2. /\ Kept(st, "reschedule") \in Reason \ {"cancellation"}
        /\ st = "verification_required" => Kept(st, "reschedule") = "reschedule"
    BY <1>2, KeptReason DEF Kept
  <2>3. req'[r].pc = "settleSuccessor"
    BY TypeParts DEF Settle, Req
  <2>4. MovesOriginal(r)
    BY <1>1, <2>1, <2>2, <2>3 DEF MovesOriginal
  <2> QED
    BY <2>4 DEF RequestRows
<1> QED
  BY <1>3, <1>4 DEF RequestRows

LEMMA CancelEnds ==
  ASSUME LifecycleInv, NEW r \in Request, req[r].pc = "cancelling",
         NEW st \in {"cancelled", "verification_required", "booked"},
         NEW why \in Reason, NEW outcome, CancelSettle(r, st, why, outcome),
         st = "cancelled" => write[r] \in {"ok", "event_not_found"},
         st = "booked" => write[r] = "refused", why # "reschedule",
         (\E replies : GotReply(r, replies)) \/ NoReply(r)
  PROVE  RequestRows(r)
<1>1. Ctx(r) \in Context /\ Live(r) /\ req[r].op = "cancel" /\ TypeOK
  BY LiveHolds, TypeParts DEF Live, LifecycleInv, PcMatches, OperationOf
<1>2. st \in Status
  BY StatusHas
<1>3. CASE CompleteCancellation(Ctx(r), st, why)
  <2>1. /\ Is(Ctx(r), "cancellation_pending")
        /\ Updates(Ctx(r), st, rows[Ctx(r)].event, Kept(st, why))
    BY <1>1, <1>2, <1>3, CompletionUpdates DEF CompleteCancellation
  <2>2. /\ Kept(st, why) \in Reason
        /\ st = "verification_required" => Kept(st, why) # "reschedule"
    BY KeptReason DEF Kept
  <2>3. req'[r].pc = "done"
    BY TypeParts DEF CancelSettle, Answer, Over, Idle, Req
  <2>4. write'[r] = "sent" => ~WritesLand
    BY TypeParts DEF GotReply, NoReply
  <2> QED
    BY <1>1, <2>1, <2>2, <2>3, <2>4 DEF RequestRows, EndsCancelling
<1> QED
  BY <1>3 DEF CancelSettle, RequestRows, store

LEMMA RequestEffect ==
  ASSUME LifecycleInv, NEW r \in Request, RequestNext(r)
  PROVE  RequestRows(r)
<1> USE StatusHas
<1>1. TypeOK
  BY TypeParts
<1>2. ASSUME NEW c \in Context, NEW s \in Start,
             BookClaim(r, c, s) \/ MoveClaim(r, c, s)
      PROVE  RequestRows(r)
  <2>1. Claim(c, s) /\ s \in rows[c].offered
    BY <1>2 DEF BookClaim, MoveClaim
  <2> QED
    BY <1>1, <2>1, ClaimClaims DEF RequestRows, ClaimsRow, OnlyRow
<1>3. ASSUME NEW c \in Context, CancelBegin(r, c)
      PROVE  RequestRows(r)
  <2>1. /\ rows[c].event # None /\ Is(c, "booked")
        /\ Updates(c, "cancellation_pending", rows[c].event, "none")
    BY <1>1, <1>3, BeginningUpdates DEF CancelBegin
  <2> QED
    BY <2>1 DEF RequestRows, BeginsCancelling
<1>4. CASE BookCreate(r) \/ MoveUpdate(r) \/ Crash(r)
  BY <1>4 DEF BookCreate, MoveUpdate, Crash, RequestRows, store
<1>5. CASE \/ BookRecheckFails(r) \/ BookRefused(r) \/ BookUnverified(r)
           \/ BookConfirmed(r) \/ BookPersistenceFails(r)
  <2>1. Live(r) /\ req[r].op # "cancel" /\ Ctx(r) \in Context
    BY <1>5, LiveHolds
       DEF BookRecheckFails, BookRefused, BookUnverified, BookConfirmed,
           BookPersistenceFails, At, Live, LifecycleInv, PcMatches, OperationOf
  <2>2. /\ Earns(r, None)
        /\ write[r] = "ok" /\ At(r, "creating") =>
             Earns(r, Ctx(r)) /\ BookedWith(r, Ctx(r))
    BY DEF Earns, BookedWith, At, LifecycleInv, PcMatches, OperationOf, Live
  <2>3. CASE BookRecheckFails(r)
    BY <2>1, <2>2, <2>3, TryFinishes DEF BookRecheckFails, At, Refused
  <2>4. CASE BookRefused(r)
    <3>1. req[r].op = "book" /\ write[r] = "refused"
      BY <2>4 DEF BookRefused, GotReply, At, LifecycleInv, PcMatches, OperationOf, Live
    <3> QED
      BY <2>1, <2>2, <2>4, <3>1, TryFinishes DEF BookRefused, Refused
  <2>5. CASE BookUnverified(r)
    BY <2>1, <2>2, <2>5, TryFinishes DEF BookUnverified
  <2>6. CASE BookConfirmed(r)
    <3>1. write[r] = "ok"
      BY <2>6 DEF BookConfirmed, GotReply
    <3>2. CASE Complete(Ctx(r), "booked", Ctx(r), "none") /\ Answer(r, "booked")
      BY <2>1, <2>2, <2>6, <3>1, <3>2, TryFinishes DEF BookConfirmed
    <3> QED
      BY <2>6, <3>2 DEF BookConfirmed, RequestRows, store
  <2>7. CASE BookPersistenceFails(r)
    <3>1. write[r] = "ok"
      BY <2>7 DEF BookPersistenceFails, GotReply
    <3>2. CASE \/ Complete(Ctx(r), "booked", Ctx(r), "none")
               \/ Complete(Ctx(r), "verification_required", Ctx(r), "creation")
      BY <2>1, <2>2, <2>7, <3>1, <3>2, TryFinishes DEF BookPersistenceFails
    <3> QED
      BY <2>7, <3>2 DEF BookPersistenceFails, RequestRows, store
  <2> QED
    BY <1>5, <2>3, <2>4, <2>5, <2>6, <2>7
<1>6. CASE \/ CancelConfirmed(r) \/ CancelMismatch(r) \/ CancelRefused(r)
           \/ CancelUnverified(r)
  BY <1>6, CancelEnds
     DEF CancelConfirmed, CancelMismatch, CancelRefused, CancelUnverified, At,
         GotReply
<1>7. CASE MoveBegin(r)
  <2>1. /\ Original(r) \in Context /\ Ctx(r) \in Context /\ Live(r)
        /\ req[r].op = "move"
    BY <1>7, LiveHolds DEF MoveBegin, At, Live, LifecycleInv, PcMatches, OperationOf
  <2>2. CASE BeginReschedule(Original(r))
    <3>1. /\ Is(Original(r), "booked")
          /\ Updates(Original(r), "rescheduling", rows[Original(r)].event, "none")
      BY <1>1, <2>1, <2>2, BeginningUpdates
    <3>2. MovesOriginal(r)
      BY <2>1, <3>1 DEF MovesOriginal
    <3> QED
      BY <3>2 DEF RequestRows
  <2>3. CASE TryComplete(Ctx(r), "rejected", None, "none") /\ Answer(r, "rejected")
    BY <1>7, <2>1, <2>3, TryFinishes DEF MoveBegin, Earns, At, Refused
  <2> QED
    BY <1>7, <2>2, <2>3 DEF MoveBegin
<1>8. CASE \/ MoveCheckFails(r) \/ MoveRefused(r) \/ MoveUnverified(r)
           \/ MoveConfirmed(r) \/ MovePersistenceFails(r)
  <2>1. req[r].pc \in {"moveCheck", "moving"}
    BY <1>8 DEF MoveCheckFails, MoveRefused, MoveUnverified, MoveConfirmed,
                MovePersistenceFails, At
  <2>2. \/ UNCHANGED rows
        \/ \E st \in {"rescheduled", "verification_required", "booked"} :
             /\ st = "rescheduled" => write[r] = "ok"
             /\ st = "booked" => At(r, "moveCheck") \/ write[r] # "ok"
             /\ \E verdict \in Verdict : Settle(r, st, verdict)
    BY <1>8 DEF MoveCheckFails, MoveRefused, MoveUnverified, MoveConfirmed,
                MovePersistenceFails, GotReply, Verdict, store, At
  <2> QED
    BY <2>1, <2>2, SettleMoves DEF RequestRows
<1>9. CASE SettleSuccessor(r)
  <2> DEFINE st == req[r].verdict
             ev == IF st = "booked" THEN rows[Original(r)].event ELSE None
  <2>1. /\ Ctx(r) \in Context /\ rows[Original(r)] \in Row /\ Live(r)
        /\ req[r].op = "move" /\ req[r].pc = "settleSuccessor"
        /\ st \in Verdict
    BY <1>9, LiveHolds
       DEF SettleSuccessor, At, Live, LifecycleInv, PcMatches, OperationOf
  <2>2. /\ ev \in Context \cup {None} /\ Earns(r, ev) /\ Earns(r, None)
        /\ st = "rejected" => Refused(r)
        /\ st = "booked" => BookedWith(r, ev)
    BY <2>1 DEF Row, Earns, Refused, BookedWith, At
  <2>3. \E outcome : Answer(r, outcome)
    BY <1>9 DEF SettleSuccessor
  <2>4. \/ UNCHANGED rows
        \/ TryComplete(Ctx(r), st, ev, "reschedule")
        \/ TryComplete(Ctx(r), "verification_required", None, "reschedule")
        \/ st = "booked" /\ TryComplete(Ctx(r), "booked", ev, "none")
    BY <1>9 DEF SettleSuccessor, store
  <2>5. UNCHANGED write
    BY <1>9 DEF SettleSuccessor
  <2> HIDE DEF st, ev
  <2> QED
    BY <2>1, <2>2, <2>3, <2>4, <2>5, TryFinishes DEF RequestRows, Verdict
<1> QED
  BY <1>2, <1>3, <1>4, <1>5, <1>6, <1>7, <1>8, <1>9 DEF RequestNext

-----------------------------------------------------------------------------
(* What passes, offers, expiry and time do to the rows *)

(* What a pass of the reconciler does to the rows. *)
Sweeps ==
  \A c \in Context :
    \/ rows'[c] = rows[c]
    \/ /\ rows[c].status \in InFlight /\ rows[c].aged
       /\ rows'[c].status = "verification_required"
       /\ rows'[c].event = rows[c].event
       /\ rows'[c].reason = StaleReason(rows[c].status)
       /\ Bound(c)

Resolves(k) ==
  /\ rec[k].pc = "resolve" /\ Is(rec[k].ctx, "verification_required")
  /\ \E st \in {"booked", "rejected", "cancelled"}, ev \in Context \cup {None} :
       /\ Updates(rec[k].ctx, st, ev, "none")
       /\ \/ ev = rows[rec[k].ctx].event
          \/ /\ ev = Correlation(rec[k].ctx) /\ rec[k].seen # None
             /\ st = "booked"
       /\ st = "booked" =>
            /\ rec[k].seen # None
            /\ rec[k].why # "cancellation" => ev = Correlation(rec[k].ctx)
       /\ st = "cancelled" => rec[k].why = "cancellation" /\ rec[k].seen = None
       /\ st = Resolution(rec[k].ctx, rec[k].why, rec[k].seen)

ResolvesOriginal(k) ==
  LET o == rows[rec[k].ctx].rescheduleOf
  IN /\ rec[k].pc = "also" /\ o \in Context /\ Is(o, "verification_required")
     /\ \E st \in {"rescheduled", "booked"} :
          /\ Updates(o, st, rows[o].event, "none")
          /\ st = OriginalResolution(rec[k].ctx, rec[k].seen)

PassRows(k) == \/ UNCHANGED rows
               \/ Sweeps
               \/ Resolves(k)
               \/ ResolvesOriginal(k)

LEMMA SweepRows ==
  ASSUME TypeOK, ReconcileStale
  PROVE  Sweeps
<1> SUFFICES ASSUME NEW c \in Context, rows'[c] # rows[c]
             PROVE  /\ rows[c].status \in InFlight /\ rows[c].aged
                    /\ rows'[c].status = "verification_required"
                    /\ rows'[c].event = rows[c].event
                    /\ rows'[c].reason = StaleReason(rows[c].status)
                    /\ Bound(c)
  BY DEF Sweeps
<1> DEFINE row == [rows[c] EXCEPT !.status = "verification_required",
                                  !.reason = StaleReason(rows[c].status),
                                  !.aged   = FALSE]
<1>1. rows'[c] = IF Stale(c) THEN row ELSE rows[c]
  BY DEF ReconcileStale
<1>2. rows[c] \in Row
  BY DEF TypeOK
<1>3. /\ row.status = "verification_required" /\ row.event = rows[c].event
      /\ row.reason = StaleReason(rows[c].status)
      /\ row.native = rows[c].native /\ row.offered = rows[c].offered
      /\ row.targets = rows[c].targets
      /\ row.calendar = rows[c].calendar /\ row.start = rows[c].start
      /\ row.rescheduleOf = rows[c].rescheduleOf
  BY <1>2 DEF Row
<1> HIDE DEF row
<1> QED
  BY <1>1, <1>3 DEF Stale, Bound

LEMMA PassEffect ==
  ASSUME LifecycleInv, NEW k \in Reconciler, ReconcilerNext(k)
  PROVE  PassRows(k)
<1>1. TypeOK
  BY TypeParts
<1>2. CASE Tick(k)
  BY <1>1, <1>2, SweepRows DEF Tick, PassRows
<1>3. CASE \/ PassEnds(k) \/ Leave(k) \/ PassDies(k) \/ PassRaises(k)
           \/ \E c \in Context, why \in Reason : Examine(k, c, why)
  BY <1>3 DEF PassEnds, Leave, PassDies, PassRaises, Examine, PassRows, store
<1>4. CASE Resolve(k)
  <2> DEFINE c   == rec[k].ctx
             why == rec[k].why
             st  == Resolution(c, why, rec[k].seen)
             ev  == IF st = "booked" /\ why # "cancellation" THEN Correlation(c)
                                                             ELSE None
  <2>1. c \in Context /\ rec[k].pc = "resolve"
    BY <1>4 DEF Resolve, LifecycleInv, PassesHold
  <2>2. Correlation(c) \in Context /\ Correlation(c) # None
    BY <2>1, <1>1, NoneAssumption DEF TypeOK, Row, Correlation
  <2>3. UNCHANGED rows \/ ResolveVerification(c, st, ev)
    BY <1>4 DEF Resolve, store
  <2>4. /\ st \in {"absent", "booked", "rejected", "cancelled"}
        /\ st = "cancelled" => why = "cancellation" /\ rec[k].seen = None
        /\ st = "booked" => rec[k].seen # None
        /\ st = Resolution(c, why, rec[k].seen)
    BY <2>1, NoneAssumption, TypeParts DEF Resolution, TypeOK, Row
  <2> HIDE DEF st
  <2>5. CASE ResolveVerification(c, st, ev)
    <3>1. /\ Is(c, "verification_required")
          /\ st \in {"booked", "rejected", "cancelled", "rescheduled"}
          /\ Updates(c, st, IF ev = None THEN rows[c].event ELSE ev, "none")
      BY <1>1, <2>1, <2>2, <2>5, ResolutionUpdates
    <3>2. (IF ev = None THEN rows[c].event ELSE ev) \in Context \cup {None}
      BY <1>1, <2>1, <2>2 DEF TypeOK, Row
    <3>3. Resolves(k)
      BY <2>1, <2>2, <2>4, <3>1, <3>2 DEF Resolves
    <3> QED
      BY <3>3 DEF PassRows
  <2> QED
    BY <2>3, <2>5 DEF PassRows
<1>5. CASE ResolveOriginal(k)
  <2> DEFINE o  == rows[rec[k].ctx].rescheduleOf
             st == OriginalResolution(rec[k].ctx, rec[k].seen)
  <2>1. o \in Context /\ rec[k].pc = "also"
    BY <1>5 DEF ResolveOriginal, LifecycleInv, PassesHold
  <2>2. UNCHANGED rows \/ ResolveVerification(o, st, None)
    BY <1>5 DEF ResolveOriginal, store
  <2>3. /\ st \in {"rescheduled", "booked"}
        /\ st = OriginalResolution(rec[k].ctx, rec[k].seen)
    BY DEF OriginalResolution
  <2> HIDE DEF o, st
  <2>4. CASE ResolveVerification(o, st, None)
    <3>1. /\ Is(o, "verification_required")
          /\ Updates(o, st, rows[o].event, "none")
      BY <1>1, <2>1, <2>4, ResolutionUpdates
    <3> QED
      BY <2>1, <2>3, <3>1 DEF PassRows, ResolvesOriginal, o
  <2> QED
    BY <2>2, <2>4 DEF PassRows
<1> QED
  BY <1>2, <1>3, <1>4, <1>5 DEF ReconcilerNext

(* What offers, expiry and time do to the rows. *)
OpensFresh(c) ==
  /\ Opens(c)
  /\ rows'[c].rescheduleOf = None
  /\ rows'[c].calendar = None
  /\ ~rows'[c].native => \A s \in Start : rows'[c].targets[s] = None

OpensMove(c) ==
  /\ Opens(c)
  /\ rows'[c].native
  /\ \E o \in offering :
       /\ rows'[c].rescheduleOf = o
       /\ rows'[c].calendar = rows[o].calendar
       /\ rows'[c].offered = Start \ {rows[o].start}
       /\ \A s \in Start : rows'[c].targets[s] \in {None, rows[o].calendar}

Ages(c) ==
  /\ OnlyRow(c)
  /\ rows'[c].status = rows[c].status
  /\ rows'[c].event = rows[c].event
  /\ rows'[c].reason = rows[c].reason
  /\ rows[c].status \in InFlight
  /\ Bound(c)
  /\ \A r \in Request : Touches(r, c) =>
       /\ RequestsTimely => ~Live(r)
       /\ WritesLand => write[r] # "sent"

OfferRows == \/ UNCHANGED rows
             \/ \E c \in Context : OnlyRow(c) /\ (OpensFresh(c) \/ OpensMove(c))
             \/ \E c \in Context : /\ Is(c, "offered")
                                   /\ Updates(c, "expired", rows[c].event, "none")
             \/ \E c \in Context : Ages(c)

LEMMA OfferEffect ==
  ASSUME LifecycleInv, NEW c \in Context,
         \/ Offer(c) \/ Lapse(c) \/ BeginOfferReschedule(c) \/ Elapse(c)
         \/ \E o \in Context : OfferReschedule(c, o)
  PROVE  OfferRows
<1>1. TypeOK
  BY TypeParts
<1>2. CASE Offer(c)
  <2>1. PICK native \in Native, offered \in SUBSET Start :
          \E targets \in [offered -> Calendar] :
            Create(c, native, offered,
                   [s \in Start |-> IF native /\ s \in offered THEN targets[s]
                                                               ELSE None],
                   None, None)
    BY <1>2 DEF Offer
  <2>2. PICK targets \in [offered -> Calendar] :
          Create(c, native, offered,
                 [s \in Start |-> IF native /\ s \in offered THEN targets[s]
                                                             ELSE None],
                 None, None)
    BY <2>1
  <2> DEFINE all == [s \in Start |-> IF native /\ s \in offered THEN targets[s] ELSE None]
  <2>3. all \in [Start -> Calendar \cup {None}] /\ native \in BOOLEAN
    BY LifecycleAssumption
  <2>4. ~native => \A s \in Start : all[s] = None
    OBVIOUS
  <2>5. Create(c, native, offered, all, None, None)
    BY <2>2
  <2> HIDE DEF all
  <2>6. OnlyRow(c) /\ OpensFresh(c)
    BY <1>1, <2>3, <2>4, <2>5, CreateOpens DEF OnlyRow, OpensFresh
  <2> QED
    BY <2>6 DEF OfferRows
<1>3. ASSUME NEW o \in Context, OfferReschedule(c, o)
      PROVE  OfferRows
  <2> DEFINE others == Start \ {rows[o].start}
             there == [s \in Start |-> IF s \in others THEN rows[o].calendar
                                                      ELSE None]
  <2>1. rows[o].calendar \in Calendar \cup {None}
    BY <1>1 DEF TypeOK, Row
  <2>2. /\ there \in [Start -> Calendar \cup {None}] /\ others \in SUBSET Start
        /\ \A s \in Start : there[s] \in {None, rows[o].calendar}
    BY <2>1
  <2>3. Create(c, TRUE, others, there, rows[o].calendar, o) /\ o \in offering
    BY <1>3 DEF OfferReschedule
  <2> HIDE DEF others, there
  <2> DEFINE cal == rows[o].calendar
  <2>4. cal \in Calendar \cup {None} /\ Create(c, TRUE, others, there, cal, o)
    BY <2>1, <2>3
  <2> HIDE DEF cal
  <2>5. /\ Opens(c) /\ OnlyRow(c)
        /\ rows'[c].native /\ rows'[c].targets = there
        /\ rows'[c].calendar = cal /\ rows'[c].rescheduleOf = o
        /\ rows'[c].offered = others
    <3> DEFINE row == [NoRow EXCEPT !.status = "offered", !.native = TRUE,
                                    !.offered = others, !.targets = there,
                                    !.calendar = cal, !.rescheduleOf = o]
    <3>1. /\ row \in Row /\ row.status = "offered" /\ row.native
          /\ row.targets = there /\ row.calendar = cal /\ row.rescheduleOf = o
          /\ row.offered = others
          /\ row.event = None /\ row.start = None /\ row.reason = "none"
      BY <2>2, <2>4 DEF NoRow, Row, Status, Reason
    <3>2. Put(c, row) /\ Is(c, "absent")
      BY <2>4 DEF Create
    <3> HIDE DEF row
    <3>3. /\ rows'[c] = [row EXCEPT !.aged = FALSE]
          /\ \A d \in Context \ {c} : rows'[d] = rows[d]
      BY <1>1, <3>2 DEF Put, TypeOK
    <3> QED
      BY <3>1, <3>2, <3>3 DEF Opens, OnlyRow, Row
  <2>6. OpensMove(c)
    BY <2>2, <2>3, <2>5 DEF OpensMove, cal, others
  <2> QED
    BY <2>5, <2>6 DEF OfferRows
<1>4. CASE Lapse(c)
  BY <1>1, <1>4, BeginningUpdates DEF Lapse, OfferRows
<1>5. CASE BeginOfferReschedule(c)
  BY <1>5 DEF BeginOfferReschedule, OfferRows, store
<1>6. CASE Elapse(c)
  <2> DEFINE row == [rows[c] EXCEPT !.aged = TRUE]
  <2>1. rows' = [rows EXCEPT ![c] = row] /\ rows[c].status \in InFlight
    BY <1>6, <1>1 DEF Elapse, Age, TypeOK
  <2>2. rows[c] \in Row /\ rows \in [Context -> Row]
    BY <1>1 DEF TypeOK
  <2>3. /\ row.status = rows[c].status /\ row.event = rows[c].event
        /\ row.reason = rows[c].reason
        /\ row.native = rows[c].native /\ row.offered = rows[c].offered
        /\ row.targets = rows[c].targets
        /\ row.calendar = rows[c].calendar /\ row.start = rows[c].start
        /\ row.rescheduleOf = rows[c].rescheduleOf
    BY <2>2 DEF Row
  <2> HIDE DEF row
  <2>4. rows'[c] = row /\ OnlyRow(c)
    BY <2>1, <2>2 DEF OnlyRow
  <2>5. Ages(c)
    BY <1>6, <2>1, <2>3, <2>4 DEF Ages, Bound, Elapse
  <2> QED
    BY <2>5 DEF OfferRows
<1> QED
  BY <1>2, <1>3, <1>4, <1>5, <1>6

-----------------------------------------------------------------------------
(* What any step does *)

RequestStep(r) == /\ RequestNext(r)
                  /\ MovesOn(r) \/ Starts(r)
                  /\ RequestRows(r)
                  /\ UNCHANGED <<event, filled, offering, rec>>

PassStep(k) == /\ ReconcilerNext(k)
               /\ PassRows(k)
               /\ UNCHANGED <<event, filled, creates, req, write, offering, told>>

ProviderStep == /\ ProviderNext
                /\ UNCHANGED <<store, creates, req, offering, rec, told>>
                /\ \A r \in Request : write'[r] = "sent" => write[r] = "sent"

OfferStep == /\ OfferRows
             /\ UNCHANGED <<event, filled, creates, req, write, rec, told>>
             /\ \A o \in offering' : o \in offering \/ Is(o, "booked")

LEMMA AnyStep ==
  ASSUME LifecycleInv, [Next]_vars
  PROVE  \/ \E r \in Request : RequestStep(r)
         \/ \E k \in Reconciler : PassStep(k)
         \/ ProviderStep
         \/ OfferStep
<1>1. ASSUME NEW r \in Request, RequestNext(r)
      PROVE  RequestStep(r)
  <2>1. UNCHANGED <<event, filled, offering, rec>>
    BY <1>1
       DEF RequestNext, BookClaim, MoveClaim, CancelBegin, BookRecheckFails, BookCreate,
           BookRefused, BookUnverified, BookConfirmed, BookPersistenceFails,
           CancelConfirmed, CancelMismatch, CancelRefused, CancelUnverified,
           MoveBegin, MoveCheckFails, MoveUpdate, MoveRefused, MoveUnverified,
           MoveConfirmed, MovePersistenceFails, SettleSuccessor, Crash, provider
  <2> QED
    BY <1>1, <2>1, RequestShape, RequestEffect DEF RequestStep
<1>2. ASSUME NEW k \in Reconciler, ReconcilerNext(k)
      PROVE  PassStep(k)
  <2>1. UNCHANGED <<event, filled, creates, req, write, offering, told>>
    BY <1>2 DEF ReconcilerNext, Tick, PassEnds, Leave, PassDies, Examine, Resolve,
                ResolveOriginal, PassRaises, provider
  <2> QED
    BY <1>2, <2>1, PassEffect DEF PassStep
<1>3. ASSUME ProviderNext
      PROVE  ProviderStep
  <2>1. UNCHANGED <<store, creates, req, offering, rec, told>>
    BY <1>3 DEF ProviderNext, ProviderApplies, ProviderRefuses, AttorneyFills,
                AttorneyDeletes, AttorneyMoves
  <2>2. \/ UNCHANGED write
        \/ \E r \in Request, reply \in Reply \ {"sent"} :
             write' = [write EXCEPT ![r] = reply]
    BY <1>3 DEF ProviderNext, ProviderApplies, Arrive, ProviderRefuses,
                AttorneyFills, AttorneyDeletes, AttorneyMoves, Reply
  <2> QED
    BY <1>3, <2>1, <2>2, TypeParts DEF ProviderStep
<1>4. ASSUME NEW c \in Context,
             \/ Offer(c) \/ Lapse(c) \/ BeginOfferReschedule(c) \/ Elapse(c)
             \/ \E o \in Context : OfferReschedule(c, o)
      PROVE  OfferStep
  <2>1. UNCHANGED <<event, filled, creates, req, write, rec, told>>
    BY <1>4 DEF Offer, Lapse, BeginOfferReschedule, Elapse, OfferReschedule, provider
  <2>2. \A o \in offering' : o \in offering \/ Is(o, "booked")
    BY <1>4 DEF Offer, Lapse, BeginOfferReschedule, Elapse, OfferReschedule
  <2> QED
    BY <1>4, <2>1, <2>2, OfferEffect DEF OfferStep
<1>5. ASSUME UNCHANGED vars
      PROVE  OfferStep
  BY <1>5 DEF vars, store, OfferStep, OfferRows
<1>6. \/ \E r \in Request : RequestNext(r)
      \/ \E k \in Reconciler : ReconcilerNext(k)
      \/ ProviderNext
      \/ \E c \in Context :
           \/ Offer(c) \/ Lapse(c) \/ BeginOfferReschedule(c) \/ Elapse(c)
           \/ \E o \in Context : OfferReschedule(c, o)
      \/ UNCHANGED vars
  BY DEF Next
<1> QED
  BY <1>1, <1>2, <1>3, <1>4, <1>5, <1>6

(* A row no caller has claimed. *)
Unclaimed == {"absent", "offered", "expired"}

Keeps(c) == /\ Bound(c)
            /\ rows[c].status \in Unclaimed => rows'[c].status \in Unclaimed

LEMMA UpdateKeeps ==
  ASSUME NEW x, NEW st, NEW ev, NEW why, Updates(x, st, ev, why),
         rows[x].status \in Unclaimed => st \in Unclaimed
  PROVE  \A c \in Context : Keeps(c)
BY DEF Updates, Keeps, Bound

LEMMA FateOfRows ==
  ASSUME LifecycleInv, [Next]_vars, NEW c \in Context
  PROVE  Keeps(c) \/ OpensFresh(c) \/ OpensMove(c) \/ Claims(c)
<1> USE DEF Is, Unclaimed
<1>1. UNCHANGED rows => Keeps(c)
  BY DEF Keeps, Bound
<1>2. ASSUME NEW r \in Request, RequestStep(r)
      PROVE  Keeps(c) \/ Claims(c)
  <2>1. CASE ClaimsRow(r)
    BY <2>1 DEF ClaimsRow, OnlyRow, Keeps, Bound
  <2>2. CASE BeginsCancelling
    BY <2>2, UpdateKeeps DEF BeginsCancelling
  <2>3. CASE EndsCancelling(r)
    BY <2>3, UpdateKeeps DEF EndsCancelling
  <2>4. CASE MovesOriginal(r)
    BY <2>4, UpdateKeeps DEF MovesOriginal
  <2>5. CASE Finishes(r)
    BY <2>5, UpdateKeeps DEF Finishes
  <2> QED
    BY <1>1, <1>2, <2>1, <2>2, <2>3, <2>4, <2>5 DEF RequestStep, RequestRows
<1>3. ASSUME NEW k \in Reconciler, PassStep(k)
      PROVE  Keeps(c)
  <2>1. CASE Sweeps
    BY <2>1 DEF Sweeps, Keeps, Bound, InFlight
  <2>2. CASE Resolves(k)
    BY <2>2, UpdateKeeps DEF Resolves
  <2>3. CASE ResolvesOriginal(k)
    BY <2>3, UpdateKeeps DEF ResolvesOriginal
  <2> QED
    BY <1>1, <1>3, <2>1, <2>2, <2>3 DEF PassStep, PassRows
<1>4. ASSUME OfferStep
      PROVE  Keeps(c) \/ OpensFresh(c) \/ OpensMove(c)
  <2>1. ASSUME NEW x \in Context, OnlyRow(x), OpensFresh(x) \/ OpensMove(x)
        PROVE  Keeps(c) \/ OpensFresh(c) \/ OpensMove(c)
    BY <2>1 DEF OnlyRow, Keeps, Bound
  <2>2. ASSUME NEW x \in Context, Is(x, "offered"),
               Updates(x, "expired", rows[x].event, "none")
        PROVE  Keeps(c)
    BY <2>2, UpdateKeeps
  <2>3. ASSUME NEW x \in Context, Ages(x)
        PROVE  Keeps(c)
    BY <2>3 DEF Ages, OnlyRow, Keeps, Bound
  <2> QED
    BY <1>1, <1>4, <2>1, <2>2, <2>3 DEF OfferStep, OfferRows
<1> QED
  BY <1>1, <1>2, <1>3, <1>4, AnyStep DEF ProviderStep, store

-----------------------------------------------------------------------------
(* What a provider write does when it arrives *)

Reaches(r, e, evt) == /\ event' = [event EXCEPT ![e] = evt]
                      /\ write' = [write EXCEPT ![r] = "ok"]

Books(r) ==
  /\ req[r].op = "book"
  /\ Reaches(r, Ctx(r), [calendar |-> rows[Ctx(r)].calendar,
                         start |-> rows[Ctx(r)].start])

Cancels(r) ==
  /\ req[r].op = "cancel"
  /\ rows[Ctx(r)].event = Ctx(r)
  /\ event[Ctx(r)] # None
  /\ Reaches(r, Ctx(r), None)

Moves(r) ==
  LET o == Original(r)
  IN  /\ req[r].op = "move"
      /\ rows[o].event = o
      /\ event[o] # None
      /\ Reaches(r, o, [event[o] EXCEPT !.start = rows[Ctx(r)].start])

Misses(r) ==
  /\ req[r].op # "book"
  /\ UNCHANGED event
  /\ \/ write' = [write EXCEPT ![r] = "correlation_mismatch"]
     \/ /\ write' = [write EXCEPT ![r] = "event_not_found"]
        /\ req[r].op = "cancel" => event[rows[Ctx(r)].event] = None

LEMMA Arrivals ==
  ASSUME LifecycleInv, NEW r \in Request, ProviderApplies(r)
  PROVE  /\ write[r] = "sent" /\ WorkExists(r)
         /\ Books(r) \/ Cancels(r) \/ Moves(r) \/ Misses(r)
<1>1. write[r] = "sent" /\ WorkExists(r) /\ Arrive(r)
  BY DEF ProviderApplies, LifecycleInv, RequestsHold, Engaged
<1>2. CASE req[r].op = "book"
  BY <1>1, <1>2 DEF Arrive, Books, Reaches
<1>3. CASE req[r].op = "cancel"
  BY <1>1, <1>3 DEF Arrive, Cancels, Reaches, Misses
<1>4. CASE req[r].op = "move"
  BY <1>1, <1>4 DEF Arrive, Moves, Reaches, Misses
<1> QED
  BY <1>1, <1>2, <1>3, <1>4 DEF WorkExists

(* What else changes the calendar, or a reply. *)
Attorney == /\ UNCHANGED write
            /\ \/ UNCHANGED event
               \/ \E c \in Context :
                    /\ event[c] # None
                    /\ \/ c \in Deletable /\ event' = [event EXCEPT ![c] = None]
                       \/ /\ c \in Movable
                          /\ \E s \in Start :
                               event' = [event EXCEPT ![c] = [event[c] EXCEPT !.start = s]]

LEMMA ProviderEffect ==
  ASSUME LifecycleInv, ProviderStep
  PROVE  \/ \E r \in Request :
              /\ write[r] = "sent" /\ WorkExists(r)
              /\ Books(r) \/ Cancels(r) \/ Moves(r) \/ Misses(r)
         \/ \E r \in Request : ProviderRefuses(r)
         \/ Attorney
<1>1. ASSUME NEW c \in Context, AttorneyDeletes(c) \/ \E s \in Start : AttorneyMoves(c, s)
      PROVE  Attorney
  <2>1. ASSUME NEW s \in Start, AttorneyMoves(c, s)
        PROVE  /\ c \in Movable
               /\ event' = [event EXCEPT ![c] = [event[c] EXCEPT !.start = s]]
    BY <2>1, TypeParts DEF AttorneyMoves
  <2> QED
    BY <1>1, <2>1 DEF AttorneyDeletes, AttorneyMoves, Attorney
<1>2. ASSUME NEW cal, NEW s, AttorneyFills(cal, s)
      PROVE  Attorney
  BY <1>2 DEF AttorneyFills, Attorney
<1> QED
  BY <1>1, <1>2, Arrivals DEF ProviderStep, ProviderNext

-----------------------------------------------------------------------------
(* Where bookings go, and who is at work on them: with no assumption *)

(* A booking or a move under way, or whose write may still arrive. *)
Writes(r) == Engaged(r) /\ req[r].op # "cancel"

(* One request works on a claimed row.                                     *)
OneClaimant ==
  \A q, r \in Request : Writes(q) /\ Writes(r) /\ Ctx(q) = Ctx(r) => q = r

(* A request that has not come to its write has none. *)
Beginning == {"idle", "recheck", "begin", "moveCheck"}

NoWriteYet == \A r \in Request : req[r].pc \in Beginning => write[r] = "none"

Chosen(c) == rows[c].start # None

(* A row that was claimed knows its instant; one without a provider key no *)
(* calendar; and a move stays on the calendar of the booking it moves.     *)
RouteKept(c) ==
  /\ rows[c].status \notin Unclaimed => Chosen(c)
  /\ ~rows[c].native => /\ rows[c].calendar = None
                        /\ \A s \in Start : rows[c].targets[s] = None
  /\ LET o == rows[c].rescheduleOf IN
       o # None => /\ Chosen(o)
                   /\ rows[c].calendar = rows[o].calendar
                   /\ \A s \in Start : rows[c].targets[s] \in {None, rows[o].calendar}

Routes == /\ \A c \in Context : RouteKept(c)
          /\ \A o \in offering : Chosen(o)

(* An event is on the calendar its context was bound to. *)
EventPlaced ==
  \A e \in Context :
    event[e] # None => Chosen(e) /\ event[e].calendar = rows[e].calendar

BaseInv == LifecycleInv /\ OneClaimant /\ NoWriteYet /\ Routes /\ EventPlaced

LEMMA WritersKept ==
  ASSUME LifecycleInv, [Next]_vars, NEW q \in Request, Writes(q)'
  PROVE  \/ Writes(q) /\ req'[q].ctx = req[q].ctx /\ req'[q].op = req[q].op
         \/ /\ RequestStep(q) /\ Is(req'[q].ctx, "offered")
            /\ req'[q].pc \in {"recheck", "begin"}
            /\ \A p \in Request \ {q} : req'[p] = req[p] /\ write'[p] = write[p]
<1>1. ASSUME NEW r \in Request, RequestStep(r), q # r
      PROVE  Writes(q) /\ req'[q] = req[q]
  BY <1>1 DEF RequestStep, MovesOn, Starts, Writes, Engaged, Live
<1>2. ASSUME RequestStep(q), MovesOn(q)
      PROVE  Writes(q) /\ req'[q].ctx = req[q].ctx /\ req'[q].op = req[q].op
  BY <1>2 DEF MovesOn, Writes, Engaged, Live
<1>3. ASSUME RequestStep(q), Starts(q)
      PROVE  /\ Is(req'[q].ctx, "offered") /\ req'[q].pc \in {"recheck", "begin"}
             /\ \A p \in Request \ {q} : req'[p] = req[p] /\ write'[p] = write[p]
  BY <1>3 DEF Starts, Writes, Engaged, OperationOf
<1>4. ASSUME UNCHANGED req, \A r \in Request : write'[r] = "sent" => write[r] = "sent"
      PROVE  Writes(q) /\ req'[q] = req[q]
  BY <1>4 DEF Writes, Engaged, Live
<1>5. \/ \E r \in Request : RequestStep(r)
      \/ UNCHANGED req /\ \A r \in Request : write'[r] = "sent" => write[r] = "sent"
  BY AnyStep DEF PassStep, ProviderStep, OfferStep
<1> QED
  BY <1>1, <1>2, <1>3, <1>4, <1>5 DEF RequestStep

LEMMA OneClaimantStep ==
  ASSUME LifecycleInv, OneClaimant, [Next]_vars
  PROVE  OneClaimant'
<1>1. SUFFICES ASSUME NEW q \in Request, NEW r \in Request, Writes(q)', Writes(r)',
                      req'[q].ctx = req'[r].ctx, q # r
               PROVE  FALSE
  BY DEF OneClaimant, Ctx
<1>2. ASSUME NEW p \in Request, Writes(p)
      PROVE  ~Is(req[p].ctx, "offered")
  BY <1>2 DEF Writes, LifecycleInv, RequestsHold, WorkExists, Ctx
<1>3. ASSUME NEW p \in Request, NEW s \in Request, p # s, Writes(s)',
             Is(req'[p].ctx, "offered"), req'[p].ctx = req'[s].ctx,
             req'[s] = req[s], write'[s] = write[s]
      PROVE  FALSE
  <2>1. Writes(s)
    BY <1>3 DEF Writes, Engaged, Live
  <2> QED
    BY <1>2, <1>3, <2>1
<1>4. Writes(q) /\ req'[q].ctx = req[q].ctx
  BY <1>1, <1>3, WritersKept
<1>5. Writes(r) /\ req'[r].ctx = req[r].ctx
  BY <1>1, <1>3, WritersKept
<1> QED
  BY <1>1, <1>4, <1>5 DEF OneClaimant, Ctx

LEMMA BeginningSteps ==
  ASSUME LifecycleInv, NEW r \in Request, RequestNext(r), req'[r].pc \in Beginning
  PROVE  \/ MoveBegin(r) /\ req'[r].pc = "moveCheck"
         \/ \E c \in Context, s \in Start : BookClaim(r, c, s) \/ MoveClaim(r, c, s)
<1> USE TypeParts DEF Req
<1>1. ASSUME NEW outcome, Answer(r, outcome)
      PROVE  req'[r].pc = "done"
  BY <1>1 DEF Answer, Over, Idle
<1>2. ASSUME NEW c \in Context, CancelBegin(r, c)
      PROVE  req'[r].pc = "cancelling"
  BY <1>2 DEF CancelBegin, Begin
<1>3. ASSUME BookCreate(r) \/ MoveUpdate(r)
      PROVE  FALSE
  BY <1>3 DEF BookCreate, MoveUpdate, Send, Goto, Beginning
<1>4. ASSUME NEW st, NEW verdict, Settle(r, st, verdict)
      PROVE  req'[r].pc = "settleSuccessor"
  BY <1>4 DEF Settle
<1>5. ASSUME Crash(r)
      PROVE  FALSE
  BY <1>5 DEF Crash, Over, Idle, Beginning
<1>6. ASSUME MovePersistenceFails(r)
      PROVE  FALSE
  BY <1>4, <1>6 DEF MovePersistenceFails, Beginning
<1>7. ASSUME MoveBegin(r)
      PROVE  req'[r].pc = "moveCheck"
  BY <1>1, <1>7 DEF MoveBegin, Goto, Beginning
<1>8. \/ \E c \in Context : CancelBegin(r, c)
      \/ \E st, verdict : Settle(r, st, verdict)
      \/ \E outcome : Answer(r, outcome)
      \/ BookCreate(r) \/ MoveUpdate(r) \/ Crash(r) \/ MovePersistenceFails(r)
      \/ MoveBegin(r)
      \/ \E c \in Context, s \in Start : BookClaim(r, c, s) \/ MoveClaim(r, c, s)
  BY DEF RequestNext, BookRecheckFails, BookRefused, BookUnverified,
         BookConfirmed, BookPersistenceFails, CancelConfirmed, CancelMismatch,
         CancelRefused, CancelUnverified, CancelSettle, MoveCheckFails,
         MoveRefused, MoveUnverified, MoveConfirmed, SettleSuccessor
<1> QED
  BY <1>1, <1>2, <1>3, <1>4, <1>5, <1>6, <1>7, <1>8 DEF Beginning

(* The provider answers only what was sent. *)
LEMMA ProviderKeepsNone ==
  ASSUME LifecycleInv, ProviderStep, NEW r \in Request, write[r] = "none"
  PROVE  write'[r] = "none"
BY ProviderEffect, TypeParts
   DEF Books, Cancels, Moves, Reaches, Misses, ProviderRefuses, Attorney

LEMMA NoWriteYetStep ==
  ASSUME LifecycleInv, NoWriteYet, [Next]_vars
  PROVE  NoWriteYet'
<1>1. ASSUME NEW r \in Request, RequestStep(r), req'[r].pc \in Beginning
      PROVE  write'[r] = "none"
  <2>1. \/ MoveBegin(r)
        \/ \E c \in Context, s \in Start : BookClaim(r, c, s) \/ MoveClaim(r, c, s)
    BY <1>1, BeginningSteps DEF RequestStep
  <2> QED
    BY <2>1 DEF MoveBegin, BookClaim, MoveClaim, Begin, At, NoWriteYet, Beginning
<1>2. ASSUME NEW r \in Request, RequestStep(r)
      PROVE  NoWriteYet'
  BY <1>1, <1>2 DEF NoWriteYet, RequestStep, MovesOn, Starts
<1>3. ASSUME ProviderStep
      PROVE  NoWriteYet'
  BY <1>3, ProviderKeepsNone DEF ProviderStep, NoWriteYet
<1> QED
  BY <1>2, <1>3, AnyStep DEF PassStep, OfferStep, NoWriteYet

LEMMA RoutesStep ==
  ASSUME LifecycleInv, Routes, [Next]_vars
  PROVE  Routes'
<1>1. BindingKept /\ Unchosen /\ TypeOK
  BY LifecycleStoreStep, NextBinding, TypeParts DEF LifecycleInv
<1>2. ASSUME NEW c \in Context
      PROVE  RouteKept(c)'
  <2>1. RouteKept(c) /\ rows[c] \in Row
    BY <1>1 DEF Routes, TypeOK
  <2>2. ASSUME NEW o \in Context, Chosen(o)
        PROVE  Chosen(o)' /\ rows'[o].calendar = rows[o].calendar
    BY <1>1, <2>2 DEF BindingKept, Chosen
  <2>3. rows[c].rescheduleOf \in Context \cup {None}
    BY <2>1 DEF Row
  <2>4. CASE Keeps(c)
    BY <2>1, <2>2, <2>3, <2>4 DEF RouteKept, Keeps, Bound, Chosen
  <2>5. CASE OpensFresh(c)
    BY <2>5 DEF OpensFresh, Opens, RouteKept, Unclaimed
  <2>6. CASE OpensMove(c)
    <3>1. PICK o \in offering :
            /\ rows'[c].rescheduleOf = o
            /\ rows'[c].calendar = rows[o].calendar
            /\ \A s \in Start : rows'[c].targets[s] \in {None, rows[o].calendar}
      BY <2>6 DEF OpensMove
    <3>2. o \in Context /\ Chosen(o)
      BY TypeParts DEF Routes
    <3> QED
      BY <2>2, <2>6, <3>1, <3>2 DEF OpensMove, Opens, RouteKept, Unclaimed
  <2>7. CASE Claims(c)
    <3>1. PICK s \in Start : /\ rows'[c].start = s
                             /\ rows'[c].calendar = BoundCalendar(c, s)
      BY <2>7 DEF Claims
    <3>2. s # None
      BY NoneAssumption
    <3> QED
      BY <2>1, <2>2, <2>3, <2>7, <3>1, <3>2
         DEF Claims, RouteKept, Chosen, BoundCalendar
  <2> QED
    BY <2>4, <2>5, <2>6, <2>7, FateOfRows
<1>3. ASSUME NEW o \in offering'
      PROVE  Chosen(o)'
  <2>1. o \in Context /\ (o \in offering \/ Is(o, "booked"))
    <3>1. o \in Context
      BY <1>3, NextInv DEF LifecycleInv, LifecycleTypeOK
    <3> QED
      BY <1>3, <3>1, AnyStep DEF RequestStep, PassStep, ProviderStep, OfferStep
  <2>2. o \in Context /\ Chosen(o)
    BY <2>1, TypeParts DEF Routes, RouteKept, Unclaimed, Is
  <2> QED
    BY <1>1, <2>2 DEF BindingKept, Chosen
<1> QED
  BY <1>2, <1>3 DEF Routes

LEMMA EventPlacedStep ==
  ASSUME LifecycleInv, EventPlaced, [Next]_vars
  PROVE  EventPlaced'
<1>1. BindingKept
  BY LifecycleStoreStep, NextBinding, TypeParts DEF LifecycleInv
<1>2. ASSUME NEW e \in Context, Chosen(e)
      PROVE  Chosen(e)' /\ rows'[e].calendar = rows[e].calendar
  BY <1>1, <1>2 DEF BindingKept, Chosen
<1>3. ASSUME UNCHANGED event
      PROVE  EventPlaced'
  BY <1>2, <1>3 DEF EventPlaced
<1>4. ASSUME NEW c \in Context, NEW evt, event' = [event EXCEPT ![c] = evt],
             \/ evt = None
             \/ Chosen(c) /\ evt.calendar = rows[c].calendar
      PROVE  EventPlaced'
  BY <1>2, <1>4, TypeParts DEF EventPlaced
<1>5. ASSUME NEW c \in Context, event[c] # None, NEW s
      PROVE  [event[c] EXCEPT !.start = s].calendar = rows[c].calendar
  BY <1>5, TypeParts DEF Event, EventPlaced
<1>6. ASSUME ProviderStep
      PROVE  EventPlaced'
  <2>1. ASSUME NEW r \in Request, WorkExists(r), Books(r)
        PROVE  EventPlaced'
    <3> DEFINE evt == [calendar |-> rows[Ctx(r)].calendar, start |-> rows[Ctx(r)].start]
    <3>1. Ctx(r) \in Context /\ Chosen(Ctx(r))
      BY <2>1, NoneAssumption DEF WorkExists, Books, Chosen
    <3>2. event' = [event EXCEPT ![Ctx(r)] = evt] /\ evt.calendar = rows[Ctx(r)].calendar
      BY <2>1 DEF Books, Reaches
    <3> HIDE DEF evt
    <3> QED
      BY <1>4, <3>1, <3>2
  <2>2. ASSUME NEW r \in Request, WorkExists(r), Cancels(r)
        PROVE  EventPlaced'
    BY <1>4, <2>2 DEF WorkExists, Cancels, Reaches
  <2>3. ASSUME NEW r \in Request, WorkExists(r), Moves(r)
        PROVE  EventPlaced'
    <3> DEFINE o   == Original(r)
               evt == [event[o] EXCEPT !.start = rows[Ctx(r)].start]
    <3>1. o \in Context /\ event[o] # None /\ event' = [event EXCEPT ![o] = evt]
      BY <2>3 DEF WorkExists, Moves, Reaches
    <3>2. Chosen(o) /\ evt.calendar = rows[o].calendar
      BY <1>5, <3>1 DEF EventPlaced
    <3> HIDE DEF evt, o
    <3> QED
      BY <1>4, <3>1, <3>2
  <2>4. ASSUME NEW c \in Context, event[c] # None, NEW s,
               event' = [event EXCEPT ![c] = [event[c] EXCEPT !.start = s]]
        PROVE  EventPlaced'
    <3> DEFINE evt == [event[c] EXCEPT !.start = s]
    <3>1. Chosen(c) /\ evt.calendar = rows[c].calendar
      BY <1>5, <2>4 DEF EventPlaced
    <3>2. event' = [event EXCEPT ![c] = evt]
      BY <2>4
    <3> HIDE DEF evt
    <3> QED
      BY <1>4, <3>1, <3>2
  <2>5. Attorney => EventPlaced'
    BY <1>3, <1>4, <2>4 DEF Attorney
  <2>6. ASSUME NEW r \in Request, Misses(r) \/ ProviderRefuses(r)
        PROVE  EventPlaced'
    BY <1>3, <2>6 DEF Misses, ProviderRefuses, provider
  <2> QED
    BY <1>6, <2>1, <2>2, <2>3, <2>5, <2>6, ProviderEffect
<1> QED
  BY <1>3, <1>6, AnyStep DEF RequestStep, PassStep, OfferStep

LEMMA BaseStep == BaseInv /\ [Next]_vars => BaseInv'
BY NextInv, OneClaimantStep, NoWriteYetStep, RoutesStep, EventPlacedStep DEF BaseInv

LEMMA BaseInit == Init => BaseInv
<1> SUFFICES ASSUME Init
             PROVE  OneClaimant /\ NoWriteYet /\ Routes /\ EventPlaced
  BY InitInv DEF BaseInv
<1>1. \A r \in Request : ~Writes(r) /\ write[r] = "none"
  BY DEF Init, Idle, Writes, Engaged, Live
<1>2. \A c \in Context : rows[c] = NoRow /\ event[c] = None
  BY DEF Init, StoreInit
<1> QED
  BY <1>1, <1>2
     DEF Init, OneClaimant, NoWriteYet, Routes, RouteKept, NoRow, Unclaimed, EventPlaced

-----------------------------------------------------------------------------
(* Double booking: when writes land in time *)

Timely == WritesLand /\ RequestsTimely /\ Movable = {}

(* The row of a booking or move at work is in its hands: no pass parks it. *)
InHand ==
  \A r \in Request : Writes(r) => /\ Is(Ctx(r), "booking_in_progress")
                                  /\ ~rows[Ctx(r)].aged

(* A move that settles has its answer. *)
NothingPending == \A r \in Request : At(r, "settleSuccessor") => write[r] = "none"

Slot(c) == [calendar |-> rows[c].calendar, start |-> rows[c].start]

(* Where a write under way would put an event there is none. *)
WritesClear ==
  \A r \in Request :
    write[r] = "sent" /\ req[r].op # "cancel" /\ rows[Ctx(r)].calendar # None =>
      \A d \in Context : event[d] # None => event[d] # Slot(Ctx(r))

DoubleInv == /\ BaseInv
             /\ SlotGuard
             /\ InHand
             /\ NothingPending
             /\ WritesClear
             /\ NoDoubleBooking

(* How a move comes to settle its successor. *)
LEMMA SettlingSteps ==
  ASSUME LifecycleInv, NEW r \in Request, RequestNext(r),
         req'[r].pc = "settleSuccessor"
  PROVE  \/ MoveCheckFails(r) \/ MoveRefused(r) \/ MoveUnverified(r)
         \/ MoveConfirmed(r) \/ MovePersistenceFails(r)
<1> USE TypeParts DEF Req
<1>1. ASSUME NEW outcome, Answer(r, outcome)
      PROVE  FALSE
  BY <1>1 DEF Answer, Over, Idle
<1>2. ASSUME NEW op, NEW c, NEW pc \in {"recheck", "begin", "cancelling"},
             Begin(r, op, c, pc)
      PROVE  FALSE
  BY <1>2 DEF Begin
<1>3. ASSUME BookCreate(r) \/ MoveUpdate(r)
      PROVE  FALSE
  BY <1>3 DEF BookCreate, MoveUpdate, Send, Goto
<1>4. ASSUME Crash(r)
      PROVE  FALSE
  BY <1>4 DEF Crash, Over, Idle
<1>5. ASSUME MoveBegin(r)
      PROVE  FALSE
  BY <1>1, <1>5 DEF MoveBegin, Goto
<1>6. \/ \E outcome : Answer(r, outcome)
      \/ \E op, c : \E pc \in {"recheck", "begin", "cancelling"} : Begin(r, op, c, pc)
      \/ BookCreate(r) \/ MoveUpdate(r) \/ Crash(r) \/ MoveBegin(r)
      \/ \/ MoveCheckFails(r) \/ MoveRefused(r) \/ MoveUnverified(r)
         \/ MoveConfirmed(r) \/ MovePersistenceFails(r)
  BY DEF RequestNext, BookClaim, MoveClaim, CancelBegin, BookRecheckFails,
         BookRefused, BookUnverified, BookConfirmed, BookPersistenceFails,
         CancelConfirmed, CancelMismatch, CancelRefused, CancelUnverified,
         CancelSettle, SettleSuccessor
<1> QED
  BY <1>1, <1>2, <1>3, <1>4, <1>5, <1>6

LEMMA NothingPendingStep ==
  ASSUME Timely, BaseInv, NothingPending, [Next]_vars
  PROVE  NothingPending'
<1> USE DEF At
<1>1. LifecycleInv /\ NoWriteYet /\ write \in [Request -> Reply]
  BY TypeParts DEF BaseInv
<1>2. ASSUME NEW r \in Request, RequestStep(r), req'[r].pc = "settleSuccessor"
      PROVE  write'[r] = "none"
  <2>1. \/ MoveCheckFails(r) \/ MoveRefused(r) \/ MoveUnverified(r)
        \/ MoveConfirmed(r) \/ MovePersistenceFails(r)
    BY <1>1, <1>2, SettlingSteps DEF RequestStep
  <2> QED
    BY <1>1, <2>1
       DEF MoveCheckFails, MoveRefused, MoveUnverified, MoveConfirmed,
           MovePersistenceFails, GotReply, NoReply, NoWriteYet, Beginning, Timely
<1>3. ASSUME NEW r \in Request, RequestStep(r)
      PROVE  NothingPending'
  BY <1>2, <1>3 DEF NothingPending, RequestStep, MovesOn, Starts
<1>4. ASSUME ProviderStep
      PROVE  NothingPending'
  BY <1>1, <1>4, ProviderKeepsNone DEF ProviderStep, NothingPending
<1> QED
  BY <1>1, <1>3, <1>4, AnyStep DEF PassStep, OfferStep, NothingPending

(* Who begins to book or to move has just claimed its row. *)
LEMMA BeginnerClaims ==
  ASSUME LifecycleInv, NEW r \in Request, RequestNext(r),
         req'[r].pc \in {"recheck", "begin"}
  PROVE  Claims(req'[r].ctx)
<1>1. PICK c \in Context, s \in Start : BookClaim(r, c, s) \/ MoveClaim(r, c, s)
  BY BeginningSteps DEF Beginning
<1>2. Claims(c)
  BY <1>1, ClaimClaims, TypeParts DEF BookClaim, MoveClaim
<1>3. req'[r].ctx = c
  BY <1>1, BeginShape DEF BookClaim, MoveClaim, Pc
<1> QED
  BY <1>2, <1>3

LEMMA InHandStep ==
  ASSUME Timely, BaseInv, NothingPending, InHand, [Next]_vars
  PROVE  InHand'
<1>1. LifecycleInv /\ OneClaimant /\ NoWriteYet
  BY DEF BaseInv
<1>2. SUFFICES ASSUME NEW q \in Request, Writes(q)'
               PROVE  /\ rows'[req'[q].ctx].status = "booking_in_progress"
                      /\ ~rows'[req'[q].ctx].aged
  BY DEF InHand, Is, Ctx
<1>3. CASE RequestStep(q) /\ req'[q].pc \in {"recheck", "begin"}
  BY <1>1, <1>3, BeginnerClaims DEF RequestStep, Claims
<1>4. CASE Writes(q) /\ req'[q].ctx = req[q].ctx
  <2> DEFINE c == req[q].ctx
  <2>1. /\ c \in Context /\ Engaged(q)
        /\ rows[c].status = "booking_in_progress" /\ ~rows[c].aged
    BY <1>1, <1>4 DEF InHand, Is, Ctx, Writes, LifecycleInv, RequestsHold, WorkExists
  <2> SUFFICES rows'[c] = rows[c]
    BY <1>4, <2>1
  <2> USE DEF Is
  <2>2. ASSUME NEW r \in Request, RequestStep(r)
        PROVE  rows'[c] = rows[c]
    <3>1. CASE ClaimsRow(r)
      BY <2>1, <3>1 DEF ClaimsRow, Claims, OnlyRow
    <3>2. CASE BeginsCancelling
      BY <2>1, <3>2 DEF BeginsCancelling, Updates
    <3>3. CASE EndsCancelling(r)
      BY <2>1, <3>3 DEF EndsCancelling, Updates
    <3>4. CASE MovesOriginal(r)
      BY <2>1, <3>4 DEF MovesOriginal, Updates
    <3>5. CASE Finishes(r)
      <4>1. Ctx(r) # c
        <5>1. SUFFICES ASSUME Ctx(r) = c
                       PROVE  FALSE
          OBVIOUS
        <5>2. r = q
          BY <1>1, <1>4, <3>5, <5>1 DEF OneClaimant, Finishes, Writes, Engaged, Ctx
        <5>3. req'[q].pc = "done" /\ write'[q] # "sent"
          BY <1>1, <3>5, <5>2
             DEF Finishes, Timely, NothingPending, NoWriteYet, Beginning, At
        <5> QED
          BY <1>2, <5>3 DEF Writes, Engaged, Live
      <4> QED
        BY <2>1, <3>5, <4>1 DEF Finishes, Updates
    <3> QED
      BY <2>2, <3>1, <3>2, <3>3, <3>4, <3>5 DEF RequestStep, RequestRows
  <2>3. ASSUME NEW k \in Reconciler, PassStep(k)
        PROVE  rows'[c] = rows[c]
    BY <2>1, <2>3 DEF PassStep, PassRows, Sweeps, Resolves, ResolvesOriginal, Updates
  <2>4. ASSUME OfferStep
        PROVE  rows'[c] = rows[c]
    <3>1. ASSUME NEW x \in Context, Ages(x)
          PROVE  x # c
      <4>1. Touches(q, x) => ~Engaged(q)
        BY <3>1 DEF Ages, Engaged, Timely
      <4> QED
        BY <2>1, <4>1, NoneAssumption DEF Touches, Ctx
    <3> QED
      BY <2>1, <2>4, <3>1
         DEF OfferStep, OfferRows, OnlyRow, OpensFresh, OpensMove, Opens, Updates, Ages
  <2> QED
    BY <1>1, <2>2, <2>3, <2>4, AnyStep DEF ProviderStep, store
<1> QED
  BY <1>1, <1>2, <1>3, <1>4, WritersKept

(* What a write that lands puts in the calendar. *)
LEMMA Landing ==
  ASSUME BaseInv, NEW r \in Request, WorkExists(r), Books(r) \/ Moves(r)
  PROVE  /\ req[r].op # "cancel"
         /\ \E e \in Context : Reaches(r, e, Slot(Ctx(r)))
<1>1. CASE Books(r)
  BY <1>1 DEF Books, WorkExists, Slot
<1>2. CASE Moves(r)
  <2> DEFINE o == Original(r)
             c == Ctx(r)
  <2>1. /\ c \in Context /\ o \in Context /\ o = rows[c].rescheduleOf
        /\ event[o] # None
    BY <1>2 DEF WorkExists, Moves, Original
  <2>2. event[o].calendar = rows[c].calendar
    BY <2>1, NoneAssumption DEF BaseInv, EventPlaced, Routes, RouteKept
  <2>3. [event[o] EXCEPT !.start = rows[c].start] = Slot(c)
    BY <2>1, <2>2, TypeParts DEF BaseInv, Event, Slot
  <2>4. req[r].op = "move" /\ Reaches(r, o, [event[o] EXCEPT !.start = rows[c].start])
    BY <1>2 DEF Moves
  <2> HIDE DEF o, c
  <2> QED
    BY <2>1, <2>3, <2>4 DEF c
<1> QED
  BY <1>1, <1>2

(* How the calendar can change when nobody moves events by hand. *)
LEMMA CalendarStep ==
  ASSUME Timely, BaseInv, [Next]_vars
  PROVE  \/ UNCHANGED event
         \/ \E e \in Context : event' = [event EXCEPT ![e] = None]
         \/ /\ UNCHANGED <<rows, req>>
            /\ \E r \in Request, e \in Context :
                 /\ write[r] = "sent" /\ req[r].op # "cancel" /\ WorkExists(r)
                 /\ Reaches(r, e, Slot(Ctx(r)))
<1>1. LifecycleInv
  BY DEF BaseInv
<1>2. ASSUME ProviderStep
      PROVE  \/ UNCHANGED event
             \/ \E e \in Context : event' = [event EXCEPT ![e] = None]
             \/ \E r \in Request, e \in Context :
                  /\ write[r] = "sent" /\ req[r].op # "cancel" /\ WorkExists(r)
                  /\ Reaches(r, e, Slot(Ctx(r)))
  <2>1. ASSUME NEW r \in Request, WorkExists(r), Cancels(r)
        PROVE  \E e \in Context : event' = [event EXCEPT ![e] = None]
    BY <2>1 DEF Cancels, Reaches, WorkExists
  <2>2. ASSUME NEW r \in Request, Misses(r) \/ ProviderRefuses(r)
        PROVE  UNCHANGED event
    BY <2>2 DEF Misses, ProviderRefuses, provider
  <2>3. Attorney => \/ UNCHANGED event
                    \/ \E e \in Context : event' = [event EXCEPT ![e] = None]
    BY DEF Attorney, Timely
  <2> QED
    BY <1>1, <1>2, <2>1, <2>2, <2>3, Landing, ProviderEffect
<1> QED
  BY <1>1, <1>2, AnyStep DEF RequestStep, PassStep, ProviderStep, OfferStep, store

LEMMA WritesClearStep ==
  ASSUME Timely, DoubleInv, [Next]_vars
  PROVE  WritesClear'
<1>1. BaseInv /\ LifecycleInv /\ InHand /\ WritesClear /\ SlotGuard /\ BindingKept
  BY LifecycleStoreStep, NextBinding, TypeParts DEF DoubleInv, BaseInv, LifecycleInv
<1>2. SUFFICES ASSUME NEW r \in Request, write'[r] = "sent", req'[r].op # "cancel",
                      rows'[req'[r].ctx].calendar # None,
                      NEW d \in Context, event'[d] # None
               PROVE  event'[d] # [calendar |-> rows'[req'[r].ctx].calendar,
                                   start |-> rows'[req'[r].ctx].start]
  BY DEF WritesClear, Slot, Ctx
<1>3. CASE /\ Writes(r) /\ write[r] = "sent"
           /\ req'[r].ctx = req[r].ctx /\ req'[r].op = req[r].op
  <2> DEFINE c == Ctx(r)
  <2>1. c \in Context /\ rows[c].start \in Start /\ Engaged(r) /\ req[r].op # "cancel"
    BY <1>1, <1>3 DEF Writes, LifecycleInv, RequestsHold, WorkExists
  <2>2. rows'[c].calendar = rows[c].calendar /\ rows'[c].start = rows[c].start
    BY <1>1, <2>1, NoneAssumption DEF BindingKept
  <2> SUFFICES event'[d] # Slot(c)
    BY <1>3, <2>2 DEF Slot, Ctx
  <2>3. \A e \in Context : event[e] # None => event[e] # Slot(c)
    BY <1>1, <1>2, <1>3, <2>1, <2>2 DEF WritesClear, Ctx
  <2>5. ASSUME NEW q \in Request, NEW e \in Context, UNCHANGED <<rows, req>>,
               write[q] = "sent", req[q].op # "cancel", WorkExists(q),
               Reaches(q, e, Slot(Ctx(q)))
        PROVE  event'[d] # Slot(c)
    <3>1. q # r
      BY <1>1, <1>2, <2>5, TypeParts DEF Reaches
    <3>2. Ctx(q) # c
      BY <1>1, <1>3, <2>5, <3>1 DEF BaseInv, OneClaimant, Writes, Engaged
    <3>3. Slot(Ctx(q)) # Slot(c)
      <4>1. /\ Is(c, "booking_in_progress") /\ Is(Ctx(q), "booking_in_progress")
            /\ Ctx(q) \in Context
        BY <1>1, <1>3, <2>5 DEF InHand, Writes, Engaged, WorkExists
      <4>2. rows[c].calendar \in Calendar
        BY <1>1, <1>2, <1>3, <2>1, <2>2, TypeParts DEF TypeOK, Row, Ctx
      <4>3. SUFFICES ASSUME rows[Ctx(q)].calendar = rows[c].calendar,
                            rows[Ctx(q)].start = rows[c].start
                     PROVE  FALSE
        BY DEF Slot
      <4> QED
        BY <1>1, <2>1, <3>2, <4>1, <4>2, <4>3 DEF SlotGuard, Holds, SlotOccupying, Is
    <3> QED
      BY <1>1, <1>2, <2>3, <2>5, <3>3, TypeParts DEF Reaches
  <2>6. CASE UNCHANGED event \/ \E e \in Context : event' = [event EXCEPT ![e] = None]
    BY <1>1, <1>2, <2>3, <2>6, TypeParts
  <2> QED
    BY <1>1, <2>5, <2>6, CalendarStep
<1>4. ASSUME BookCreate(r) \/ MoveUpdate(r)
      PROVE  event'[d] # [calendar |-> rows'[req'[r].ctx].calendar,
                          start |-> rows'[req'[r].ctx].start]
  <2> DEFINE c == Ctx(r)
  <2>1. c \in Context /\ Live(r) /\ req'[r].ctx = c /\ UNCHANGED <<rows, event>>
    BY <1>1, <1>4, LiveHolds, TypeParts
       DEF BookCreate, MoveUpdate, At, Live, Send, Goto, Req, Ctx, store, provider
  <2>2. ~BusyAt(rows[c].calendar, rows[c].start)
    <3>1. CASE BookCreate(r)
      <4>1. rows[c].native
        BY <1>1, <1>2, <2>1 DEF BaseInv, Routes, RouteKept
      <4> QED
        BY <3>1, <4>1 DEF BookCreate
    <3>2. CASE MoveUpdate(r)
      <4>1. Original(r) \in Context
        BY <1>1, <3>2, LiveHolds DEF MoveUpdate, At
      <4>2. rows[Original(r)].calendar = rows[c].calendar
        BY <1>1, <2>1, <4>1, NoneAssumption DEF BaseInv, Routes, RouteKept, Original
      <4> QED
        BY <3>2, <4>2 DEF MoveUpdate
    <3> QED
      BY <1>4, <3>1, <3>2
  <2> QED
    BY <2>1, <2>2 DEF BusyAt
<1>5. ASSUME write[r] # "sent"
      PROVE  BookCreate(r) \/ MoveUpdate(r)
  <2>1. PICK q \in Request : RequestStep(q)
    BY <1>1, <1>2, <1>5, AnyStep DEF PassStep, ProviderStep, OfferStep
  <2>2. q = r
    BY <1>2, <1>5, <2>1 DEF RequestStep, MovesOn, Starts
  <2>3. ~\E replies : GotReply(r, replies)
    BY <1>1, <1>2, TypeParts DEF GotReply
  <2>4. ~NoReply(r) /\ ~UNCHANGED write
    BY <1>1, <1>2, <1>5, TypeParts DEF NoReply
  <2>5. ~Crash(r)
    BY <1>1, <1>2, <1>5, TypeParts DEF Crash
  <2>6. ~\E c \in Context : CancelBegin(r, c)
    BY <1>1, <1>2, BeginShape DEF CancelBegin, Pc
  <2> QED
    BY <2>1, <2>2, <2>3, <2>4, <2>5, <2>6
       DEF RequestStep, RequestNext, BookClaim, MoveClaim, BookRecheckFails,
           BookRefused, BookUnverified, BookConfirmed, BookPersistenceFails,
           CancelConfirmed, CancelMismatch, CancelRefused, CancelUnverified,
           MoveBegin, MoveCheckFails, MoveRefused, MoveUnverified, MoveConfirmed,
           MovePersistenceFails, SettleSuccessor
<1>6. ASSUME write[r] = "sent"
      PROVE  Writes(r) /\ req'[r].ctx = req[r].ctx /\ req'[r].op = req[r].op
  <2>1. Writes(r)'
    BY <1>2 DEF Writes, Engaged
  <2>2. ~req'[r].pc \in {"recheck", "begin"}
    BY <1>1, <1>2, NoWriteYetStep DEF BaseInv, NoWriteYet, Beginning
  <2> QED
    BY <1>1, <2>1, <2>2, WritersKept
<1> QED
  BY <1>3, <1>4, <1>5, <1>6

LEMMA NoDoubleStep ==
  ASSUME Timely, DoubleInv, [Next]_vars
  PROVE  NoDoubleBooking'
<1>1. BaseInv /\ LifecycleInv /\ WritesClear /\ NoDoubleBooking
  BY DEF DoubleInv, BaseInv
<1>2. event \in [Context -> Event \cup {None}]
  BY <1>1, TypeParts
<1>3. CASE UNCHANGED event \/ \E e \in Context : event' = [event EXCEPT ![e] = None]
  BY <1>1, <1>2, <1>3 DEF NoDoubleBooking
<1>4. ASSUME NEW r \in Request, NEW e \in Context,
             write[r] = "sent", req[r].op # "cancel", Reaches(r, e, Slot(Ctx(r)))
      PROVE  NoDoubleBooking'
  <2> DEFINE slot == Slot(Ctx(r))
  <2>1. slot.calendar # None =>
          \A d \in Context : event[d] # None => event[d] # slot
    BY <1>1, <1>4 DEF WritesClear, Slot
  <2>2. event' = [event EXCEPT ![e] = slot]
    BY <1>4 DEF Reaches
  <2> HIDE DEF slot
  <2> QED
    BY <1>1, <1>2, <2>1, <2>2 DEF NoDoubleBooking
<1> QED
  BY <1>1, <1>3, <1>4, CalendarStep

LEMMA DoubleStep ==
  ASSUME Timely, DoubleInv, [Next]_vars
  PROVE  DoubleInv'
<1>1. SlotGuard'
  BY LifecycleStoreStep, NextSlotGuard, TypeParts DEF DoubleInv, BaseInv
<1> QED
  BY <1>1, BaseStep, InHandStep, NothingPendingStep, WritesClearStep, NoDoubleStep
     DEF DoubleInv

LEMMA DoubleInit == Init => DoubleInv
<1>1. Init => SlotGuard
  BY DEF Init, StoreInit, SlotGuard, Holds, NoRow, SlotOccupying
<1>2. Init => InHand /\ NothingPending /\ WritesClear /\ NoDoubleBooking
  BY DEF Init, Idle, InHand, Writes, Engaged, Live, NothingPending, At, WritesClear,
         NoDoubleBooking
<1> QED
  BY <1>1, <1>2, BaseInit DEF DoubleInv

(* When a provider write takes effect before the client gives up on it or  *)
(* never, a live request does not outlast STALE_BOOKING_MS, and nobody     *)
(* moves events by hand: whatever the re-check, the store's slot guard and *)
(* the reconciler make of concurrent bookings, moves, cancellations and    *)
(* crashes, no two of GuideHerd's events share a calendar and an instant.  *)
THEOREM NeverDoubleBooked == Timely => (Spec => []NoDoubleBooking)
<1> SUFFICES ASSUME Timely
             PROVE  Spec => []NoDoubleBooking
  OBVIOUS
<1>1. DoubleInv /\ [Next]_vars => DoubleInv'
  BY DoubleStep
<1>2. DoubleInv => NoDoubleBooking
  BY DEF DoubleInv
<1> QED
  BY <1>1, <1>2, DoubleInit, PTL DEF Spec

-----------------------------------------------------------------------------
(* Cancellation: when reschedule tokens are kept apart *)

(* The event of a context exists, or has existed and left a trace. *)
Landed(e) ==
  \/ event[e] # None
  \/ \E c \in Context : rows[c].event = e
  \/ \E k \in Reconciler : /\ rec[k].pc = "resolve" /\ rec[k].seen # None
                           /\ Correlation(rec[k].ctx) = e
  \/ \E r \in Request : /\ Live(r) /\ req[r].op = "book" /\ Ctx(r) = e
                        /\ write[r] = "ok"

(* It is not created again: no create for it is to come or under way.      *)
LandedOnce ==
  \A e \in Context : Landed(e) =>
    /\ Chosen(e)
    /\ \A r \in Request : Engaged(r) /\ req[r].op = "book" /\ Ctx(r) = e =>
         req[r].pc # "recheck" /\ write[r] # "sent"

Gone(c) == rows[c].event # None /\ event[rows[c].event] = None

RowEvent(c) ==
  /\ rows[c].event \in {None, Correlation(c)}
  /\ rows[c].event # None =>
       rows[c].status \notin {"absent", "offered", "booking_in_progress"}
  /\ Is(c, "cancellation_pending") \/ rows[c].reason = "cancellation" =>
       rows[c].event # None
  /\ Is(c, "cancelled") => Gone(c)
  /\ Is(c, "absent") => ~rows[c].native

ReqEvent(r) ==
  /\ Engaged(r) /\ req[r].op = "book" => rows[Ctx(r)].rescheduleOf = None
  /\ Live(r) /\ req[r].op = "cancel" => rows[Ctx(r)].event # None
  /\ Live(r) /\ req[r].op = "cancel" /\ write[r] \in {"ok", "event_not_found"} =>
       Gone(Ctx(r))
  /\ Live(r) /\ req[r].op = "move"
       /\ (write[r] = "ok" \/ (At(r, "settleSuccessor") /\ req[r].verdict = "booked")) =>
       rows[Original(r)].event = Original(r)

PassEvent(k) ==
  /\ \A i \in DOMAIN rec[k].queue :
       rec[k].queue[i][2] = "cancellation" => rows[rec[k].queue[i][1]].event # None
  /\ rec[k].pc = "resolve" => ~Is(rec[k].ctx, "absent")
  /\ rec[k].pc = "resolve" /\ rec[k].why = "cancellation" =>
       /\ rows[rec[k].ctx].event # None
       /\ rec[k].seen = None => Gone(rec[k].ctx)

ToldCancelled == \A c \in Context : told[c] = "cancelled" => Is(c, "cancelled")

CancelInv == /\ BaseInv
             /\ LandedOnce
             /\ \A c \in Context : RowEvent(c)
             /\ \A r \in Request : ReqEvent(r)
             /\ \A k \in Reconciler : PassEvent(k)
             /\ ToldCancelled

(* The facts of the invariant a step starts from. *)
LEMMA CancelParts ==
  ASSUME CancelInv, [Next]_vars
  PROVE  /\ LifecycleInv /\ TypeOK /\ BaseInv /\ LandedOnce
         /\ BindingKept /\ RowsStay /\ SettledKept
         /\ \A c \in Context : RowEvent(c)
         /\ \A r \in Request : ReqEvent(r)
         /\ \A k \in Reconciler : PassEvent(k)
BY LifecycleStoreStep, NextBinding, NextSettled, TypeParts
   DEF CancelInv, BaseInv, LifecycleInv

-----------------------------------------------------------------------------
(* What a step does to a row, as far as cancellation goes *)

(* A row that is given an event is given the one its appointment has; one  *)
(* being cancelled has one, and one cancelled has lost it.                 *)
Fate(c) ==
  /\ \/ rows'[c].event = rows[c].event
     \/ /\ rows[c].event = None
        /\ rows'[c].event = Correlation(c)
        /\ Landed(Correlation(c))
        /\ rows'[c].status \notin {"absent", "offered", "booking_in_progress"}
        /\ rows'[c].rescheduleOf = rows[c].rescheduleOf
  /\ rows'[c].status = "booking_in_progress" =>
       Is(c, "booking_in_progress") \/ Is(c, "offered")
  /\ rows'[c].status = "cancellation_pending" \/ rows'[c].reason = "cancellation" =>
       rows[c].event # None
  /\ rows'[c].status = "cancelled" =>
       rows'[c].event = rows[c].event /\ Gone(c)

LEMMA SameFate ==
  ASSUME NEW c, RowEvent(c), rows'[c].status = rows[c].status,
         rows'[c].event = rows[c].event, rows'[c].reason = rows[c].reason
  PROVE  Fate(c)
BY DEF RowEvent, Fate, Is

LEMMA RequestFate ==
  ASSUME CancelInv, [Next]_vars, NEW r \in Request, RequestStep(r), NEW c \in Context
  PROVE  Fate(c)
<1> USE DEF Is
<1>1. /\ LifecycleInv /\ TypeOK /\ RowEvent(c) /\ ReqEvent(r)
      /\ RequestRows(r)
  BY CancelParts DEF RequestStep
<1>2. CASE rows'[c] = rows[c]
  BY <1>1, <1>2, SameFate
<1>3. CASE ClaimsRow(r)
  <2>1. ASSUME Claims(c)
        PROVE  Fate(c)
    BY <1>1, <2>1 DEF Claims, Fate, RowEvent
  <2> QED
    BY <1>2, <1>3, <2>1 DEF ClaimsRow, OnlyRow
<1>4. CASE BeginsCancelling
  <2>1. ASSUME rows[c].event # None, Updates(c, "cancellation_pending", rows[c].event, "none")
        PROVE  Fate(c)
    BY <2>1 DEF Updates, Fate
  <2> QED
    BY <1>2, <1>4, <2>1 DEF BeginsCancelling, Updates
<1>5. CASE EndsCancelling(r)
  <2>1. PICK st \in {"cancelled", "verification_required", "booked"}, why \in Reason :
          /\ Updates(Ctx(r), st, rows[Ctx(r)].event, why)
          /\ st = "cancelled" => write[r] \in {"ok", "event_not_found"}
    BY <1>5 DEF EndsCancelling
  <2>2. CASE c = Ctx(r)
    <3>1. rows[c].event # None /\ (st = "cancelled" => Gone(c))
      BY <1>1, <1>5, <2>1, <2>2 DEF EndsCancelling, ReqEvent
    <3> QED
      BY <2>1, <2>2, <3>1 DEF Updates, Fate
  <2> QED
    BY <1>2, <2>1, <2>2 DEF Updates
<1>6. CASE MovesOriginal(r)
  <2>1. ASSUME c = Original(r)
        PROVE  Fate(c)
    BY <1>6, <2>1 DEF MovesOriginal, Updates, Fate
  <2> QED
    BY <1>2, <1>6, <2>1 DEF MovesOriginal, Updates
<1>7. CASE Finishes(r)
  <2>1. PICK st \in {"booked", "rejected", "verification_required"},
             ev \in Context \cup {None}, why \in Reason \ {"cancellation"} :
          Updates(Ctx(r), st, ev, why) /\ Earns(r, ev)
    BY <1>7 DEF Finishes
  <2>2. CASE c = Ctx(r)
    <3>1. rows[c].event = None /\ Live(r)
      BY <1>1, <1>7, <2>2 DEF Finishes, RowEvent
    <3>2. \/ ev = None
          \/ ev = Correlation(c) /\ Landed(ev)
      <4>1. CASE ev = None
        BY <4>1
      <4>2. CASE req[r].op = "book" /\ write[r] = "ok" /\ ev = Ctx(r)
        BY <1>1, <2>2, <3>1, <4>2 DEF ReqEvent, Engaged, Correlation, Landed
      <4>3. CASE /\ req[r].op = "move" /\ req[r].pc = "settleSuccessor"
                 /\ req[r].verdict = "booked" /\ ev = rows[Original(r)].event
        <5>1. Original(r) \in Context
          BY <1>1, <4>3, LiveHolds
        <5>2. ev = Original(r) /\ Landed(ev)
          BY <1>1, <3>1, <4>3, <5>1 DEF ReqEvent, At, Landed
        <5> QED
          BY <2>2, <5>1, <5>2, NoneAssumption DEF Correlation, Original
      <4> QED
        BY <2>1, <4>1, <4>2, <4>3 DEF Earns
    <3>3. /\ rows'[c].status = st /\ rows'[c].event = ev /\ rows'[c].reason = why
          /\ rows'[c].rescheduleOf = rows[c].rescheduleOf
      BY <2>1, <2>2 DEF Updates, Bound
    <3> QED
      BY <3>1, <3>2, <3>3 DEF Fate
  <2> QED
    BY <1>2, <2>1, <2>2 DEF Updates
<1> QED
  BY <1>1, <1>2, <1>3, <1>4, <1>5, <1>6, <1>7 DEF RequestRows

LEMMA PassFate ==
  ASSUME CancelInv, [Next]_vars, NEW k \in Reconciler, PassStep(k), NEW c \in Context
  PROVE  Fate(c)
<1> USE DEF Is
<1>1. /\ LifecycleInv /\ TypeOK /\ RowEvent(c) /\ PassEvent(k)
      /\ PassRows(k)
  BY CancelParts DEF PassStep
<1>2. CASE rows'[c] = rows[c]
  BY <1>1, <1>2, SameFate
<1>3. CASE Sweeps
  BY <1>1, <1>2, <1>3 DEF Sweeps, Fate, RowEvent, StaleReason
<1>4. CASE Resolves(k)
  <2>1. PICK st \in {"booked", "rejected", "cancelled"}, ev \in Context \cup {None} :
          /\ Updates(rec[k].ctx, st, ev, "none")
          /\ \/ ev = rows[rec[k].ctx].event
             \/ /\ ev = Correlation(rec[k].ctx) /\ rec[k].seen # None
                /\ st = "booked"
          /\ st = "cancelled" => rec[k].why = "cancellation" /\ rec[k].seen = None
    BY <1>4 DEF Resolves
  <2>2. CASE c = rec[k].ctx
    <3>1. /\ rows'[c].status = st /\ rows'[c].event = ev /\ rows'[c].reason = "none"
          /\ rows'[c].rescheduleOf = rows[c].rescheduleOf
      BY <2>1, <2>2 DEF Updates, Bound
    <3>2. st = "cancelled" => ev = rows[c].event /\ Gone(c)
      BY <1>1, <1>4, <2>1, <2>2 DEF Resolves, PassEvent
    <3>3. \/ ev = rows[c].event
          \/ /\ ev = Correlation(c) /\ Landed(Correlation(c)) /\ st = "booked"
             /\ rows[c].event = None
      BY <1>1, <1>4, <2>1, <2>2 DEF Resolves, Landed, RowEvent
    <3> QED
      BY <3>1, <3>2, <3>3 DEF Fate
  <2> QED
    BY <1>2, <2>1, <2>2 DEF Updates
<1>5. CASE ResolvesOriginal(k)
  <2>1. ASSUME c = rows[rec[k].ctx].rescheduleOf
        PROVE  Fate(c)
    BY <1>5, <2>1 DEF ResolvesOriginal, Updates, Fate
  <2> QED
    BY <1>2, <1>5, <2>1 DEF ResolvesOriginal, Updates
<1> QED
  BY <1>1, <1>2, <1>3, <1>4, <1>5 DEF PassRows

LEMMA OfferFate ==
  ASSUME CancelInv, [Next]_vars, OfferStep, NEW c \in Context
  PROVE  Fate(c)
<1> USE DEF Is
<1>1. RowEvent(c)
  BY CancelParts
<1>2. CASE rows'[c] = rows[c]
  BY <1>1, <1>2, SameFate
<1>3. ASSUME OpensFresh(c) \/ OpensMove(c)
      PROVE  Fate(c)
  BY <1>1, <1>3 DEF OpensFresh, OpensMove, Opens, RowEvent, Fate
<1>4. ASSUME Is(c, "offered"), Updates(c, "expired", rows[c].event, "none")
      PROVE  Fate(c)
  BY <1>4 DEF Updates, Fate
<1>5. ASSUME Ages(c)
      PROVE  Fate(c)
  BY <1>1, <1>5, SameFate DEF Ages
<1> QED
  BY <1>2, <1>3, <1>4, <1>5 DEF OfferStep, OfferRows, OnlyRow, Updates, Ages

LEMMA AnyFate ==
  ASSUME CancelInv, [Next]_vars, NEW c \in Context
  PROVE  Fate(c)
<1>1. RowEvent(c) /\ LifecycleInv
  BY CancelParts
<1>2. UNCHANGED rows => Fate(c)
  BY <1>1, SameFate
<1> QED
  BY <1>1, <1>2, AnyStep, RequestFate, PassFate, OfferFate DEF ProviderStep, store

(* An event a row has been given stays its event. *)
LEMMA EventStays ==
  ASSUME CancelInv, [Next]_vars, NEW c \in Context, rows[c].event # None
  PROVE  rows'[c].event = rows[c].event
BY AnyFate DEF Fate

LEMMA CorrelationStays ==
  ASSUME CancelInv, [Next]_vars, NEW c \in Context, ~Is(c, "absent")
  PROVE  Correlation(c)' = Correlation(c)
BY CancelParts DEF RowsStay, Correlation, Is

(* What is gone stays gone. *)
LEMMA GoneStays ==
  ASSUME CancelInv, [Next]_vars, NEW c \in Context, Gone(c)
  PROVE  Gone(c)'
<1> DEFINE e == rows[c].event
<1>1. e \in Context /\ event[e] = None /\ Landed(e) /\ LandedOnce /\ LifecycleInv
  BY CancelParts DEF Gone, Landed, TypeOK, Row
<1>2. rows'[c].event = e
  BY EventStays DEF Gone
<1> SUFFICES event'[e] = None
  BY <1>1, <1>2 DEF Gone
<1> HIDE DEF e
<1>3. ASSUME ProviderStep
      PROVE  event'[e] = None
  <2>1. ASSUME NEW r \in Request, write[r] = "sent", WorkExists(r), Books(r)
        PROVE  event'[e] = None
    <3>1. Ctx(r) # e
      BY <1>1, <2>1 DEF LandedOnce, Books, Engaged
    <3> QED
      BY <1>1, <2>1, <3>1, TypeParts DEF Books, Reaches
  <2>2. ASSUME NEW r \in Request, Cancels(r) \/ Moves(r) \/ Misses(r) \/ ProviderRefuses(r)
        PROVE  event'[e] = None
    BY <1>1, <2>2, TypeParts DEF Cancels, Moves, Misses, Reaches, ProviderRefuses, provider
  <2>3. Attorney => event'[e] = None
    BY <1>1, TypeParts DEF Attorney
  <2> QED
    BY <1>1, <1>3, <2>1, <2>2, <2>3, ProviderEffect
<1> QED
  BY <1>1, <1>3, AnyStep DEF RequestStep, PassStep, OfferStep

LEMMA RowEventStep ==
  ASSUME CancelInv, [Next]_vars, NEW c \in Context
  PROVE  RowEvent(c)'
<1> USE DEF Is
<1>1. Fate(c) /\ RowEvent(c) /\ RowsStay /\ LifecycleInv
  BY AnyFate, CancelParts
<1>2. rows'[c].event \in {None, Correlation(c)'}
  <2>1. CASE rows[c].event # None
    BY <1>1, <2>1, EventStays, CorrelationStays DEF RowEvent
  <2>2. CASE rows[c].event = None /\ rows'[c].event # None
    BY <1>1, <2>2 DEF Fate, Correlation
  <2> QED
    BY <2>1, <2>2
<1>3. rows'[c].event # None =>
        rows'[c].status \notin {"absent", "offered", "booking_in_progress"}
  BY <1>1 DEF Fate, RowEvent, RowsStay
<1>4. rows'[c].status = "cancellation_pending" \/ rows'[c].reason = "cancellation" =>
        rows'[c].event # None
  BY <1>1, EventStays DEF Fate
<1>5. rows'[c].status = "cancelled" => Gone(c)'
  BY <1>1, GoneStays DEF Fate
<1>6. rows'[c].status = "absent" => ~rows'[c].native
  BY <1>1, FateOfRows
     DEF RowsStay, RowEvent, Keeps, Bound, OpensFresh, OpensMove, Opens, Claims
<1> QED
  BY <1>2, <1>3, <1>4, <1>5, <1>6 DEF RowEvent

(* A request leaves a reply as it is, forgets it, or sends. *)
LEMMA RequestWrites ==
  ASSUME LifecycleInv, NEW r \in Request, RequestNext(r)
  PROVE  \/ write'[r] \in {write[r], "none"}
         \/ /\ write'[r] = "sent"
            /\ \/ At(r, "recheck")
               \/ MoveUpdate(r)
               \/ \E c \in Context : CancelBegin(r, c)
<1> USE TypeParts
<1>1. ASSUME \/ \E replies : GotReply(r, replies)
             \/ NoReply(r)
             \/ UNCHANGED write
      PROVE  write'[r] \in {write[r], "none"}
  BY <1>1 DEF GotReply, NoReply
<1>2. BookCreate(r) \/ MoveUpdate(r) \/ (\E c \in Context : CancelBegin(r, c)) =>
        write'[r] = "sent"
  BY DEF BookCreate, MoveUpdate, CancelBegin, Send
<1>3. Crash(r) => write'[r] \in {write[r], "none"}
  BY DEF Crash
<1>4. BookCreate(r) => At(r, "recheck")
  BY DEF BookCreate
<1>5. \/ \/ \E replies : GotReply(r, replies)
         \/ NoReply(r)
         \/ UNCHANGED write
      \/ BookCreate(r) \/ MoveUpdate(r) \/ (\E c \in Context : CancelBegin(r, c))
      \/ Crash(r)
  BY DEF RequestNext, BookClaim, MoveClaim, BookRecheckFails,
         BookRefused, BookUnverified, BookConfirmed, BookPersistenceFails,
         CancelConfirmed, CancelMismatch, CancelRefused, CancelUnverified,
         MoveBegin, MoveCheckFails, MoveRefused, MoveUnverified, MoveConfirmed,
         MovePersistenceFails, SettleSuccessor
<1> QED
  BY <1>1, <1>2, <1>3, <1>4, <1>5

(* A request that is live goes on, or begins. *)
LEMMA LiveKept ==
  ASSUME LifecycleInv, [Next]_vars, NEW q \in Request, Live(q)'
  PROVE  \/ Live(q) /\ req'[q].ctx = req[q].ctx /\ req'[q].op = req[q].op
         \/ Begins(q)
<1>1. ASSUME NEW r \in Request, RequestStep(r), q # r
      PROVE  req'[q] = req[q]
  BY <1>1 DEF RequestStep, MovesOn, Starts
<1>2. ASSUME RequestStep(q), MovesOn(q)
      PROVE  Live(q) /\ req'[q].ctx = req[q].ctx /\ req'[q].op = req[q].op
  BY <1>2 DEF MovesOn, Live
<1>3. ASSUME RequestStep(q), Starts(q)
      PROVE  Begins(q)
  BY <1>3 DEF Starts
<1>4. \/ \E r \in Request : RequestStep(r)
      \/ UNCHANGED req
  BY AnyStep DEF PassStep, ProviderStep, OfferStep
<1> QED
  BY <1>1, <1>2, <1>3, <1>4 DEF RequestStep, Live

(* What a pass knows it has just read, or kept. *)
LEMMA PassKnows ==
  ASSUME LifecycleInv, [Next]_vars, NEW k \in Reconciler, rec'[k].pc = "resolve"
  PROVE  \/ rec'[k] = rec[k]
         \/ \E c \in Context, why \in Reason : Examine(k, c, why)
<1> USE TypeParts DEF Pass
<1>1. ASSUME NEW j \in Reconciler, PassStep(j), j # k
      PROVE  rec'[k] = rec[k]
  BY <1>1 DEF PassStep, ReconcilerNext, Tick, PassEnds, Leave, PassDies, Examine,
              Resolve, ResolveOriginal, PassRaises
<1>2. ASSUME PassStep(k)
      PROVE  \E c \in Context, why \in Reason : Examine(k, c, why)
  <2>1. ASSUME Tick(k)
        PROVE  FALSE
    BY <2>1 DEF Tick
  <2>2. ASSUME PassEnds(k) \/ PassDies(k) \/ PassRaises(k)
        PROVE  FALSE
    BY <2>2 DEF PassEnds, PassDies, PassRaises, IdlePass
  <2>3. ASSUME Leave(k)
        PROVE  FALSE
    BY <2>3 DEF Leave
  <2>4. ASSUME Resolve(k)
        PROVE  FALSE
    BY <2>4 DEF Resolve
  <2>5. ASSUME ResolveOriginal(k)
        PROVE  FALSE
    BY <2>5 DEF ResolveOriginal
  <2> QED
    BY <1>2, <2>1, <2>2, <2>3, <2>4, <2>5 DEF PassStep, ReconcilerNext
<1> QED
  BY <1>1, <1>2, AnyStep DEF RequestStep, ProviderStep, OfferStep

LEMMA LandedBefore ==
  ASSUME CancelInv, [Next]_vars, NEW e \in Context, Landed(e)'
  PROVE  \/ Landed(e)
         \/ \E r \in Request : /\ write[r] = "sent" /\ WorkExists(r) /\ Books(r)
                               /\ Ctx(r) = e
                               /\ UNCHANGED <<rows, req>>
<1> DEFINE Goal == \/ Landed(e)
                   \/ \E r \in Request : /\ write[r] = "sent" /\ WorkExists(r)
                                         /\ Books(r) /\ Ctx(r) = e
                                         /\ UNCHANGED <<rows, req>>
<1>1. LifecycleInv /\ NoWriteYet /\ RowsStay
  BY CancelParts DEF BaseInv
<1>2. ASSUME event'[e] # None
      PROVE  Goal
  <2>1. ASSUME ProviderStep
        PROVE  Goal
    <3>1. ASSUME NEW r \in Request, write[r] = "sent", WorkExists(r), Books(r)
          PROVE  Goal
      <4>1. CASE Ctx(r) = e
        BY <2>1, <3>1, <4>1 DEF ProviderStep, store
      <4>2. CASE Ctx(r) # e
        BY <1>1, <1>2, <3>1, <4>2, TypeParts DEF Books, Reaches, Landed
      <4> QED
        BY <4>1, <4>2
    <3>2. ASSUME NEW r \in Request,
                 Cancels(r) \/ Moves(r) \/ Misses(r) \/ ProviderRefuses(r)
          PROVE  event[e] # None
      BY <1>1, <1>2, <3>2, TypeParts
         DEF Cancels, Moves, Misses, Reaches, ProviderRefuses, provider
    <3>3. Attorney => event[e] # None
      BY <1>1, <1>2, TypeParts DEF Attorney
    <3> QED
      BY <1>1, <2>1, <3>1, <3>2, <3>3, ProviderEffect DEF Landed
  <2> QED
    BY <1>1, <1>2, <2>1, AnyStep DEF RequestStep, PassStep, OfferStep, Landed
<1>3. ASSUME NEW c \in Context, rows'[c].event = e
      PROVE  Landed(e)
  <2>1. rows[c].event = e \/ (Landed(Correlation(c)) /\ Correlation(c) = e)
    BY <1>3, AnyFate DEF Fate
  <2> QED
    BY <2>1 DEF Landed
<1>4. ASSUME NEW k \in Reconciler, rec'[k].pc = "resolve", rec'[k].seen # None,
             Correlation(rec[k].ctx)' = e
      PROVE  Landed(e)
  <2>1. CASE rec'[k] = rec[k]
    <3>1. rec[k].ctx \in Context /\ ~Is(rec[k].ctx, "absent")
      BY <1>1, <1>4, <2>1, CancelParts DEF PassEvent, LifecycleInv, PassesHold
    <3>2. Correlation(rec[k].ctx) = e
      BY <1>4, <2>1, <3>1, CorrelationStays DEF Correlation
    <3> QED
      BY <1>4, <2>1, <3>2 DEF Landed
  <2>2. ASSUME NEW c \in Context, NEW why \in Reason, Examine(k, c, why)
        PROVE  Landed(e)
    <3>1. rec'[k].ctx = c /\ rec'[k].seen = Evidence(c) /\ UNCHANGED rows
      BY <1>1, <2>2, TypeParts DEF Examine, store
    <3>2. Correlation(c) = e
      BY <1>4, <3>1 DEF Correlation
    <3> QED
      BY <1>4, <3>1, <3>2 DEF Evidence, Landed
  <2> QED
    BY <1>1, <1>4, <2>1, <2>2, PassKnows
<1>5. ASSUME NEW r \in Request, Live(r)', req'[r].op = "book", req'[r].ctx = e,
             write'[r] = "ok"
      PROVE  Goal
  <2>1. ASSUME NEW q \in Request, RequestStep(q)
        PROVE  Landed(e)
    <3>1. write[r] = "ok"
      BY <1>1, <1>5, <2>1, RequestWrites DEF RequestStep, MovesOn, Starts
    <3>2. ~Begins(r)
      BY <1>1, <3>1 DEF Begins, CancelBegin, BookClaim, MoveClaim, Begin, At,
                        NoWriteYet, Beginning
    <3> QED
      BY <1>1, <1>5, <3>1, <3>2, LiveKept DEF Landed, Ctx
  <2>2. ASSUME ProviderStep
        PROVE  Goal
    <3>1. CASE write[r] = "ok"
      BY <1>5, <2>2, <3>1 DEF ProviderStep, Live, Ctx, Landed
    <3>2. CASE write[r] # "ok"
      <4>1. PICK q \in Request : /\ write[q] = "sent" /\ WorkExists(q)
                                 /\ Books(q) \/ Cancels(q) \/ Moves(q) \/ Misses(q)
        BY <1>1, <1>5, <2>2, <3>2, ProviderEffect, TypeParts
           DEF ProviderRefuses, Attorney
      <4>2. q = r /\ ~Misses(q)
        BY <1>1, <1>5, <3>2, <4>1, TypeParts
           DEF Books, Cancels, Moves, Misses, Reaches
      <4>3. req[r].op = "book" /\ Ctx(r) = e
        BY <1>5, <2>2 DEF ProviderStep, Ctx
      <4>4. Books(r)
        BY <4>1, <4>2, <4>3 DEF Cancels, Moves
      <4> QED
        BY <2>2, <4>1, <4>2, <4>3, <4>4 DEF ProviderStep, store
    <3> QED
      BY <3>1, <3>2
  <2>3. CASE UNCHANGED <<req, write>>
    BY <1>5, <2>3 DEF Live, Ctx, Landed
  <2> QED
    BY <1>1, <2>1, <2>2, <2>3, AnyStep DEF PassStep, OfferStep
<1> QED
  BY <1>2, <1>3, <1>4, <1>5 DEF Landed, Live, Ctx

LEMMA LandedOnceStep ==
  ASSUME CancelInv, [Next]_vars
  PROVE  LandedOnce'
<1>1. /\ LifecycleInv /\ LandedOnce /\ OneClaimant /\ NoWriteYet /\ BindingKept
      /\ Unchosen
  BY CancelParts DEF BaseInv, LifecycleInv
<1>2. NoWriteYet'
  BY <1>1, NoWriteYetStep
<1>3. SUFFICES ASSUME NEW e \in Context, Landed(e)'
               PROVE  /\ Chosen(e)'
                      /\ \A r \in Request :
                           Engaged(r)' /\ req'[r].op = "book" /\ req'[r].ctx = e =>
                             req'[r].pc # "recheck" /\ write'[r] # "sent"
  BY DEF LandedOnce, Ctx
<1>4. CASE Landed(e)
  <2>1. Chosen(e) /\ ~Is(e, "offered")
    BY <1>1, <1>4 DEF LandedOnce, Unchosen, Chosen
  <2>2. ASSUME NEW r \in Request, Engaged(r)', req'[r].op = "book", req'[r].ctx = e
        PROVE  req'[r].pc # "recheck" /\ write'[r] # "sent"
    <3>1. /\ Writes(r) /\ req[r].ctx = e /\ req[r].op = "book"
      BY <1>1, <2>1, <2>2, WritersKept DEF Writes, Engaged, Live
    <3>2. req[r].pc # "recheck" /\ write[r] # "sent"
      BY <1>1, <1>4, <3>1 DEF LandedOnce, Writes, Ctx
    <3>3. ASSUME NEW q \in Request, RequestStep(q)
          PROVE  req'[r].pc # "recheck" /\ write'[r] # "sent"
      <4>1. CASE q # r
        BY <3>2, <3>3, <4>1 DEF RequestStep, MovesOn, Starts
      <4>2. CASE q = r
        <5>1. req'[r].pc # "recheck"
          <6>1. ~Begins(r)
            <7>1. SUFFICES ASSUME Begins(r)
                           PROVE  FALSE
              OBVIOUS
            <7>2. req[r].pc = "idle"
              BY <7>1 DEF Begins, CancelBegin, BookClaim, MoveClaim, Begin, At
            <7>3. ~Engaged(r)
              BY <1>1, <7>2 DEF NoWriteYet, Beginning, Engaged, Live
            <7> QED
              BY <3>1, <7>3 DEF Writes
          <6> QED
            BY <3>3, <4>2, <6>1 DEF RequestStep, Starts, MovesOn
        <5>2. write'[r] # "sent"
          <6>1. ~MoveUpdate(r)
            BY <1>1, <3>1 DEF MoveUpdate, At, LifecycleInv, PcMatches, Live, OperationOf
          <6>2. ~\E c \in Context : CancelBegin(r, c)
            BY <1>1, <3>1 DEF CancelBegin, Begin, At, Writes, Engaged, Live, NoWriteYet,
                              Beginning
          <6> QED
            BY <1>1, <3>2, <3>3, <4>2, <6>1, <6>2, RequestWrites DEF RequestStep, At
        <5> QED
          BY <5>1, <5>2
      <4> QED
        BY <4>1, <4>2
    <3> QED
      BY <1>1, <3>2, <3>3, AnyStep DEF PassStep, ProviderStep, OfferStep
  <2> QED
    BY <1>1, <2>1, <2>2 DEF BindingKept, Chosen
<1>5. ASSUME NEW q \in Request, write[q] = "sent", WorkExists(q), Books(q), Ctx(q) = e,
             UNCHANGED <<rows, req>>
      PROVE  /\ Chosen(e)'
             /\ \A r \in Request :
                  Engaged(r)' /\ req'[r].op = "book" /\ req'[r].ctx = e =>
                    req'[r].pc # "recheck" /\ write'[r] # "sent"
  <2>1. req[q].op = "book" /\ Chosen(e)
    BY <1>5, NoneAssumption DEF Books, WorkExists, Chosen
  <2>2. write'[q] = "ok" /\ \A r \in Request \ {q} : write'[r] = write[r]
    BY <1>1, <1>5, TypeParts DEF Books, Reaches
  <2>3. ASSUME NEW r \in Request, Engaged(r)', req'[r].op = "book", req'[r].ctx = e
        PROVE  r = q
    <3>1. Writes(r) /\ Ctx(r) = e
      BY <1>5, <2>2, <2>3 DEF Writes, Engaged, Live, Ctx
    <3> QED
      BY <1>1, <1>5, <2>1, <3>1 DEF OneClaimant, Writes, Engaged
  <2>4. req'[q].pc # "recheck"
    BY <1>2, <2>2 DEF NoWriteYet, Beginning
  <2> QED
    BY <1>5, <2>1, <2>2, <2>3, <2>4 DEF Chosen
<1> QED
  BY <1>3, <1>4, <1>5, LandedBefore

(* What Gone says of a context after a step. *)
GoneNow(c) == rows'[c].event # None /\ event'[rows'[c].event] = None

LEMMA GoneStaysNow ==
  ASSUME CancelInv, [Next]_vars, NEW c \in Context, Gone(c)
  PROVE  GoneNow(c)
BY GoneStays DEF Gone, GoneNow

LEMMA ReqEventStep ==
  ASSUME TokensKeptApart, CancelInv, [Next]_vars, NEW r \in Request
  PROVE  ReqEvent(r)'
<1>1. /\ LifecycleInv /\ NoWriteYet /\ RowsStay /\ ReqEvent(r) /\ TypeOK
      /\ \A c \in Context : RowEvent(c)
  BY CancelParts DEF BaseInv
<1>2. NoWriteYet'
  BY <1>1, NoWriteYetStep
<1>3. ASSUME Engaged(r)', req'[r].op = "book"
      PROVE  rows'[req'[r].ctx].rescheduleOf = None
  <2>1. CASE Writes(r) /\ req'[r].ctx = req[r].ctx /\ req'[r].op = req[r].op
    <3>1. WorkExists(r) /\ rows[Ctx(r)].rescheduleOf = None
      BY <1>1, <1>3, <2>1 DEF Writes, LifecycleInv, RequestsHold, ReqEvent
    <3> QED
      BY <1>1, <2>1, <3>1 DEF WorkExists, RowsStay, Ctx, Is
  <2>2. CASE RequestStep(r) /\ req'[r].pc \in {"recheck", "begin"}
    <3>1. PICK c \in Context, s \in Start : BookClaim(r, c, s) \/ MoveClaim(r, c, s)
      BY <1>1, <2>2, BeginningSteps DEF Beginning, RequestStep
    <3>2. BookClaim(r, c, s) /\ req'[r].ctx = c
      BY <1>1, <1>3, <3>1, BeginShape DEF BookClaim, MoveClaim, Pc
    <3>3. rows[c].rescheduleOf = None /\ Claims(c)
      BY <1>1, <3>2, ClaimClaims DEF BookClaim
    <3> QED
      BY <3>2, <3>3 DEF Claims
  <2> QED
    BY <1>1, <1>3, <2>1, <2>2, WritersKept DEF Writes
<1>4. ASSUME Live(r)', req'[r].op = "cancel"
      PROVE  /\ rows'[req'[r].ctx].event # None
             /\ write'[r] \in {"ok", "event_not_found"} => GoneNow(req'[r].ctx)
  <2>1. CASE Live(r) /\ req'[r].ctx = req[r].ctx /\ req'[r].op = req[r].op
    <3> DEFINE c == req[r].ctx
    <3>1. c \in Context /\ rows[c].event # None
      BY <1>1, <1>4, <2>1
         DEF LifecycleInv, RequestsHold, WorkExists, Engaged, ReqEvent, Ctx
    <3>2. rows'[c].event = rows[c].event
      BY <3>1, EventStays
    <3>3. ASSUME write[r] \in {"ok", "event_not_found"}
          PROVE  GoneNow(c)
      BY <1>1, <1>4, <2>1, <3>1, <3>3, GoneStaysNow DEF ReqEvent, Ctx
    <3>4. ASSUME ProviderStep, write[r] \notin {"ok", "event_not_found"},
                 write'[r] \in {"ok", "event_not_found"}
          PROVE  GoneNow(c)
      <4>1. PICK q \in Request : /\ write[q] = "sent" /\ WorkExists(q)
                                 /\ Books(q) \/ Cancels(q) \/ Moves(q) \/ Misses(q)
        BY <1>1, <3>4, ProviderEffect, TypeParts DEF ProviderRefuses, Attorney
      <4>2. q = r
        BY <1>1, <3>4, <4>1, TypeParts DEF Books, Cancels, Moves, Misses, Reaches
      <4>3. req[r].op = "cancel" /\ UNCHANGED rows
        BY <1>4, <2>1, <3>4 DEF ProviderStep, store
      <4>4. CASE Cancels(r)
        BY <1>1, <3>1, <3>2, <4>3, <4>4, TypeParts DEF Cancels, Reaches, GoneNow, Ctx
      <4>5. CASE Misses(r)
        BY <1>1, <3>1, <3>2, <3>4, <4>3, <4>5, TypeParts DEF Misses, GoneNow, Ctx
      <4> QED
        BY <4>1, <4>2, <4>3, <4>4, <4>5 DEF Books, Moves
    <3>5. ASSUME write[r] \notin {"ok", "event_not_found"},
                 write'[r] \in {"ok", "event_not_found"}
          PROVE  ProviderStep
      <4>1. ASSUME NEW q \in Request, RequestStep(q)
            PROVE  FALSE
        BY <1>1, <3>5, <4>1, RequestWrites DEF RequestStep, MovesOn, Starts
      <4> QED
        BY <1>1, <3>5, <4>1, AnyStep DEF PassStep, OfferStep
    <3> QED
      BY <2>1, <3>1, <3>2, <3>3, <3>4, <3>5
  <2>2. CASE Begins(r)
    <3>1. PICK c \in Context : CancelBegin(r, c)
      BY <1>1, <1>4, <2>2, BeginShape DEF Begins, BookClaim, MoveClaim, Pc
    <3>2. req'[r].ctx = c /\ write'[r] = "sent" /\ rows[c].event # None
      BY <1>1, <3>1, BeginShape, TypeParts DEF CancelBegin, Pc
    <3>3. rows'[c].event = rows[c].event
      BY <3>2, EventStays
    <3> QED
      BY <3>2, <3>3
  <2> QED
    BY <1>1, <1>4, <2>1, <2>2, LiveKept
<1>5. ASSUME Live(r)', req'[r].op = "move",
             \/ write'[r] = "ok"
             \/ req'[r].pc = "settleSuccessor" /\ req'[r].verdict = "booked"
      PROVE  rows'[Original(r)'].event = Original(r)'
  <2>1. CASE Live(r) /\ req'[r].ctx = req[r].ctx /\ req'[r].op = req[r].op
    <3> DEFINE o == Original(r)
    <3>1. WorkExists(r) /\ req[r].op = "move"
      BY <1>1, <1>5, <2>1 DEF LifecycleInv, RequestsHold, Engaged
    <3>2. o \in Context /\ Original(r)' = o
      BY <1>1, <2>1, <3>1 DEF WorkExists, RowsStay, Original, Ctx, Is
    <3>3. ASSUME rows[o].event = o
          PROVE  rows'[o].event = o
      BY <3>2, <3>3, EventStays, NoneAssumption
    <3>4. ASSUME ProviderStep, write[r] # "ok", write'[r] = "ok"
          PROVE  rows[o].event = o
      <4>1. PICK q \in Request : /\ write[q] = "sent" /\ WorkExists(q)
                                 /\ Books(q) \/ Cancels(q) \/ Moves(q) \/ Misses(q)
        BY <1>1, <3>4, ProviderEffect, TypeParts DEF ProviderRefuses, Attorney
      <4>2. q = r
        BY <1>1, <3>4, <4>1, TypeParts DEF Books, Cancels, Moves, Misses, Reaches
      <4>3. ~Misses(r)
        BY <1>1, <3>4, TypeParts DEF Misses
      <4> QED
        BY <3>1, <4>1, <4>2, <4>3 DEF Books, Cancels, Moves
    <3>5. ASSUME NEW q \in Request, RequestStep(q)
          PROVE  rows[o].event = o
      <4>1. CASE write'[r] = "ok"
        <5>1. write[r] = "ok"
          BY <1>1, <3>5, <4>1, RequestWrites DEF RequestStep, MovesOn, Starts
        <5> QED
          BY <1>1, <2>1, <3>1, <5>1 DEF ReqEvent
      <4>2. CASE req'[r].pc = "settleSuccessor" /\ req'[r].verdict = "booked"
        <5>1. CASE q # r
          <6>1. req'[r] = req[r]
            BY <3>5, <5>1 DEF RequestStep, MovesOn, Starts
          <6> QED
            BY <1>1, <2>1, <3>1, <4>2, <6>1 DEF ReqEvent, At
        <5>2. CASE q = r
          <6>1. \/ MoveCheckFails(r) \/ MoveRefused(r) \/ MoveUnverified(r)
                \/ MoveConfirmed(r) \/ MovePersistenceFails(r)
            BY <1>1, <3>5, <4>2, <5>2, SettlingSteps DEF RequestStep
          <6>2. ~MoveCheckFails(r) /\ ~MoveRefused(r)
            BY <1>1, <4>2, TypeParts DEF MoveCheckFails, MoveRefused, Settle, Req
          <6>3. ~MoveUnverified(r)
            BY <1>1, <4>2, TypeParts DEF MoveUnverified, Settle, Req
          <6>4. ~MovePersistenceFails(r)
            BY <1>1, <4>2, TypeParts DEF MovePersistenceFails, Settle, Req
          <6>5. write[r] = "ok"
            BY <6>1, <6>2, <6>3, <6>4 DEF MoveConfirmed, GotReply
          <6> QED
            BY <1>1, <2>1, <3>1, <6>5 DEF ReqEvent
        <5> QED
          BY <5>1, <5>2
      <4> QED
        BY <1>5, <4>1, <4>2
    <3>6. ASSUME UNCHANGED req, write'[r] = "ok" => write[r] = "ok"
          PROVE  rows[o].event = o
      BY <1>1, <1>5, <2>1, <3>1, <3>6 DEF ReqEvent, At
    <3> HIDE DEF o
    <3> QED
      BY <1>1, <3>2, <3>3, <3>4, <3>5, <3>6, AnyStep DEF PassStep, OfferStep, ProviderStep
  <2>2. CASE Begins(r)
    <3>1. req'[r].pc \in {"recheck", "begin", "cancelling"} /\ req'[r].op = "move"
      BY <1>1, <1>5, <2>2, BeginShape DEF Begins, BookClaim, MoveClaim, CancelBegin, Pc
    <3>2. req'[r].pc = "begin"
      BY <1>1, <1>5, <2>2, BeginShape DEF Begins, BookClaim, MoveClaim, CancelBegin, Pc
    <3> QED
      BY <1>2, <1>5, <3>2 DEF NoWriteYet, Beginning
  <2> QED
    BY <1>1, <1>5, <2>1, <2>2, LiveKept
<1> QED
  BY <1>3, <1>4, <1>5 DEF ReqEvent, At, Ctx, Gone, GoneNow

(* What a pass has queued it has listed now or before. *)
LEMMA QueueKept ==
  ASSUME LifecycleInv, [Next]_vars, NEW k \in Reconciler, NEW i \in DOMAIN rec'[k].queue
  PROVE  \/ \E j \in DOMAIN rec[k].queue : rec'[k].queue[i] = rec[k].queue[j]
         \/ \E j \in DOMAIN parked' : LET x == parked'[j] IN
              x \in Context /\ rec'[k].queue[i] = <<x, rows'[x].reason>>
<1> USE TypeParts
<1> DEFINE Stays == \E j \in DOMAIN rec[k].queue : rec'[k].queue[i] = rec[k].queue[j]
<1>1. rec'[k].queue = rec[k].queue => Stays
  OBVIOUS
<1>2. ASSUME rec[k].queue # <<>>, rec'[k].queue = Tail(rec[k].queue)
      PROVE  Stays
  <2>1. rec[k].queue \in Seq(Context \X Reason)
    BY DEF Pass
  <2>2. /\ Len(rec[k].queue) \in Nat
        /\ Len(Tail(rec[k].queue)) = Len(rec[k].queue) - 1
        /\ DOMAIN rec[k].queue = 1 .. Len(rec[k].queue)
        /\ DOMAIN Tail(rec[k].queue) = 1 .. Len(Tail(rec[k].queue))
        /\ \A n \in 1 .. Len(Tail(rec[k].queue)) :
             Tail(rec[k].queue)[n] = rec[k].queue[n + 1]
    BY <1>2, <2>1, HeadTailProperties, LenProperties
  <2>3. i + 1 \in DOMAIN rec[k].queue /\ rec'[k].queue[i] = rec[k].queue[i + 1]
    BY <1>2, <2>2
  <2> QED
    BY <2>3
<1>3. rec'[k].queue # <<>>
  BY EmptySeq
<1>4. ASSUME NEW j \in Reconciler, PassStep(j), j # k
      PROVE  rec'[k] = rec[k]
  BY <1>4 DEF PassStep, ReconcilerNext, Tick, PassEnds, Leave, PassDies, Examine,
              Resolve, ResolveOriginal, PassRaises
<1>5. ASSUME PassStep(k), ~Tick(k)
      PROVE  Stays
  <2>1. ASSUME PassEnds(k) \/ PassDies(k) \/ PassRaises(k)
        PROVE  FALSE
    BY <1>3, <2>1 DEF PassEnds, PassDies, PassRaises, IdlePass
  <2>2. ASSUME Leave(k)
        PROVE  Stays
    BY <1>2, <2>2 DEF Leave, Pass
  <2>3. ASSUME NEW c \in Context, NEW why \in Reason, Examine(k, c, why)
        PROVE  Stays
    BY <1>2, <2>3 DEF Examine, Pass
  <2>4. ASSUME Resolve(k) \/ ResolveOriginal(k)
        PROVE  rec'[k].queue = rec[k].queue
    BY <2>4 DEF Resolve, ResolveOriginal, Pass
  <2> QED
    BY <1>1, <1>5, <2>1, <2>2, <2>3, <2>4 DEF PassStep, ReconcilerNext
<1>6. ASSUME Tick(k)
      PROVE  \E j \in DOMAIN parked' : LET x == parked'[j] IN
               x \in Context /\ rec'[k].queue[i] = <<x, rows'[x].reason>>
  <2> DEFINE n == IF Len(parked') < Limit THEN Len(parked') ELSE Limit
             queue == [m \in 1 .. n |-> <<parked'[m], rows'[parked'[m]].reason>>]
             pass == [[rec[k] EXCEPT !.pc = "next"] EXCEPT !.queue = queue]
  <2>1. rec' = [rec EXCEPT ![k] = pass]
    BY <1>6 DEF Tick, Pass
  <2>2. pass.queue = queue
    BY DEF Pass
  <2> HIDE DEF queue, pass
  <2>3. rec'[k].queue = queue
    BY <2>1, <2>2
  <2>4. parked' \in Seq(Context)
    BY NextInv DEF LifecycleInv, LifecycleTypeOK, TypeOK
  <2>5. n \in Nat /\ n <= Len(parked') /\ DOMAIN parked' = 1 .. Len(parked')
    BY <2>4, LenProperties, LifecycleAssumption
  <2> HIDE DEF n
  <2>6. i \in 1 .. n
    BY <2>3 DEF queue
  <2>7. parked'[i] \in Context /\ i \in DOMAIN parked'
    BY <2>4, <2>5, <2>6, ElementOfSeq
  <2> QED
    BY <2>3, <2>6, <2>7 DEF queue
<1> QED
  BY <1>1, <1>4, <1>5, <1>6, AnyStep DEF RequestStep, ProviderStep, OfferStep

LEMMA PassEventStep ==
  ASSUME CancelInv, [Next]_vars, NEW k \in Reconciler
  PROVE  PassEvent(k)'
<1>1. /\ LifecycleInv /\ TypeOK /\ RowsStay /\ PassEvent(k) /\ EventPlaced /\ Routes
      /\ \A c \in Context : RowEvent(c)
  BY CancelParts DEF BaseInv
<1>2. ASSUME NEW i \in DOMAIN rec'[k].queue, rec'[k].queue[i][2] = "cancellation"
      PROVE  rows'[rec'[k].queue[i][1]].event # None
  <2>1. ASSUME NEW x \in Context, rec'[k].queue[i] = <<x, rows'[x].reason>>
        PROVE  rows'[x].event # None
    <3>1. RowEvent(x)' /\ rows'[x].reason = "cancellation"
      BY <1>2, <2>1, RowEventStep
    <3> QED
      BY <3>1 DEF RowEvent
  <2>2. ASSUME NEW j \in DOMAIN rec[k].queue, rec'[k].queue[i] = rec[k].queue[j]
        PROVE  rows'[rec'[k].queue[i][1]].event # None
    <3>1. rec[k].queue[j] \in Context \X Reason
      BY <1>1, TypeParts, ElementOfSeq, LenProperties DEF Pass
    <3> QED
      BY <1>1, <1>2, <2>2, <3>1, EventStays DEF PassEvent
  <2> QED
    BY <1>1, <2>1, <2>2, QueueKept
<1>3. ASSUME rec'[k].pc = "resolve"
      PROVE  /\ rows'[rec'[k].ctx].status # "absent"
             /\ rec'[k].why = "cancellation" =>
                  /\ rows'[rec'[k].ctx].event # None
                  /\ rec'[k].seen = None => GoneNow(rec'[k].ctx)
  <2>1. CASE rec'[k] = rec[k]
    <3>1. rec[k].ctx \in Context
      BY <1>1, <1>3, <2>1 DEF LifecycleInv, PassesHold
    <3> QED
      BY <1>1, <1>3, <2>1, <3>1, EventStays, GoneStaysNow DEF PassEvent, RowsStay, Is
  <2>2. ASSUME NEW c \in Context, NEW why \in Reason, Examine(k, c, why)
        PROVE  /\ rows'[rec'[k].ctx].status # "absent"
               /\ rec'[k].why = "cancellation" =>
                    /\ rows'[rec'[k].ctx].event # None
                    /\ rec'[k].seen = None => GoneNow(rec'[k].ctx)
    <3>1. /\ rec'[k].ctx = c /\ rec'[k].why = why /\ rec'[k].seen = Evidence(c)
          /\ UNCHANGED <<rows, event>> /\ rows[c].native
      BY <1>1, <2>2, TypeParts DEF Examine, store, provider
    <3>2. ~Is(c, "absent")
      BY <1>1, <3>1 DEF RowEvent
    <3>3. ASSUME why = "cancellation"
          PROVE  rows[c].event # None
      <4>1. rec[k].queue \in Seq(Context \X Reason) /\ rec[k].queue # <<>>
        BY <1>1, <2>2, TypeParts DEF Examine, Pass
      <4>2. 1 \in DOMAIN rec[k].queue /\ rec[k].queue[1] = <<c, why>>
        BY <2>2, <4>1, HeadTailProperties, LenProperties, EmptySeq DEF Examine
      <4> QED
        BY <1>1, <3>3, <4>2 DEF PassEvent
    <3>4. ASSUME rows[c].event # None, Evidence(c) = None
          PROVE  Gone(c)
      <4> DEFINE e == Correlation(c)
      <4>1. rows[c].event = e /\ e \in Context
        BY <1>1, <3>4 DEF RowEvent, Correlation, TypeOK, Row
      <4>2. SUFFICES ASSUME event[e] # None
                     PROVE  FALSE
        BY <3>4, <4>1 DEF Gone
      <4>3. event[e] \in Event
        BY <1>1, <4>1, <4>2, TypeParts
      <4>4. event[e].calendar = rows[c].calendar
        <5>1. event[e].calendar = rows[e].calendar
          BY <1>1, <4>1, <4>2 DEF EventPlaced
        <5>2. rows[e].calendar = rows[c].calendar
          BY <1>1 DEF Routes, RouteKept, Correlation
        <5> QED
          BY <5>1, <5>2
      <4>5. event[e].start # None
        BY <4>3, NoneAssumption DEF Event
      <4> QED
        BY <3>4, <4>2, <4>4, <4>5 DEF Evidence
    <3>5. Gone(c) => GoneNow(c)
      BY GoneStaysNow
    <3> QED
      BY <3>1, <3>2, <3>3, <3>4, <3>5 DEF Is
  <2> QED
    BY <1>1, <1>3, <2>1, <2>2, PassKnows
<1> QED
  BY <1>2, <1>3 DEF PassEvent, Is, Gone, GoneNow

LEMMA ToldStep ==
  ASSUME CancelInv, [Next]_vars
  PROVE  ToldCancelled'
<1>1. LifecycleInv /\ TypeOK /\ SettledKept /\ ToldCancelled
  BY CancelParts DEF CancelInv
<1>2. SUFFICES ASSUME NEW c \in Context, told'[c] = "cancelled"
               PROVE  rows'[c].status = "cancelled"
  BY DEF ToldCancelled, Is
<1>3. CASE Is(c, "cancelled")
  BY <1>1, <1>3 DEF SettledKept, Is, Terminal
<1>4. ASSUME told[c] # "cancelled", NEW r \in Request, RequestNext(r)
      PROVE  rows'[c].status = "cancelled"
  <2>1. ASSUME NEW outcome, Answer(r, outcome)
        PROVE  c = Ctx(r) /\ outcome = "cancelled"
    BY <1>1, <1>2, <1>4, <2>1, TypeParts DEF Answer
  <2>2. ASSUME NEW st, NEW why \in Reason, NEW outcome,
               CancelSettle(r, st, why, outcome), outcome = "cancelled" => st = "cancelled"
        PROVE  rows'[c].status = "cancelled"
    <3>1. CASE CompleteCancellation(Ctx(r), st, why) /\ Answer(r, outcome)
      <4>1. c = Ctx(r) /\ st = "cancelled"
        BY <2>1, <2>2, <3>1
      <4>2. "cancelled" \in Status
        BY StatusHas
      <4>3. Updates(c, "cancelled", rows[c].event, Kept("cancelled", why))
        BY <1>1, <3>1, <4>1, <4>2, CompletionUpdates
      <4> QED
        BY <4>3 DEF Updates
    <3>2. CASE Answer(r, IF Is(Ctx(r), "cancelled") THEN "cancelled"
                                                  ELSE "verification_required")
      <4>1. c = Ctx(r) /\ Is(c, "cancelled")
        BY <2>1, <3>2
      <4> QED
        BY <1>3, <4>1
    <3> QED
      BY <2>2, <3>1, <3>2 DEF CancelSettle
  <2>3. ASSUME CancelConfirmed(r) \/ CancelMismatch(r) \/ CancelRefused(r)
                 \/ CancelUnverified(r)
        PROVE  rows'[c].status = "cancelled"
    BY <2>2, <2>3, StatusHas
       DEF CancelConfirmed, CancelMismatch, CancelRefused, CancelUnverified
  <2>4. ~SettleSuccessor(r)
    <3>1. req[r].pc = "settleSuccessor" => req[r].verdict \in Verdict
      BY <1>1 DEF LifecycleInv, PcMatches
    <3>2. SUFFICES ASSUME SettleSuccessor(r)
                   PROVE  FALSE
      OBVIOUS
    <3> QED
      BY <2>1, <3>1, <3>2 DEF SettleSuccessor, At, Verdict
  <2>5. UNCHANGED told => FALSE
    BY <1>2, <1>4
  <2>6. ~BookRecheckFails(r) /\ ~BookRefused(r) /\ ~BookUnverified(r)
    BY <2>1 DEF BookRecheckFails, BookRefused, BookUnverified
  <2>7. ~BookConfirmed(r) /\ ~BookPersistenceFails(r) /\ ~MoveBegin(r)
    BY <2>1, <2>5 DEF BookConfirmed, BookPersistenceFails, MoveBegin
  <2>8. \/ CancelConfirmed(r) \/ CancelMismatch(r) \/ CancelRefused(r)
        \/ CancelUnverified(r) \/ UNCHANGED told
    BY <1>4, <2>4, <2>6, <2>7
       DEF RequestNext, BookClaim, MoveClaim, CancelBegin, BookCreate, MoveCheckFails,
           MoveUpdate, MoveRefused, MoveUnverified, MoveConfirmed,
           MovePersistenceFails, Crash
  <2> QED
    BY <2>3, <2>5, <2>8
<1>5. CASE told[c] = "cancelled"
  BY <1>1, <1>3, <1>5 DEF ToldCancelled
<1>6. CASE UNCHANGED told
  BY <1>2, <1>5, <1>6
<1> QED
  BY <1>1, <1>4, <1>5, <1>6, AnyStep DEF RequestStep, PassStep, ProviderStep, OfferStep

LEMMA CancelStep ==
  ASSUME TokensKeptApart, CancelInv, [Next]_vars
  PROVE  CancelInv'
BY BaseStep, LandedOnceStep, RowEventStep, ReqEventStep, PassEventStep, ToldStep
   DEF CancelInv

LEMMA CancelInit == Init => CancelInv
<1> SUFFICES ASSUME Init
             PROVE  CancelInv
  OBVIOUS
<1>1. \A r \in Request : ~Engaged(r) /\ ~Live(r)
  BY DEF Init, Idle, Engaged, Live
<1>2. \A c \in Context : rows[c] = NoRow /\ event[c] = None /\ told[c] = "nothing"
  BY DEF Init, StoreInit
<1>3. \A k \in Reconciler : rec[k].pc = "idle" /\ rec[k].queue = <<>>
  BY DEF Init, IdlePass
<1>4. DOMAIN <<>> = {}
  BY EmptySeq
<1>5. LandedOnce
  BY <1>1, <1>2, <1>3, NoneAssumption DEF LandedOnce, Landed, NoRow
<1>6. \A c \in Context : RowEvent(c)
  BY <1>2 DEF RowEvent, NoRow, Is
<1>7. \A r \in Request : ReqEvent(r)
  BY <1>1 DEF ReqEvent
<1>8. \A k \in Reconciler : PassEvent(k)
  BY <1>3, <1>4 DEF PassEvent
<1> QED
  BY <1>2, <1>5, <1>6, <1>7, <1>8, BaseInit DEF CancelInv, ToldCancelled

(* When only confirmReschedule is handed the token of a reschedule offer:  *)
(* however late a write lands, whoever else edits the calendar, and        *)
(* whether cancelAppointment or the reconciler settles it, the event of a  *)
(* booking whose caller was told "cancelled" is gone and does not return.  *)
THEOREM CancellationIsTrue == TokensKeptApart => (Spec => []CancelledIsTrue)
<1> SUFFICES ASSUME TokensKeptApart
             PROVE  Spec => []CancelledIsTrue
  OBVIOUS
<1>1. CancelInv /\ [Next]_vars => CancelInv'
  BY CancelStep
<1>2. CancelInv => CancelledIsTrue
  BY DEF CancelInv, ToldCancelled, RowEvent, Gone, CancelledIsTrue
<1> QED
  BY <1>1, <1>2, CancelInit, PTL DEF Spec

-----------------------------------------------------------------------------
(* Moves: when writes land in time and reschedule tokens are kept apart *)

(* A row that is no successor, and one no longer to be booked.             *)
Plain(c) == rows[c].rescheduleOf = None
Past(c)  == rows[c].status \notin {"absent", "offered", "booking_in_progress"}
PastNow(c) == rows'[c].status \notin {"absent", "offered", "booking_in_progress"}

(* Rows are queued for the reconciler, and looked at, only when their      *)
(* booking is over.                                                        *)
ParkedPast == parked \in Seq({c \in Context : Past(c)})

PassPast ==
  \A k \in Reconciler :
    /\ \A i \in DOMAIN rec[k].queue : Past(rec[k].queue[i][1])
    /\ rec[k].pc \in {"resolve", "also"} => Past(rec[k].ctx)
    /\ rec[k].pc = "also" => rec[k].seen # None

(* Only a booking creates an event; a successor takes over its original's. *)
EventsPlain == \A e \in Context : event[e] # None => Plain(e)

(* A move is to another instant. *)
Elsewhere ==
  \A c \in Context :
    LET o == rows[c].rescheduleOf IN
      o # None => /\ rows[o].start \notin rows[c].offered
                  /\ rows[c].start # rows[o].start

(* Nothing was put in the calendar for a booking that was refused, or is   *)
(* about to be.                                                            *)
NoneRefused ==
  /\ \A c \in Context : rows[c].status \in {"rejected", "expired"} => event[c] = None
  /\ \A r \in Request :
       Live(r) /\ req[r].op = "book" /\ write[r] = "refused" => event[Ctx(r)] = None
  /\ \A k \in Reconciler :
       rec[k].pc = "resolve" /\ Plain(rec[k].ctx) /\ rec[k].seen = None =>
         event[rec[k].ctx] = None

(* What TLC finds inductive without the moves themselves. *)
PlainInv == /\ DoubleInv
            /\ CancelInv
            /\ ParkedPast
            /\ EventsPlain
            /\ PassPast
            /\ Elsewhere
            /\ NoneRefused

LEMMA PlainParts ==
  ASSUME PlainInv, [Next]_vars
  PROVE  /\ LifecycleInv /\ TypeOK /\ TypeOK' /\ BaseInv
         /\ OneClaimant /\ NoWriteYet /\ Routes /\ EventPlaced
         /\ Unchosen
         /\ CancelInv /\ LandedOnce
         /\ InHand /\ NothingPending
         /\ BindingKept /\ RowsStay /\ SettledKept
         /\ \A c \in Context : RowEvent(c)
         /\ \A r \in Request : ReqEvent(r)
         /\ ParkedPast /\ EventsPlain /\ PassPast /\ Elsewhere /\ NoneRefused
<1>1. TypeOK'
  BY NextInv DEF PlainInv, CancelInv, BaseInv, LifecycleInv, LifecycleTypeOK
<1> QED
  BY <1>1, CancelParts DEF PlainInv, DoubleInv, BaseInv, LifecycleInv

(* A booking that is over stays so, and keeps what its claim decided. *)
LEMMA PastStays ==
  ASSUME CancelInv, [Next]_vars, NEW c \in Context, Past(c)
  PROVE  /\ PastNow(c)
         /\ rows'[c].start = rows[c].start
         /\ rows'[c].rescheduleOf = rows[c].rescheduleOf
<1>1. LifecycleInv /\ RowsStay
  BY CancelParts
<1>2. /\ rows'[c].status \notin {"absent", "offered"}
      /\ rows'[c].rescheduleOf = rows[c].rescheduleOf
  BY <1>1 DEF Past, RowsStay
<1>3. rows'[c].status # "booking_in_progress"
  BY AnyFate DEF Fate, Past, Is
<1>4. Keeps(c)
  BY <1>1, FateOfRows DEF OpensFresh, OpensMove, Opens, Claims, Past, Is
<1> QED
  BY <1>2, <1>3, <1>4 DEF PastNow, Keeps, Bound

LEMMA ParkedPastStep ==
  ASSUME PlainInv, [Next]_vars
  PROVE  ParkedPast'
<1>1. LifecycleInv /\ TypeOK /\ ParkedPast /\ CancelInv
  BY PlainParts
<1> DEFINE S == {c \in Context : PastNow(c)}
<1>2. \A i \in DOMAIN parked : parked[i] \in S
  <2>1. \A i \in DOMAIN parked : parked[i] \in {c \in Context : Past(c)}
    BY <1>1, ElementOfSeq, LenProperties DEF ParkedPast
  <2> QED
    BY <1>1, <2>1, PastStays
<1>3. parked \in Seq(S)
  BY <1>1, <1>2, QueueWidens DEF ParkedPast
<1>4. \A c \in Context : rows'[c].status = "verification_required" => c \in S
  BY DEF PastNow
<1>5. [StoreNext]_store
  BY <1>1, LifecycleStoreStep
<1> HIDE DEF S
<1>6. parked' \in Seq(S)
  BY <1>1, <1>3, <1>4, <1>5, QueuedWithin
<1> QED
  BY <1>6 DEF ParkedPast, S, Past, PastNow

(* An event appears for a booking at work, by the write it sent. *)
LEMMA NewEvent ==
  ASSUME Timely, PlainInv, [Next]_vars, NEW e \in Context,
         event[e] = None, event'[e] # None
  PROVE  /\ Is(e, "booking_in_progress")
         /\ UNCHANGED <<rows, req, rec>>
         /\ \E r \in Request : /\ write[r] = "sent" /\ WorkExists(r) /\ Books(r)
                               /\ Ctx(r) = e
<1>1. LifecycleInv /\ TypeOK /\ InHand
  BY PlainParts
<1>2. ProviderStep
  BY <1>1, AnyStep DEF RequestStep, PassStep, OfferStep
<1>3. PICK r \in Request : /\ write[r] = "sent" /\ WorkExists(r)
                           /\ Books(r) \/ Cancels(r) \/ Moves(r)
  BY <1>1, <1>2, ProviderEffect, TypeParts DEF ProviderRefuses, Attorney, Misses, provider
<1>4. Books(r) /\ Ctx(r) = e
  BY <1>1, <1>3, TypeParts DEF Books, Cancels, Moves, Reaches
<1>5. Is(e, "booking_in_progress")
  BY <1>1, <1>3, <1>4 DEF InHand, Writes, Engaged, Books
<1> QED
  BY <1>2, <1>3, <1>4, <1>5 DEF ProviderStep, store

LEMMA EventsPlainStep ==
  ASSUME Timely, PlainInv, [Next]_vars
  PROVE  EventsPlain'
<1>1. /\ LifecycleInv /\ TypeOK /\ EventPlaced /\ EventsPlain /\ BindingKept
      /\ \A r \in Request : ReqEvent(r)
  BY PlainParts
<1>2. ASSUME NEW e \in Context, event'[e] # None
      PROVE  rows'[e].rescheduleOf = None
  <2>1. CASE event[e] # None
    BY <1>1, <2>1 DEF EventPlaced, EventsPlain, BindingKept, Chosen, Plain
  <2>2. CASE event[e] = None
    <3>1. UNCHANGED rows
      BY <1>2, <2>2, NewEvent
    <3>2. PICK r \in Request : write[r] = "sent" /\ Books(r) /\ Ctx(r) = e
      BY <1>2, <2>2, NewEvent
    <3>3. rows[e].rescheduleOf = None
      BY <1>1, <3>2 DEF ReqEvent, Engaged, Books
    <3> QED
      BY <3>1, <3>3
  <2> QED
    BY <2>1, <2>2
<1> QED
  BY <1>2 DEF EventsPlain, Plain

LEMMA PassPastStep ==
  ASSUME PlainInv, [Next]_vars
  PROVE  PassPast'
<1>1. /\ LifecycleInv /\ TypeOK /\ PassPast /\ CancelInv
  BY PlainParts
<1>2. ParkedPast'
  BY ParkedPastStep
<1>3. SUFFICES ASSUME NEW k \in Reconciler
               PROVE  /\ \A i \in DOMAIN rec'[k].queue : PastNow(rec'[k].queue[i][1])
                      /\ rec'[k].pc \in {"resolve", "also"} => PastNow(rec'[k].ctx)
                      /\ rec'[k].pc = "also" => rec'[k].seen # None
  BY DEF PassPast, Past, PastNow
<1>4. ASSUME NEW i \in DOMAIN rec[k].queue
      PROVE  PastNow(rec[k].queue[i][1])
  <2>1. rec[k].queue[i] \in Context \X Reason
    BY <1>1, TypeParts, ElementOfSeq, LenProperties DEF Pass
  <2> QED
    BY <1>1, <2>1, PastStays DEF PassPast
<1>5. ASSUME NEW i \in DOMAIN rec'[k].queue
      PROVE  PastNow(rec'[k].queue[i][1])
  <2>1. ASSUME NEW j \in DOMAIN parked'
        PROVE  PastNow(parked'[j])
    <3>1. parked'[j] \in {c \in Context : Past(c)}'
      BY <1>2, ElementOfSeq, LenProperties DEF ParkedPast
    <3> QED
      BY <3>1 DEF Past, PastNow
  <2> QED
    BY <1>1, <1>4, <2>1, QueueKept
<1>6. ASSUME rec'[k] = rec[k]
      PROVE  /\ rec'[k].pc \in {"resolve", "also"} => PastNow(rec'[k].ctx)
             /\ rec'[k].pc = "also" => rec'[k].seen # None
  BY <1>1, <1>6, PastStays DEF PassPast, LifecycleInv, PassesHold
<1>7. ASSUME NEW c \in Context, NEW why \in Reason, Examine(k, c, why)
      PROVE  rec'[k].pc = "resolve" /\ PastNow(rec'[k].ctx)
  <2>1. rec'[k].pc = "resolve" /\ rec'[k].ctx = c
    BY <1>1, <1>7, TypeParts DEF Examine
  <2>2. rec[k].queue \in Seq(Context \X Reason) /\ rec[k].queue # <<>>
    BY <1>1, <1>7, TypeParts DEF Examine, Pass
  <2>3. 1 \in DOMAIN rec[k].queue /\ rec[k].queue[1] = <<c, why>>
    BY <1>7, <2>2, HeadTailProperties, LenProperties, EmptySeq DEF Examine
  <2> QED
    BY <1>4, <2>1, <2>3
<1>8. ASSUME Resolve(k), rec'[k].pc = "also"
      PROVE  PastNow(rec'[k].ctx) /\ rec'[k].seen # None
  <2> DEFINE c == rec[k].ctx
  <2>1. /\ rec[k].pc = "resolve"
        /\ ResolveVerification(c, Resolution(c, rec[k].why, rec[k].seen),
              IF Resolution(c, rec[k].why, rec[k].seen) = "booked" /\ rec[k].why # "cancellation"
              THEN Correlation(c) ELSE None)
        /\ rec' = [rec EXCEPT ![k].pc = IF HasOriginal(c, rec[k].why) THEN "also" ELSE "next"]
    BY <1>1, <1>8, TypeParts DEF Resolve, Pass
  <2>2. HasOriginal(c, rec[k].why) /\ rec'[k].ctx = c /\ rec'[k].seen = rec[k].seen
    BY <1>1, <1>8, <2>1, TypeParts DEF Pass
  <2>3. rec[k].seen # None
    BY <2>1, <2>2 DEF Resolution, HasOriginal, ResolveVerification
  <2>4. c \in Context /\ Past(c)
    BY <1>1, <2>1 DEF PassPast, LifecycleInv, PassesHold
  <2> QED
    BY <1>1, <2>2, <2>3, <2>4, PastStays
<1>9. \/ rec'[k] = rec[k]
      \/ rec'[k].pc \notin {"resolve", "also"}
      \/ \E c \in Context, why \in Reason : Examine(k, c, why)
      \/ Resolve(k) /\ rec'[k].pc = "also"
  <2>1. ASSUME NEW j \in Reconciler, PassStep(j), j # k
        PROVE  rec'[k] = rec[k]
    BY <1>1, <2>1, TypeParts DEF PassStep, ReconcilerNext, Tick, PassEnds, Leave,
                PassDies, Examine, Resolve, ResolveOriginal, PassRaises
  <2>2. ASSUME PassStep(k), ~\E c \in Context, why \in Reason : Examine(k, c, why),
               ~Resolve(k)
        PROVE  rec'[k].pc \notin {"resolve", "also"}
    BY <1>1, <2>2, TypeParts DEF PassStep, ReconcilerNext, Tick, PassEnds, Leave, PassDies,
                ResolveOriginal, PassRaises, IdlePass, Pass
  <2>3. ASSUME Resolve(k)
        PROVE  rec'[k].pc \in {"also", "next"}
    BY <1>1, <2>3, TypeParts DEF Resolve, Pass
  <2> QED
    BY <1>1, <2>1, <2>2, <2>3, AnyStep DEF RequestStep, ProviderStep, OfferStep
<1> QED
  BY <1>5, <1>6, <1>7, <1>8, <1>9

LEMMA ElsewhereStep ==
  ASSUME PlainInv, [Next]_vars
  PROVE  Elsewhere'
<1>1. LifecycleInv /\ Routes /\ Elsewhere /\ BindingKept /\ Unchosen
  BY PlainParts
<1>2. ASSUME NEW c \in Context, NEW o, rows'[c].rescheduleOf = o, o # None
      PROVE  /\ rows'[o].start \notin rows'[c].offered
             /\ rows'[c].start # rows'[o].start
  <2>1. TypeOK /\ TypeOK'
    BY PlainParts
  <2>2. o \in Context
    BY <1>2, <2>1 DEF TypeOK, Row
  <2>3. CASE Keeps(c)
    <3>1. rows[c].rescheduleOf = o /\ Chosen(o)
      BY <1>1, <1>2, <2>3 DEF Keeps, Bound, Routes, RouteKept
    <3>2. rows'[o].start = rows[o].start
      BY <1>1, <2>2, <3>1 DEF BindingKept, Chosen
    <3> QED
      BY <1>1, <1>2, <2>3, <3>1, <3>2 DEF Keeps, Bound, Elsewhere
  <2>4. CASE OpensMove(c)
    <3>1. o \in offering /\ rows'[c].offered = Start \ {rows[o].start}
      BY <1>2, <2>4 DEF OpensMove
    <3>2. Chosen(o) /\ rows'[o].start = rows[o].start
      BY <1>1, <2>2, <3>1 DEF Routes, BindingKept, Chosen
    <3>3. rows'[c].start = None
      BY <2>4 DEF OpensMove, Opens
    <3> QED
      BY <3>1, <3>2, <3>3 DEF Chosen
  <2>5. CASE Claims(c)
    <3>1. rows[c].rescheduleOf = o /\ Chosen(o)
      BY <1>1, <1>2, <2>5 DEF Claims, Routes, RouteKept
    <3>2. rows'[o].start = rows[o].start
      BY <1>1, <2>2, <3>1 DEF BindingKept, Chosen
    <3> QED
      BY <1>1, <1>2, <2>5, <3>1, <3>2 DEF Claims, Elsewhere
  <2> QED
    BY <1>1, <1>2, <2>3, <2>4, <2>5, FateOfRows DEF OpensFresh
<1> QED
  BY <1>2 DEF Elsewhere

(* Who is about to be refused has nothing in the calendar. *)
LEMMA RefusedNone ==
  ASSUME PlainInv, [Next]_vars, NEW r \in Request, Live(r), req[r].op # "cancel",
         Refused(r)
  PROVE  event[Ctx(r)] = None
<1>1. LifecycleInv /\ EventsPlain /\ LandedOnce /\ NoneRefused
  BY PlainParts
<1>2. WorkExists(r)
  BY <1>1 DEF LifecycleInv, RequestsHold, Engaged
<1>3. CASE req[r].op = "move"
  <2>1. Ctx(r) \in Context /\ ~Plain(Ctx(r))
    BY <1>2, <1>3, NoneAssumption DEF WorkExists, Plain, Original
  <2> QED
    BY <1>1, <2>1 DEF EventsPlain
<1>4. CASE req[r].op = "book"
  <2>1. req[r].pc = "recheck" \/ write[r] = "refused"
    BY <1>1, <1>4 DEF Refused, LifecycleInv, PcMatches, OperationOf
  <2>2. ASSUME req[r].pc = "recheck", event[Ctx(r)] # None
        PROVE  FALSE
    BY <1>1, <1>2, <1>4, <2>2 DEF LandedOnce, Landed, Engaged, WorkExists
  <2> QED
    BY <1>1, <1>4, <2>1, <2>2 DEF NoneRefused
<1> QED
  BY <1>2, <1>3, <1>4 DEF WorkExists

(* How a row comes to be refused, or to lapse. *)
LEMMA Refusals ==
  ASSUME PlainInv, [Next]_vars, NEW c \in Context,
         rows'[c].status \in {"rejected", "expired"}, rows'[c].status # rows[c].status
  PROVE  \/ Is(c, "offered")
         \/ \E r \in Request : /\ Live(r) /\ req[r].op # "cancel" /\ Refused(r)
                               /\ Ctx(r) = c /\ rows'[c].status = "rejected"
         \/ \E k \in Reconciler :
              /\ rec[k].pc = "resolve" /\ rec[k].ctx = c
              /\ Resolution(c, rec[k].why, rec[k].seen) = "rejected"
<1>1. LifecycleInv
  BY PlainParts
<1>2. ASSUME NEW r \in Request, RequestStep(r)
      PROVE  /\ Live(r) /\ req[r].op # "cancel" /\ Refused(r)
             /\ Ctx(r) = c /\ rows'[c].status = "rejected"
  BY <1>2 DEF RequestStep, RequestRows, ClaimsRow, Claims, OnlyRow, BeginsCancelling,
       EndsCancelling, MovesOriginal, Finishes, Updates
<1>3. ASSUME NEW k \in Reconciler, PassStep(k)
      PROVE  /\ rec[k].pc = "resolve" /\ rec[k].ctx = c
             /\ Resolution(c, rec[k].why, rec[k].seen) = "rejected"
  BY <1>3 DEF PassStep, PassRows, Sweeps, Resolves, ResolvesOriginal, Updates
<1>4. ASSUME OfferStep
      PROVE  Is(c, "offered")
  BY <1>4 DEF OfferStep, OfferRows, OpensFresh, OpensMove, Opens, OnlyRow, Updates, Ages
<1>5. ~ProviderStep
  BY DEF ProviderStep, store
<1> QED
  BY <1>1, <1>2, <1>3, <1>4, <1>5, AnyStep

(* A booking resolved to rejected has nothing in the calendar. *)
LEMMA ResolvedNone ==
  ASSUME PlainInv, [Next]_vars, NEW k \in Reconciler, rec[k].pc = "resolve",
         Resolution(rec[k].ctx, rec[k].why, rec[k].seen) = "rejected"
  PROVE  event[rec[k].ctx] = None
<1>1. LifecycleInv /\ EventsPlain /\ NoneRefused
  BY PlainParts
<1>2. rec[k].ctx \in Context
  BY <1>1 DEF LifecycleInv, PassesHold
<1>3. Plain(rec[k].ctx) => rec[k].seen = None
  BY DEF Plain, Resolution
<1> QED
  BY <1>1, <1>2, <1>3 DEF EventsPlain, NoneRefused

LEMMA NoneRefusedStep ==
  ASSUME Timely, PlainInv, [Next]_vars
  PROVE  NoneRefused'
<1>1. /\ LifecycleInv /\ TypeOK /\ NoneRefused /\ EventPlaced /\ Unchosen /\ LandedOnce
      /\ OneClaimant /\ NoWriteYet /\ PassPast /\ CancelInv
  BY PlainParts
<1>2. ASSUME NEW c \in Context, rows'[c].status \in {"rejected", "expired"},
             event'[c] # None
      PROVE  FALSE
  <2>1. event[c] # None
    BY <1>2, NewEvent DEF Is
  <2>2. rows'[c].status # rows[c].status
    BY <1>1, <1>2, <2>1 DEF NoneRefused
  <2>3. ~Is(c, "offered")
    BY <1>1, <2>1 DEF EventPlaced, Unchosen, Chosen
  <2>4. PICK k \in Reconciler :
              /\ rec[k].pc = "resolve" /\ rec[k].ctx = c
              /\ Resolution(c, rec[k].why, rec[k].seen) = "rejected"
    BY <1>2, <2>1, <2>2, <2>3, Refusals, RefusedNone
  <2> QED
    BY <2>1, <2>4, ResolvedNone
<1>3. ASSUME NEW r \in Request, Live(r)', req'[r].op = "book", write'[r] = "refused",
             event'[req'[r].ctx] # None
      PROVE  FALSE
  <2> DEFINE e == req'[r].ctx
  <2>1. Live(r) /\ req[r].ctx = e /\ req[r].op = "book"
    <3>1. ASSUME Begins(r)
          PROVE  FALSE
      <4>1. PICK c \in Context, s \in Start : BookClaim(r, c, s)
        BY <1>1, <1>3, <3>1, BeginShape DEF Begins, BookClaim, MoveClaim, CancelBegin, Pc
      <4>2. req'[r].pc = "recheck"
        BY <1>1, <4>1, BeginShape DEF BookClaim, Pc
      <4>3. NoWriteYet'
        BY <1>1, NoWriteYetStep
      <4> QED
        BY <1>3, <4>2, <4>3 DEF NoWriteYet, Beginning
    <3> QED
      BY <1>1, <1>3, <3>1, LiveKept
  <2>2. WorkExists(r) /\ Writes(r) /\ Ctx(r) = e /\ e \in Context
    BY <1>1, <2>1 DEF LifecycleInv, RequestsHold, Engaged, Writes, WorkExists, Ctx
  <2>3. ASSUME event[e] = None
        PROVE  FALSE
    <3>1. PICK q \in Request : write[q] = "sent" /\ Books(q) /\ Ctx(q) = e
      BY <1>3, <2>2, <2>3, NewEvent
    <3>2. q = r
      BY <1>1, <2>2, <3>1 DEF OneClaimant, Writes, Engaged, Books
    <3> QED
      BY <1>1, <1>3, <3>1, <3>2, TypeParts DEF Books, Reaches
  <2>4. ASSUME event[e] # None
        PROVE  FALSE
    <3>1. write[r] # "refused" /\ write[r] # "sent"
      BY <1>1, <2>1, <2>2, <2>4 DEF NoneRefused, LandedOnce, Landed, Engaged, Writes
    <3>2. ASSUME NEW q \in Request, RequestStep(q)
          PROVE  FALSE
      BY <1>1, <1>3, <3>1, <3>2, RequestWrites DEF RequestStep, MovesOn, Starts
    <3>3. ASSUME ProviderStep
          PROVE  FALSE
      BY <1>1, <1>3, <3>1, <3>3, ProviderEffect, TypeParts
         DEF ProviderRefuses, Attorney, Books, Cancels, Moves, Misses, Reaches
    <3> QED
      BY <1>1, <1>3, <3>1, <3>2, <3>3, AnyStep DEF PassStep, OfferStep
  <2> QED
    BY <2>3, <2>4
<1>4. ASSUME NEW k \in Reconciler, rec'[k].pc = "resolve", rec'[k].seen = None,
             rows'[rec'[k].ctx].rescheduleOf = None, event'[rec'[k].ctx] # None
      PROVE  FALSE
  <2>1. CASE rec'[k] = rec[k]
    <3> DEFINE c == rec[k].ctx
    <3>1. c \in Context /\ Past(c)
      BY <1>1, <1>4, <2>1 DEF LifecycleInv, PassesHold, PassPast
    <3>2. Plain(c)
      BY <1>1, <1>4, <2>1, <3>1, PastStays DEF Plain
    <3>3. event[c] = None
      BY <1>1, <1>4, <2>1, <3>2 DEF NoneRefused
    <3>4. Is(c, "booking_in_progress")
      BY <1>4, <2>1, <3>1, <3>3, NewEvent
    <3> QED
      BY <3>1, <3>4 DEF Past, Is
  <2>2. ASSUME NEW c \in Context, NEW why \in Reason, Examine(k, c, why)
        PROVE  FALSE
    <3>1. /\ rec'[k].ctx = c /\ rec'[k].seen = Evidence(c)
          /\ UNCHANGED <<rows, event>>
      BY <1>1, <2>2, TypeParts DEF Examine, store, provider
    <3>2. Correlation(c) = c /\ event[c] # None
      BY <1>4, <3>1 DEF Correlation
    <3>3. event[c].calendar = rows[c].calendar /\ event[c].start \in Start
      BY <1>1, <3>2, TypeParts DEF EventPlaced, Event
    <3> QED
      BY <1>4, <3>1, <3>2, <3>3, NoneAssumption DEF Evidence
  <2> QED
    BY <1>1, <1>4, <2>1, <2>2, PassKnows
<1> QED
  BY <1>2, <1>3, <1>4 DEF NoneRefused, Plain, Ctx

(* Successor d has the appointment of o, or is parked with it: the event,  *)
(* if there still is one, is where d has it, and nobody who works on d, or *)
(* looks at it, is going to reject it.                                     *)
Carries(o, d) ==
  /\ rows[d].rescheduleOf = o
  /\ Chosen(d)
  /\ rows[d].status \notin {"absent", "offered", "expired", "rejected"}
  /\ event[o] # None => event[o].start = rows[d].start
  /\ \A k \in Reconciler :
       rec[k].pc = "resolve" /\ rec[k].ctx = d => rec[k].seen \in {None, rows[d].start}
  /\ \A r \in Request :
       Live(r) /\ req[r].op = "move" /\ Ctx(r) = d =>
         \/ At(r, "moving") /\ write[r] = "ok"
         \/ At(r, "settleSuccessor") /\ req[r].verdict # "rejected"

Moved(o) == Plain(o) /\ Past(o) /\ \E d \in Context : Carries(o, d)

(* What says that a booking was moved is true: its status, where its event *)
(* is, the reply to a move, what a pass has seen.                          *)
MovedInv ==
  /\ \A o \in Context :
       Is(o, "rescheduled") \/ (event[o] # None /\ event[o].start # rows[o].start) =>
         Moved(o)
  /\ \A r \in Request, o \in Context :
       Live(r) /\ req[r].op = "move" /\ write[r] = "ok" /\ Original(r) = o => Moved(o)
  /\ \A k \in Reconciler, o \in Context :
       /\ rec[k].pc \in {"resolve", "also"} /\ rows[rec[k].ctx].rescheduleOf = o
       /\ rec[k].seen # None /\ rec[k].seen = rows[rec[k].ctx].start
       => Moved(o)

KeepInv == PlainInv /\ MovedInv

(* An event moves by the write of a move. *)
LEMMA EventMoves ==
  ASSUME Timely, PlainInv, [Next]_vars, NEW e \in Context,
         event[e] # None, event'[e] # None, event'[e] # event[e]
  PROVE  /\ UNCHANGED <<rows, req, rec>>
         /\ \E r \in Request : /\ write[r] = "sent" /\ WorkExists(r) /\ Moves(r)
                               /\ Original(r) = e
<1>1. LifecycleInv /\ TypeOK /\ LandedOnce
  BY PlainParts
<1>2. ProviderStep
  BY <1>1, AnyStep DEF RequestStep, PassStep, OfferStep
<1>3. ~Attorney
  BY <1>1, TypeParts DEF Attorney, Timely
<1>4. PICK r \in Request : /\ write[r] = "sent" /\ WorkExists(r)
                           /\ Books(r) \/ Cancels(r) \/ Moves(r)
  BY <1>1, <1>2, <1>3, ProviderEffect, TypeParts DEF ProviderRefuses, Misses, provider
<1>5. ~Cancels(r)
  BY <1>1, <1>4, TypeParts DEF Cancels, Reaches
<1>6. ASSUME Books(r)
      PROVE  FALSE
  <2>1. Ctx(r) = e
    BY <1>1, <1>4, <1>6, TypeParts DEF Books, Reaches
  <2> QED
    BY <1>1, <1>4, <1>6, <2>1 DEF LandedOnce, Landed, Engaged, Books
<1>7. Original(r) = e
  BY <1>1, <1>4, <1>5, <1>6, TypeParts DEF Moves, Reaches
<1> QED
  BY <1>2, <1>4, <1>5, <1>6, <1>7 DEF ProviderStep, store

(* A move whose write lands has moved its booking. *)
LEMMA LandsMoved ==
  ASSUME Timely, PlainInv, [Next]_vars, NEW r \in Request, write[r] = "sent",
         WorkExists(r), Moves(r), UNCHANGED <<rows, req, rec>>,
         NEW o \in Context, Original(r) = o
  PROVE  Moved(o)'
<1>1. /\ LifecycleInv /\ TypeOK /\ InHand /\ NothingPending /\ NoWriteYet /\ OneClaimant
      /\ Routes /\ EventsPlain /\ PassPast
      /\ \A c \in Context : RowEvent(c)
  BY PlainParts
<1>0. PICK d \in Context : d = Ctx(r)
  BY DEF WorkExists
<1>2. Writes(r) /\ Is(d, "booking_in_progress") /\ Chosen(d)
      /\ rows[d].start \in Start /\ rows[d].rescheduleOf = o /\ req[r].op = "move"
  BY <1>0, <1>1, NoneAssumption DEF WorkExists, Moves, Writes, Engaged, InHand, Chosen, Original
<1>3. Plain(o) /\ Past(o)
  BY <1>1, NoneAssumption DEF Moves, EventsPlain, RowEvent, Past, Is
<1>4. event'[o].start = rows[d].start /\ write'[r] = "ok"
  <2>1. event[o] \in Event
    BY <1>1, TypeParts DEF Moves
  <2> QED
    BY <1>0, <1>1, <2>1, TypeParts DEF Moves, Reaches, Event
<1>5. ASSUME NEW k \in Reconciler, rec[k].pc = "resolve", rec[k].ctx = d
      PROVE  FALSE
  BY <1>1, <1>2, <1>5 DEF PassPast, Past, Is
<1>6. ASSUME NEW q \in Request, Live(q), req[q].op = "move", Ctx(q) = d
      PROVE  At(q, "moving") /\ write'[q] = "ok"
  <2>1. q = r
    BY <1>0, <1>1, <1>2, <1>6 DEF OneClaimant, Writes, Engaged
  <2>2. At(r, "moving")
    BY <1>1, <1>6, <2>1
       DEF NothingPending, NoWriteYet, Beginning, LifecycleInv, LifecycleTypeOK, PcMatches,
           OperationOf, At, Live, Pc
  <2> QED
    BY <1>4, <2>1, <2>2
<1>7. Carries(o, d)'
  BY <1>2, <1>4, <1>5, <1>6 DEF Carries, Chosen, Is, Live, Ctx, At
<1>8. Plain(o)' /\ Past(o)'
  BY <1>3 DEF Plain, Past
<1>9. \E x \in Context : Carries(o, x)'
  BY <1>7
<1> QED
  BY <1>8, <1>9 DEF Moved

(* How a move that has sent its write goes on. *)
LEMMA MovingOn ==
  ASSUME LifecycleInv, NEW r \in Request, RequestNext(r), Live(r)',
         req[r].pc \in {"moving", "settleSuccessor"}
  PROVE  /\ req[r].pc = "moving" /\ req'[r].pc = "settleSuccessor"
         /\ req'[r].verdict = "rejected" => write[r] # "ok"
<1> USE TypeParts DEF Req
<1>1. ASSUME NEW outcome, Answer(r, outcome)
      PROVE  FALSE
  BY <1>1 DEF Answer, Over, Idle, Live
<1>2. ASSUME NEW st, NEW verdict, Settle(r, st, verdict)
      PROVE  req'[r].pc = "settleSuccessor" /\ req'[r].verdict = verdict
  BY <1>2 DEF Settle
<1>3. ~Crash(r)
  BY DEF Crash, Over, Idle, Live
<1>4. ~SettleSuccessor(r)
  BY <1>1 DEF SettleSuccessor
<1>5. MoveRefused(r) \/ MoveUnverified(r) \/ MoveConfirmed(r) \/ MovePersistenceFails(r)
  BY <1>3, <1>4
     DEF RequestNext, BookClaim, MoveClaim, CancelBegin, Begin, BookRecheckFails,
         BookCreate, BookRefused, BookUnverified, BookConfirmed, BookPersistenceFails,
         CancelConfirmed, CancelMismatch, CancelRefused, CancelUnverified,
         MoveBegin, MoveCheckFails, MoveUpdate, At
<1>6. req[r].pc = "moving"
  BY <1>5 DEF MoveRefused, MoveUnverified, MoveConfirmed, MovePersistenceFails, At
<1>7. req'[r].pc = "settleSuccessor"
  BY <1>2, <1>5 DEF MoveRefused, MoveUnverified, MoveConfirmed, MovePersistenceFails
<1>8. ASSUME req'[r].verdict = "rejected"
      PROVE  MoveRefused(r)
  BY <1>2, <1>5, <1>8 DEF MoveUnverified, MoveConfirmed, MovePersistenceFails
<1> QED
  BY <1>6, <1>7, <1>8 DEF MoveRefused, GotReply

(* A reply stays until its request takes it. *)
LEMMA ReplyStays ==
  ASSUME LifecycleInv, [Next]_vars, NEW r \in Request, write[r] = "ok", ~RequestStep(r)
  PROVE  write'[r] = "ok" /\ req'[r] = req[r]
<1>1. ASSUME NEW q \in Request, RequestStep(q)
      PROVE  write'[r] = "ok" /\ req'[r] = req[r]
  BY <1>1 DEF RequestStep, MovesOn, Starts
<1>2. ASSUME ProviderStep
      PROVE  write'[r] = "ok" /\ req'[r] = req[r]
  BY <1>2, ProviderEffect, TypeParts
     DEF ProviderStep, ProviderRefuses, Attorney, Books, Cancels, Moves, Misses, Reaches
<1> QED
  BY <1>1, <1>2, AnyStep DEF PassStep, OfferStep

LEMMA CarriesStays ==
  ASSUME Timely, PlainInv, [Next]_vars, NEW o \in Context, NEW d \in Context, Carries(o, d),
         event'[o] # None => event'[o].start = rows[d].start
  PROVE  Carries(o, d)'
<1>1. /\ LifecycleInv /\ TypeOK /\ RowsStay /\ BindingKept
      /\ \A r \in Request : ReqEvent(r)
  BY PlainParts
<1>2. /\ rows[d].rescheduleOf = o /\ Chosen(d)
      /\ rows[d].status \notin {"absent", "offered", "expired", "rejected"}
  BY DEF Carries
<1>3. /\ rows'[d].rescheduleOf = o /\ rows'[d].start = rows[d].start
      /\ rows'[d].status \notin {"absent", "offered"}
  BY <1>1, <1>2 DEF RowsStay, BindingKept, Chosen
<1>4. rows'[d].status \notin {"expired", "rejected"}
  <2>1. SUFFICES ASSUME rows'[d].status \in {"rejected", "expired"}
                 PROVE  FALSE
    OBVIOUS
  <2>2. rows'[d].status # rows[d].status /\ ~Is(d, "offered")
    BY <1>2, <2>1 DEF Is
  <2>3. ASSUME NEW r \in Request, Live(r), req[r].op # "cancel", Refused(r), Ctx(r) = d
        PROVE  FALSE
    <3>1. req[r].op = "book" => rows[d].rescheduleOf = None
      BY <1>1, <2>3 DEF ReqEvent, Engaged
    <3>2. req[r].op = "move"
      BY <1>1, <1>2, <2>3, <3>1, NoneAssumption
         DEF LifecycleInv, RequestsHold, WorkExists, Engaged
    <3> QED
      BY <2>3, <3>2 DEF Carries, Refused, At
  <2>4. ASSUME NEW k \in Reconciler, rec[k].pc = "resolve", rec[k].ctx = d,
               Resolution(d, rec[k].why, rec[k].seen) = "rejected"
        PROVE  FALSE
    BY <1>2, <2>4, NoneAssumption DEF Carries, Resolution
  <2> QED
    BY <2>1, <2>2, <2>3, <2>4, Refusals
<1>5. ASSUME NEW k \in Reconciler, rec'[k].pc = "resolve", rec'[k].ctx = d
      PROVE  rec'[k].seen \in {None, rows[d].start}
  <2>1. CASE rec'[k] = rec[k]
    BY <1>5, <2>1 DEF Carries
  <2>2. ASSUME NEW c \in Context, NEW why \in Reason, Examine(k, c, why)
        PROVE  rec'[k].seen \in {None, rows[d].start}
    <3>1. rec'[k].ctx = c /\ rec'[k].seen = Evidence(c)
      BY <1>1, <2>2, TypeParts DEF Examine
    <3>2. c = d /\ Correlation(d) = o
      BY <1>2, <1>5, <3>1, NoneAssumption DEF Correlation
    <3> QED
      BY <3>1, <3>2 DEF Evidence, Carries
  <2> QED
    BY <1>1, <1>5, <2>1, <2>2, PassKnows
<1>6. ASSUME NEW r \in Request, Live(r)', req'[r].op = "move", req'[r].ctx = d
      PROVE  \/ req'[r].pc = "moving" /\ write'[r] = "ok"
             \/ req'[r].pc = "settleSuccessor" /\ req'[r].verdict # "rejected"
  <2>1. ~Begins(r)
    <3>1. SUFFICES ASSUME Begins(r) PROVE FALSE
      OBVIOUS
    <3>2. PICK c \in Context, s \in Start : MoveClaim(r, c, s)
      BY <1>1, <1>6, <3>1, BeginShape DEF Begins, BookClaim, CancelBegin, Pc
    <3>3. c = d
      BY <1>1, <1>6, <3>2, BeginShape DEF MoveClaim, Pc
    <3> QED
      BY <1>2, <3>2, <3>3 DEF MoveClaim, Claim, Is
  <2>2. Live(r) /\ Ctx(r) = d /\ req[r].op = "move"
    BY <1>1, <1>6, <2>1, LiveKept DEF Ctx
  <2>3. \/ req[r].pc = "moving" /\ write[r] = "ok"
        \/ req[r].pc = "settleSuccessor" /\ req[r].verdict # "rejected"
    BY <2>2 DEF Carries, At
  <2>4. CASE RequestStep(r)
    BY <1>1, <1>6, <2>3, <2>4, MovingOn DEF RequestStep
  <2>5. CASE ~RequestStep(r)
    <3>1. req'[r] = req[r]
      BY <1>1, <2>5, AnyStep DEF RequestStep, MovesOn, Starts, PassStep, ProviderStep, OfferStep
    <3> QED
      BY <1>1, <2>3, <2>5, <3>1, ReplyStays
  <2> QED
    BY <2>4, <2>5
<1> QED
  BY <1>2, <1>3, <1>4, <1>5, <1>6 DEF Carries, Chosen, Live, Ctx, At

(* A booking that was moved stays moved. *)
LEMMA MovedStays ==
  ASSUME Timely, PlainInv, [Next]_vars, NEW o \in Context, Moved(o)
  PROVE  Moved(o)'
<1>1. LifecycleInv /\ CancelInv
  BY PlainParts
<1>2. PICK d \in Context : Carries(o, d)
  BY DEF Moved
<1>3. Plain(o)' /\ Past(o)'
  BY <1>1, PastStays DEF Moved, Plain, Past, PastNow
<1>4. CASE event'[o] # None => event'[o].start = rows[d].start
  BY <1>2, <1>3, <1>4, CarriesStays DEF Moved
<1>5. ASSUME event'[o] # None, event'[o].start # rows[d].start
      PROVE  Moved(o)'
  <2>1. event[o] # None
    BY <1>5, NewEvent DEF Moved, Past, Is
  <2>2. event'[o] # event[o]
    BY <1>2, <1>5, <2>1 DEF Carries
  <2>3. UNCHANGED <<rows, req, rec>>
    BY <1>5, <2>1, <2>2, EventMoves
  <2>4. PICK r \in Request : /\ write[r] = "sent" /\ WorkExists(r) /\ Moves(r)
                             /\ Original(r) = o
    BY <1>5, <2>1, <2>2, EventMoves
  <2> QED
    BY <2>3, <2>4, LandsMoved
<1> QED
  BY <1>4, <1>5

(* Who settles a booking as moved: a move the calendar has confirmed, or a *)
(* pass that has seen the event where the successor has it.                *)
LEMMA Rescheduled ==
  ASSUME LifecycleInv, [Next]_vars, NEW o \in Context,
         rows'[o].status = "rescheduled", ~Is(o, "rescheduled")
  PROVE  \/ \E r \in Request : /\ Live(r) /\ req[r].op = "move" /\ write[r] = "ok"
                               /\ Original(r) = o
         \/ \E k \in Reconciler :
              /\ rec[k].pc = "also" /\ rows[rec[k].ctx].rescheduleOf = o
              /\ rec[k].seen = rows[rec[k].ctx].start
<1>1. ASSUME NEW r \in Request, RequestStep(r)
      PROVE  Live(r) /\ req[r].op = "move" /\ write[r] = "ok" /\ Original(r) = o
  BY <1>1 DEF RequestStep, RequestRows, ClaimsRow, Claims, OnlyRow, BeginsCancelling,
       EndsCancelling, MovesOriginal, Finishes, Updates, Is
<1>2. ASSUME NEW k \in Reconciler, PassStep(k)
      PROVE  /\ rec[k].pc = "also" /\ rows[rec[k].ctx].rescheduleOf = o
             /\ rec[k].seen = rows[rec[k].ctx].start
  BY <1>2 DEF PassStep, PassRows, Sweeps, Resolves, ResolvesOriginal, Updates, Is,
       OriginalResolution
<1>3. ~OfferStep
  BY DEF OfferStep, OfferRows, OpensFresh, OpensMove, Opens, OnlyRow, Updates, Ages, Is
<1>4. ~ProviderStep
  BY DEF ProviderStep, store, Is
<1> QED
  BY <1>1, <1>2, <1>3, <1>4, AnyStep

LEMMA MovedInvStep ==
  ASSUME Timely, KeepInv, [Next]_vars
  PROVE  MovedInv'
<1>0. PlainInv /\ MovedInv
  BY DEF KeepInv
<1>1. /\ LifecycleInv /\ TypeOK /\ CancelInv /\ RowsStay /\ BindingKept /\ EventPlaced
      /\ NoWriteYet /\ PassPast /\ Elsewhere /\ Routes
  BY <1>0, PlainParts
<1>2. ASSUME NEW o \in Context,
             \/ rows'[o].status = "rescheduled"
             \/ event'[o] # None /\ event'[o].start # rows'[o].start
      PROVE  Moved(o)'
  <2>1. CASE Moved(o)
    BY <1>0, <2>1, MovedStays
  <2>2. ASSUME ~Moved(o)
        PROVE  Moved(o)'
    <3>1. ~Is(o, "rescheduled") /\ (event[o] # None => event[o].start = rows[o].start)
      BY <1>0, <2>2 DEF MovedInv
    <3>2. rows'[o].status # "rescheduled"
      <4>1. SUFFICES ASSUME rows'[o].status = "rescheduled" PROVE FALSE
        OBVIOUS
      <4>2. ASSUME NEW r \in Request, Live(r), req[r].op = "move", write[r] = "ok",
                   Original(r) = o
            PROVE  FALSE
        BY <1>0, <2>2, <4>2 DEF MovedInv
      <4>3. ASSUME NEW k \in Reconciler, rec[k].pc = "also",
                   rows[rec[k].ctx].rescheduleOf = o, rec[k].seen = rows[rec[k].ctx].start
            PROVE  FALSE
        BY <1>0, <1>1, <2>2, <4>3 DEF MovedInv, PassPast
      <4> QED
        BY <1>1, <3>1, <4>1, <4>2, <4>3, Rescheduled
    <3>3. event'[o] # None /\ event'[o].start # rows'[o].start
      BY <1>2, <3>2
    <3>4. ASSUME event[o] = None
          PROVE  FALSE
      <4>1. PICK r \in Request : Books(r) /\ Ctx(r) = o
        BY <1>0, <3>3, <3>4, NewEvent
      <4>2. UNCHANGED rows
        BY <1>0, <3>3, <3>4, NewEvent
      <4>3. event'[o].start = rows[o].start
        BY <1>1, <4>1, TypeParts DEF Books, Reaches
      <4> QED
        BY <3>3, <4>2, <4>3
    <3>5. rows'[o].start = rows[o].start
      BY <1>1, <3>4 DEF EventPlaced, BindingKept, Chosen
    <3>6. event'[o] # event[o]
      BY <3>1, <3>3, <3>4, <3>5
    <3>7. UNCHANGED <<rows, req, rec>>
      BY <1>0, <3>3, <3>4, <3>6, EventMoves
    <3>8. PICK r \in Request : /\ write[r] = "sent" /\ WorkExists(r) /\ Moves(r)
                               /\ Original(r) = o
      BY <1>0, <3>3, <3>4, <3>6, EventMoves
    <3> QED
      BY <1>0, <3>7, <3>8, LandsMoved
  <2> QED
    BY <2>1, <2>2
<1>3. ASSUME NEW r \in Request, NEW o \in Context, Live(r)', req'[r].op = "move",
             write'[r] = "ok", Original(r)' = o
      PROVE  Moved(o)'
  <2>1. ASSUME Begins(r)
        PROVE  FALSE
    <3>1. PICK c \in Context, s \in Start : MoveClaim(r, c, s)
      BY <1>1, <1>3, <2>1, BeginShape DEF Begins, BookClaim, CancelBegin, Pc
    <3>2. req'[r].pc = "begin"
      BY <1>1, <3>1, BeginShape DEF MoveClaim, Pc
    <3>3. NoWriteYet'
      BY <1>1, NoWriteYetStep
    <3> QED
      BY <1>3, <3>2, <3>3 DEF NoWriteYet, Beginning
  <2>2. Live(r) /\ req'[r].ctx = req[r].ctx /\ req[r].op = "move"
    BY <1>1, <1>3, <2>1, LiveKept
  <2>3. WorkExists(r)
    BY <1>1, <2>2 DEF LifecycleInv, RequestsHold, Engaged
  <2>4. Original(r) = o
    BY <1>1, <1>3, <2>2, <2>3 DEF WorkExists, RowsStay, Original, Ctx, Is
  <2>5. CASE write[r] = "ok"
    BY <1>0, <2>2, <2>4, <2>5, MovedStays DEF MovedInv
  <2>6. CASE write[r] # "ok"
    <3>1. ASSUME NEW q \in Request, RequestStep(q)
          PROVE  FALSE
      BY <1>1, <1>3, <2>6, <3>1, RequestWrites DEF RequestStep, MovesOn, Starts
    <3>2. ProviderStep
      BY <1>1, <1>3, <2>6, <3>1, AnyStep DEF PassStep, OfferStep
    <3>3. PICK q \in Request : /\ write[q] = "sent" /\ WorkExists(q)
                               /\ Books(q) \/ Cancels(q) \/ Moves(q) \/ Misses(q)
      BY <1>1, <1>3, <2>6, <3>2, ProviderEffect, TypeParts DEF ProviderRefuses, Attorney
    <3>4. q = r /\ ~Misses(q)
      BY <1>1, <1>3, <2>6, <3>3, TypeParts DEF Books, Cancels, Moves, Misses, Reaches
    <3>5. Moves(r)
      BY <2>2, <3>3, <3>4 DEF Books, Cancels
    <3>6. UNCHANGED <<rows, req, rec>>
      BY <3>2 DEF ProviderStep, store
    <3> QED
      BY <1>0, <2>4, <3>3, <3>4, <3>5, <3>6, LandsMoved
  <2> QED
    BY <2>5, <2>6
<1>4. ASSUME NEW k \in Reconciler, NEW o \in Context, rec'[k].pc \in {"resolve", "also"},
             rows'[rec'[k].ctx].rescheduleOf = o,
             rec'[k].seen # None, rec'[k].seen = rows'[rec'[k].ctx].start
      PROVE  Moved(o)'
  <2>1. ASSUME rec[k].pc \in {"resolve", "also"}, rec'[k].ctx = rec[k].ctx,
               rec'[k].seen = rec[k].seen
        PROVE  Moved(o)'
    <3>1. rec[k].ctx \in Context /\ Past(rec[k].ctx)
      BY <1>1, <2>1 DEF PassPast, LifecycleInv, PassesHold
    <3>2. /\ rows'[rec[k].ctx].start = rows[rec[k].ctx].start
          /\ rows'[rec[k].ctx].rescheduleOf = rows[rec[k].ctx].rescheduleOf
      BY <1>1, <3>1, PastStays
    <3>3. Moved(o)
      BY <1>0, <1>4, <2>1, <3>2 DEF MovedInv
    <3> QED
      BY <1>0, <3>3, MovedStays
  <2>2. ASSUME NEW c \in Context, NEW why \in Reason, Examine(k, c, why)
        PROVE  Moved(o)'
    <3>1. /\ rec'[k].ctx = c /\ rec'[k].seen = Evidence(c)
          /\ UNCHANGED <<rows, event>>
      BY <1>1, <2>2, TypeParts DEF Examine, store, provider
    <3>2. rows[c].rescheduleOf = o /\ Correlation(c) = o
      BY <1>4, <3>1, NoneAssumption DEF Correlation
    <3>3. event[o] # None /\ event[o].start = rows[c].start
      BY <1>4, <3>1, <3>2 DEF Evidence
    <3>4. rows[c].start # rows[o].start
      BY <1>1, <3>2, NoneAssumption DEF Elsewhere
    <3>5. Moved(o)
      BY <1>0, <3>3, <3>4 DEF MovedInv
    <3> QED
      BY <1>0, <3>5, MovedStays
  <2>3. \/ rec'[k] = rec[k]
        \/ \E c \in Context, why \in Reason : Examine(k, c, why)
        \/ /\ rec[k].pc \in {"resolve", "also"} /\ rec'[k].ctx = rec[k].ctx
           /\ rec'[k].seen = rec[k].seen
    <3>1. ASSUME NEW j \in Reconciler, PassStep(j), j # k
          PROVE  rec'[k] = rec[k]
      BY <1>1, <3>1, TypeParts DEF PassStep, ReconcilerNext, Tick, PassEnds, Leave,
         PassDies, Examine, Resolve, ResolveOriginal, PassRaises
    <3>2. ASSUME PassStep(k), ~\E c \in Context, why \in Reason : Examine(k, c, why),
                 ~Resolve(k)
          PROVE  rec'[k].pc \notin {"resolve", "also"}
      BY <1>1, <3>2, TypeParts DEF PassStep, ReconcilerNext, Tick, PassEnds, Leave,
         PassDies, ResolveOriginal, PassRaises, IdlePass, Pass
    <3>3. ASSUME Resolve(k)
          PROVE  /\ rec[k].pc = "resolve" /\ rec'[k].ctx = rec[k].ctx
                 /\ rec'[k].seen = rec[k].seen
      BY <1>1, <3>3, TypeParts DEF Resolve, Pass
    <3> QED
      BY <1>1, <1>4, <3>1, <3>2, <3>3, AnyStep DEF RequestStep, ProviderStep, OfferStep
  <2> QED
    BY <1>4, <2>1, <2>2, <2>3
<1> QED
  BY <1>2, <1>3, <1>4 DEF MovedInv, Is

LEMMA PlainStep ==
  ASSUME Timely, TokensKeptApart, PlainInv, [Next]_vars
  PROVE  PlainInv'
<1>1. DoubleInv' /\ CancelInv'
  BY DoubleStep, CancelStep DEF PlainInv
<1> QED
  BY <1>1, ParkedPastStep, EventsPlainStep, PassPastStep, ElsewhereStep,
     NoneRefusedStep DEF PlainInv

LEMMA KeepStep ==
  ASSUME Timely, TokensKeptApart, KeepInv, [Next]_vars
  PROVE  KeepInv'
BY PlainStep, MovedInvStep DEF KeepInv

LEMMA KeepInit == Init => KeepInv
<1> SUFFICES ASSUME Init
             PROVE  KeepInv
  OBVIOUS
<1>1. CancelInv /\ DoubleInv
  BY CancelInit, DoubleInit
<1>2. /\ \A c \in Context : /\ rows[c].status = "absent" /\ rows[c].rescheduleOf = None
                            /\ event[c] = None
      /\ \A r \in Request : ~Live(r)
      /\ \A k \in Reconciler : rec[k].pc = "idle" /\ rec[k].queue = <<>>
      /\ parked = <<>>
  BY DEF Init, StoreInit, NoRow, Live, Idle, IdlePass
<1>3. ParkedPast /\ EventsPlain /\ Elsewhere
  BY <1>2, EmptySeq DEF ParkedPast, EventsPlain, Elsewhere
<1>4. PassPast
  BY <1>2, EmptySeq DEF PassPast
<1>5. NoneRefused
  BY <1>2 DEF NoneRefused
<1>6. MovedInv
  BY <1>2 DEF MovedInv, Is
<1> QED
  BY <1>1, <1>3, <1>4, <1>5, <1>6 DEF KeepInv, PlainInv

(* A settled move has a successor that holds the appointment, or is parked *)
(* with it.                                                                *)
LEMMA ZeroImplied == KeepInv => NeverZero
<1> SUFFICES ASSUME KeepInv, NEW o \in Context, Is(o, "rescheduled")
             PROVE  \E c \in Successors(o) :
                      rows[c].status \notin {"absent", "offered", "expired", "rejected"}
  BY DEF NeverZero
<1>1. PICK d \in Context : Carries(o, d)
  BY DEF KeepInv, MovedInv, Moved
<1> QED
  BY <1>1 DEF Carries, Successors

LEMMA OrphanImplied == KeepInv => NoOrphanEvent
<1> SUFFICES ASSUME KeepInv, NEW c \in Context, event[c] # None
             PROVE  \E d \in {c} \cup Successors(c) :
                      Occupied(d) \/ Is(d, "verification_required")
  BY DEF NoOrphanEvent
<1>1. /\ EventsPlain /\ NoneRefused /\ MovedInv /\ EventPlaced /\ Unchosen /\ TypeOK
      /\ \A x \in Context : RowEvent(x)
  BY DEF KeepInv, PlainInv, CancelInv, BaseInv, LifecycleInv, LifecycleTypeOK
<1>2. ASSUME NEW x \in Context, Is(x, "cancelled"), Correlation(x) = c
      PROVE  FALSE
  BY <1>1, <1>2 DEF RowEvent, Gone
<1>3. Correlation(c) = c
  BY <1>1 DEF EventsPlain, Plain, Correlation
<1>4. rows[c].status \notin {"absent", "offered", "expired", "rejected", "cancelled"}
  BY <1>1, <1>2, <1>3 DEF EventPlaced, Unchosen, Chosen, NoneRefused, Is
<1>5. CASE ~Is(c, "rescheduled")
  BY <1>1, <1>4, <1>5
     DEF TypeOK, Row, Status, InFlight, Terminal, Occupied, SlotOccupying, Is
<1>6. CASE Is(c, "rescheduled")
  <2>1. PICK d \in Context : Carries(c, d)
    BY <1>1, <1>6 DEF MovedInv, Moved
  <2>2. /\ rows[d].status \notin {"absent", "offered", "expired", "rejected"}
        /\ d \in Successors(c) /\ Correlation(d) = c /\ ~Plain(d)
    BY <2>1, NoneAssumption DEF Carries, Successors, Correlation, Plain
  <2>3. ~Is(d, "cancelled") /\ ~Is(d, "rescheduled")
    BY <1>1, <1>2, <2>2 DEF MovedInv, Moved
  <2>4. Occupied(d) \/ Is(d, "verification_required")
    BY <1>1, <2>2, <2>3
       DEF TypeOK, Row, Status, InFlight, Terminal, Occupied, SlotOccupying, Is
  <2> QED
    BY <2>2, <2>4
<1> QED
  BY <1>5, <1>6

(* When provider writes take effect in time or never, live requests do not *)
(* outlast STALE_BOOKING_MS, nobody moves events by hand and reschedule    *)
(* tokens are kept apart: a booking is settled as moved, by its request or *)
(* by the reconciler, only once a successor holds or is parked with it.    *)
THEOREM MovedNotLost == Timely /\ TokensKeptApart => (Spec => []NeverZero)
<1> SUFFICES ASSUME Timely, TokensKeptApart
             PROVE  Spec => []NeverZero
  OBVIOUS
<1>1. KeepInv /\ [Next]_vars => KeepInv'
  BY KeepStep
<1> QED
  BY <1>1, KeepInit, ZeroImplied, PTL DEF Spec

(* Under the same conditions an event GuideHerd put in a calendar belongs  *)
(* to somebody: its booking or a successor of it is live or parked, and    *)
(* never does a refusal, a cancellation, a crash or a resolution leave an  *)
(* appointment in the calendar that no row stands for.                     *)
THEOREM NoneOrphaned == Timely /\ TokensKeptApart => (Spec => []NoOrphanEvent)
<1> SUFFICES ASSUME Timely, TokensKeptApart
             PROVE  Spec => []NoOrphanEvent
  OBVIOUS
<1>1. KeepInv /\ [Next]_vars => KeepInv'
  BY KeepStep
<1> QED
  BY <1>1, KeepInit, OrphanImplied, PTL DEF Spec

-----------------------------------------------------------------------------
(* What callers are told, under the same conditions *)

(* A move whose write may still come or land, and a cancellation at work.  *)
Moving(r) == \/ Live(r) /\ req[r].pc \in {"moveCheck", "moving"}
             \/ write[r] = "sent" /\ req[r].op = "move"
Cancelling(r) == Engaged(r) /\ req[r].op = "cancel"

(* Such a request has the booking to itself, and no pass takes it away.    *)
Exclusive ==
  \A r \in Request :
    /\ Moving(r) =>
         /\ Is(Original(r), "rescheduling") /\ ~rows[Original(r)].aged
         /\ \A q \in Request : Moving(q) /\ Original(q) = Original(r) => q = r
    /\ Cancelling(r) =>
         /\ Is(Ctx(r), "cancellation_pending") /\ ~rows[Ctx(r)].aged
         /\ \A q \in Request : Cancelling(q) /\ Ctx(q) = Ctx(r) => q = r

(* The event of e is where row c says, unless the attorney deleted it.     *)
Stands(e, c) == e \notin Deletable => event[e] # None /\ event[e].start = rows[c].start

(* What a reply has confirmed is so until the caller is told of it.        *)
Confirmed ==
  \A r \in Request :
    /\ Live(r) /\ req[r].op = "book" /\ write[r] = "ok" => Stands(Ctx(r), Ctx(r))
    /\ Live(r) /\ req[r].op = "move" /\ write[r] = "ok" => Stands(Original(r), Ctx(r))
    /\ At(r, "settleSuccessor") /\ req[r].verdict = "booked" =>
         Is(Original(r), "rescheduled") /\ Stands(Original(r), Ctx(r))

ToldInv == PlainInv /\ Exclusive /\ Confirmed

(* A row being moved or cancelled by a request at work stays as it is until *)
(* that request settles it.                                                *)
LEMMA HeldStays ==
  ASSUME Timely, LifecycleInv, [Next]_vars, NEW c \in Context,
         rows[c].status \in {"rescheduling", "cancellation_pending"}, ~rows[c].aged,
         NEW r \in Request, Engaged(r), Touches(r, c),
         \A q \in Request : RequestStep(q) =>
           /\ EndsCancelling(q) => Ctx(q) # c
           /\ MovesOriginal(q) => Original(q) # c
  PROVE  rows'[c] = rows[c]
<1> USE DEF Is
<1>1. ASSUME NEW q \in Request, RequestStep(q)
      PROVE  rows'[c] = rows[c]
  <2>1. CASE ClaimsRow(q)
    BY <2>1 DEF ClaimsRow, Claims, OnlyRow
  <2>2. CASE BeginsCancelling
    BY <2>2 DEF BeginsCancelling, Updates
  <2>3. CASE EndsCancelling(q)
    BY <1>1, <2>3 DEF EndsCancelling, Updates
  <2>4. CASE MovesOriginal(q)
    BY <1>1, <2>4 DEF MovesOriginal, Updates
  <2>5. CASE Finishes(q)
    BY <2>5 DEF Finishes, Updates
  <2> QED
    BY <1>1, <2>1, <2>2, <2>3, <2>4, <2>5 DEF RequestStep, RequestRows
<1>2. ASSUME NEW k \in Reconciler, PassStep(k)
      PROVE  rows'[c] = rows[c]
  BY <1>2 DEF PassStep, PassRows, Sweeps, Resolves, ResolvesOriginal, Updates
<1>3. ASSUME OfferStep
      PROVE  rows'[c] = rows[c]
  <2>1. ASSUME NEW x \in Context, Ages(x)
        PROVE  x # c
    BY <2>1 DEF Ages, Engaged, Timely
  <2> QED
    BY <1>3, <2>1
       DEF OfferStep, OfferRows, OnlyRow, OpensFresh, OpensMove, Opens, Updates, Ages
<1> QED
  BY <1>1, <1>2, <1>3, AnyStep DEF ProviderStep, store

(* A move comes to its write from the check of the calendar. *)
LEMMA MovingSteps ==
  ASSUME LifecycleInv, NEW r \in Request, RequestNext(r), req'[r].pc = "moving"
  PROVE  MoveUpdate(r)
<1> USE TypeParts DEF Req
<1>1. ASSUME NEW outcome, Answer(r, outcome)
      PROVE  FALSE
  BY <1>1 DEF Answer, Over, Idle
<1>2. ASSUME NEW st, NEW verdict, Settle(r, st, verdict)
      PROVE  FALSE
  BY <1>2 DEF Settle
<1>3. ASSUME NEW c \in Context,
             CancelBegin(r, c) \/ \E s \in Start : BookClaim(r, c, s) \/ MoveClaim(r, c, s)
      PROVE  FALSE
  BY <1>3 DEF CancelBegin, BookClaim, MoveClaim, Begin
<1>4. ~BookCreate(r) /\ ~Crash(r)
  BY DEF BookCreate, Send, Goto, Crash, Over, Idle
<1>5. ~MoveBegin(r)
  BY <1>1 DEF MoveBegin, Goto
<1>6. ~MovePersistenceFails(r)
  BY <1>2 DEF MovePersistenceFails
<1>7. \A st \in Status, why \in Reason, outcome \in Told : ~CancelSettle(r, st, why, outcome)
  BY <1>1 DEF CancelSettle
<1>8. ~CancelConfirmed(r) /\ ~CancelMismatch(r) /\ ~CancelRefused(r) /\ ~CancelUnverified(r)
  BY <1>7, StatusHas DEF CancelConfirmed, CancelMismatch, CancelRefused, CancelUnverified, Told
<1>9. ~BookRecheckFails(r) /\ ~BookRefused(r) /\ ~BookUnverified(r)
  BY <1>1 DEF BookRecheckFails, BookRefused, BookUnverified
<1>10. ~BookConfirmed(r) /\ ~BookPersistenceFails(r) /\ ~SettleSuccessor(r)
  BY <1>1 DEF BookConfirmed, BookPersistenceFails, SettleSuccessor
<1>11. ~MoveCheckFails(r) /\ ~MoveRefused(r) /\ ~MoveUnverified(r) /\ ~MoveConfirmed(r)
  BY <1>2 DEF MoveCheckFails, MoveRefused, MoveUnverified, MoveConfirmed
<1> QED
  BY <1>3, <1>4, <1>5, <1>6, <1>8, <1>9, <1>10, <1>11 DEF RequestNext

(* What a step of others leaves of a request. *)
LEMMA OthersLeave ==
  ASSUME LifecycleInv, [Next]_vars, NEW r \in Request, ~RequestStep(r)
  PROVE  req'[r] = req[r] /\ (write'[r] = "sent" => write[r] = "sent")
BY AnyStep DEF RequestStep, MovesOn, Starts, PassStep, ProviderStep, OfferStep

LEMMA MovingKept ==
  ASSUME LifecycleInv, NoWriteYet, [Next]_vars, NEW r \in Request, Moving(r)'
  PROVE  /\ req'[r].ctx = req[r].ctx
         /\ \/ Moving(r)
            \/ /\ RequestStep(r) /\ At(r, "begin") /\ req'[r].pc = "moveCheck"
               /\ BeginReschedule(Original(r))
<1>1. LifecycleInv' /\ NoWriteYet'
  BY NextInv, NoWriteYetStep
<1>2. Live(r)' \/ write'[r] = "sent"
  BY DEF Moving
<1>3. req'[r].op = "move"
  BY <1>1 DEF Moving, LifecycleInv, PcMatches, OperationOf, Live
<1>4. req'[r].pc \notin {"recheck", "begin"}
  BY <1>1 DEF Moving, NoWriteYet, Beginning
<1>5. Writes(r) /\ req'[r].ctx = req[r].ctx /\ req[r].op = "move"
  BY <1>2, <1>3, <1>4, WritersKept DEF Writes, Engaged
<1>6. CASE ~RequestStep(r)
  BY <1>5, <1>6, OthersLeave DEF Moving, Live
<1>7. ASSUME RequestStep(r), ~Moving(r)
      PROVE  /\ At(r, "begin") /\ req'[r].pc = "moveCheck"
             /\ BeginReschedule(Original(r))
  <2>1. ~MoveUpdate(r)
    BY <1>7 DEF MoveUpdate, At, Moving, Live
  <2>2. write'[r] # "sent"
    <3>1. ASSUME write'[r] = "sent"
          PROVE  FALSE
      <4>1. ~(write[r] = "sent")
        BY <1>5, <1>7 DEF Moving
      <4>2. At(r, "recheck") \/ \E c \in Context : CancelBegin(r, c)
        BY <1>7, <2>1, <3>1, <4>1, RequestWrites DEF RequestStep
      <4>3. ~At(r, "recheck")
        BY <1>5 DEF LifecycleInv, PcMatches, OperationOf, Live, At
      <4>4. ASSUME NEW c \in Context, CancelBegin(r, c)
            PROVE  FALSE
        BY <1>3, <4>4, BeginShape DEF CancelBegin, Pc
      <4> QED
        BY <4>2, <4>3, <4>4
    <3> QED
      BY <3>1
  <2>3. req'[r].pc = "moveCheck"
    BY <1>7, <2>1, <2>2, MovingSteps DEF Moving, RequestStep
  <2>4. MoveBegin(r)
    <3>1. ASSUME NEW c \in Context, NEW s \in Start, BookClaim(r, c, s) \/ MoveClaim(r, c, s)
          PROVE  FALSE
      BY <1>4, <3>1, <2>3, BeginShape DEF BookClaim, MoveClaim, Pc
    <3> QED
      BY <1>7, <2>3, <3>1, BeginningSteps DEF RequestStep, Beginning
  <2>5. ~Answer(r, "rejected")
    BY <2>3, TypeParts DEF Answer, Over, Idle, Req
  <2> QED
    BY <2>3, <2>4, <2>5 DEF MoveBegin
<1> QED
  BY <1>5, <1>6, <1>7

LEMMA CancellingKept ==
  ASSUME LifecycleInv, [Next]_vars, NEW r \in Request, Cancelling(r)'
  PROVE  \/ Cancelling(r) /\ req'[r].ctx = req[r].ctx
         \/ /\ RequestStep(r) /\ CancelBegin(r, req'[r].ctx)
            /\ req'[r].ctx \in Context
<1>1. CASE ~RequestStep(r)
  BY <1>1, OthersLeave DEF Cancelling, Engaged, Live
<1>2. CASE RequestStep(r) /\ MovesOn(r)
  BY <1>2 DEF Cancelling, Engaged, Live, MovesOn
<1>3. CASE RequestStep(r) /\ Starts(r)
  <2>1. ASSUME NEW c \in Context, NEW s \in Start, BookClaim(r, c, s) \/ MoveClaim(r, c, s)
        PROVE  FALSE
    BY <2>1, BeginShape DEF Cancelling, BookClaim, MoveClaim, Pc
  <2>2. PICK c \in Context : CancelBegin(r, c)
    BY <1>3, <2>1 DEF Starts, Begins
  <2>3. req'[r].ctx = c
    BY <2>2, BeginShape DEF CancelBegin, Pc
  <2> QED
    BY <1>3, <2>2, <2>3
<1> QED
  BY <1>1, <1>2, <1>3 DEF RequestStep

(* A booking taken up for a move or a cancellation is not stale. *)
LEMMA TakenUp ==
  ASSUME TypeOK, NEW c \in Context, BeginReschedule(c) \/ BeginCancellation(c)
  PROVE  /\ Is(c, "booked") /\ rows'[c].aged = FALSE
         /\ BeginReschedule(c) => rows'[c].status = "rescheduling"
         /\ BeginCancellation(c) => rows'[c].status = "cancellation_pending"
<1>1. rows[c] \in Row
  BY DEF TypeOK
<1> QED
  BY <1>1 DEF BeginReschedule, BeginCancellation, Move, Put, TypeOK, Row

LEMMA MovingHolds ==
  ASSUME LifecycleInv, NEW r \in Request, Moving(r)
  PROVE  /\ WorkExists(r) /\ Engaged(r) /\ req[r].op = "move"
         /\ Original(r) \in Context /\ Ctx(r) \in Context /\ ~Is(Ctx(r), "absent")
         /\ Touches(r, Original(r))
<1>1. req[r].op = "move" /\ Engaged(r)
  BY DEF Moving, LifecycleInv, PcMatches, OperationOf, Engaged, Live
<1>2. WorkExists(r)
  BY <1>1 DEF LifecycleInv, RequestsHold
<1> QED
  BY <1>1, <1>2, NoneAssumption DEF WorkExists, Touches

(* A move under way holds its booking, or has just taken it up. *)
LEMMA MovingStep ==
  ASSUME Timely, PlainInv, Exclusive, [Next]_vars, NEW r \in Request, Moving(r)',
         NEW o \in Context, o = Original(r)'
  PROVE  /\ rows'[o].status = "rescheduling" /\ ~rows'[o].aged
         /\ Original(r) = o
         /\ \/ Moving(r)
            \/ /\ RequestStep(r) /\ At(r, "begin") /\ req'[r].pc = "moveCheck"
               /\ Is(o, "booked")
<1>1. LifecycleInv /\ TypeOK /\ NoWriteYet /\ BindingKept
  BY PlainParts
<1>2. /\ req'[r].ctx = req[r].ctx
      /\ \/ Moving(r)
         \/ /\ RequestStep(r) /\ At(r, "begin") /\ req'[r].pc = "moveCheck"
            /\ BeginReschedule(Original(r))
  BY <1>1, MovingKept
<1>3. WorkExists(r) /\ req[r].op = "move"
  BY <1>1, <1>2, MovingHolds
     DEF LifecycleInv, RequestsHold, Engaged, Live, At, PcMatches, OperationOf
<1>4. Original(r) = o
  BY <1>1, <1>2, <1>3, NoneAssumption DEF WorkExists, BindingKept, Original, Ctx
<1>5. CASE Moving(r)
  <2>1. Is(o, "rescheduling") /\ ~rows[o].aged
    BY <1>4, <1>5 DEF Exclusive
  <2>2. Engaged(r) /\ Touches(r, o)
    BY <1>1, <1>4, <1>5, MovingHolds
  <2>3. ASSUME NEW q \in Request, RequestStep(q), MovesOriginal(q), Original(q) = o
        PROVE  FALSE
    <3>1. Live(q) /\ req'[q].pc = "settleSuccessor" /\ RequestNext(q)
      BY <2>1, <2>3 DEF MovesOriginal, RequestStep, Is
    <3>2. Moving(q)
      BY <1>1, <3>1, SettlingSteps
         DEF Moving, At, MoveCheckFails, MoveRefused, MoveUnverified, MoveConfirmed,
             MovePersistenceFails
    <3>3. q = r
      BY <1>4, <1>5, <2>3, <3>2 DEF Exclusive
    <3>4. NothingPending'
      BY DoubleStep DEF PlainInv, DoubleInv
    <3> QED
      BY <3>1, <3>3, <3>4 DEF Moving, NothingPending, At
  <2>4. ASSUME NEW q \in Request, EndsCancelling(q)
        PROVE  Ctx(q) # o
    BY <2>1, <2>4 DEF EndsCancelling, Is
  <2>5. rows'[o] = rows[o]
    BY <1>1, <2>1, <2>2, <2>3, <2>4, HeldStays DEF Is
  <2> QED
    BY <1>4, <1>5, <2>1, <2>5 DEF Is
<1>6. CASE ~Moving(r)
  BY <1>1, <1>2, <1>4, <1>6, TakenUp
<1> QED
  BY <1>5, <1>6

(* A cancellation at work holds its booking, or has just taken it up. *)
LEMMA CancellingStep ==
  ASSUME Timely, PlainInv, Exclusive, [Next]_vars, NEW r \in Request, Cancelling(r)',
         NEW c \in Context, c = Ctx(r)'
  PROVE  /\ rows'[c].status = "cancellation_pending" /\ ~rows'[c].aged
         /\ \/ Cancelling(r) /\ Ctx(r) = c
            \/ /\ RequestStep(r) /\ At(r, "idle") /\ req'[r].pc = "cancelling"
               /\ Is(c, "booked")
<1>1. LifecycleInv /\ TypeOK
  BY PlainParts
<1>2. CASE Cancelling(r) /\ Ctx(r) = c
  <2>1. Is(c, "cancellation_pending") /\ ~rows[c].aged
    BY <1>2 DEF Exclusive
  <2>2. Engaged(r) /\ Touches(r, c)
    BY <1>2, NoneAssumption DEF Cancelling, Touches
  <2>3. ASSUME NEW q \in Request, EndsCancelling(q), Ctx(q) = c
        PROVE  FALSE
    <3>1. q = r
      BY <1>2, <2>3 DEF EndsCancelling, Cancelling, Engaged, Exclusive
    <3> QED
      BY <2>3, <3>1 DEF EndsCancelling, Cancelling, Engaged, Live, Timely
  <2>4. ASSUME NEW q \in Request, MovesOriginal(q)
        PROVE  Original(q) # c
    BY <2>1, <2>4 DEF MovesOriginal, Is
  <2>5. rows'[c] = rows[c]
    BY <1>1, <2>1, <2>2, <2>3, <2>4, HeldStays DEF Is
  <2> QED
    BY <1>2, <2>1, <2>5 DEF Is
<1>3. CASE RequestStep(r) /\ CancelBegin(r, c)
  <2>1. req'[r].pc = "cancelling" /\ At(r, "idle")
    BY <1>1, <1>3, BeginShape DEF CancelBegin, Begin, Pc
  <2> QED
    BY <1>1, <1>3, <2>1, TakenUp DEF CancelBegin
<1>4. req'[r].ctx = c
  BY DEF Ctx
<1> QED
  BY <1>1, <1>2, <1>3, <1>4, CancellingKept DEF Ctx

LEMMA ExclusiveStep ==
  ASSUME Timely, PlainInv, Exclusive, [Next]_vars
  PROVE  Exclusive'
<1>1. LifecycleInv /\ LifecycleInv'
  BY PlainParts, NextInv
<1>2. ASSUME NEW q \in Request, NEW r \in Request, q # r, RequestStep(q)
      PROVE  req'[r] = req[r]
  BY <1>2 DEF RequestStep, MovesOn, Starts
<1>3. ASSUME NEW r \in Request, Moving(r)'
      PROVE  /\ Is(Original(r), "rescheduling")' /\ ~rows'[Original(r)'].aged
             /\ \A q \in Request : Moving(q)' /\ Original(q)' = Original(r)' => q = r
  <2>1. PICK o \in Context : o = Original(r)'
    BY <1>1, <1>3
       DEF Moving, LifecycleInv, RequestsHold, WorkExists, PcMatches, OperationOf, Engaged,
           Live
  <2>2. ASSUME NEW q \in Request, Moving(q)', o = Original(q)'
        PROVE  q = r
    <3>1. CASE Moving(q) /\ Moving(r)
      BY <1>3, <2>1, <2>2, <3>1, MovingStep DEF Exclusive
    <3>2. CASE ~Moving(q) /\ ~Moving(r)
      <4>1. RequestStep(r) /\ At(q, "begin") /\ req'[q].pc = "moveCheck"
        BY <1>3, <2>1, <2>2, <3>2, MovingStep
      <4> QED
        BY <1>2, <4>1 DEF At
    <3>3. ASSUME NEW x \in Request, NEW y \in Request, Moving(x), ~Moving(y),
                 Moving(x)', Moving(y)', o = Original(x)', o = Original(y)'
          PROVE  FALSE
      <4>1. Is(o, "rescheduling")
        BY <3>3, MovingStep DEF Exclusive
      <4> QED
        BY <3>3, <4>1, MovingStep DEF Is
    <3> QED
      BY <1>3, <2>1, <2>2, <3>1, <3>2, <3>3
  <2> QED
    BY <1>3, <2>1, <2>2, MovingStep DEF Is
<1>4. ASSUME NEW r \in Request, Cancelling(r)'
      PROVE  /\ Is(Ctx(r), "cancellation_pending")' /\ ~rows'[Ctx(r)'].aged
             /\ \A q \in Request : Cancelling(q)' /\ Ctx(q)' = Ctx(r)' => q = r
  <2>1. PICK c \in Context : c = Ctx(r)'
    BY <1>1, <1>4 DEF Cancelling, LifecycleInv, RequestsHold, WorkExists
  <2>2. ASSUME NEW q \in Request, Cancelling(q)', c = Ctx(q)'
        PROVE  q = r
    <3>1. CASE Cancelling(q) /\ Ctx(q) = c /\ Cancelling(r) /\ Ctx(r) = c
      BY <3>1 DEF Exclusive
    <3>2. CASE ~(Cancelling(q) /\ Ctx(q) = c) /\ ~(Cancelling(r) /\ Ctx(r) = c)
      <4>1. RequestStep(r) /\ At(q, "idle") /\ req'[q].pc = "cancelling"
        BY <1>4, <2>1, <2>2, <3>2, CancellingStep
      <4> QED
        BY <1>2, <4>1 DEF At
    <3>3. ASSUME NEW x \in Request, NEW y \in Request,
                 Cancelling(x), Ctx(x) = c, ~(Cancelling(y) /\ Ctx(y) = c),
                 Cancelling(y)', c = Ctx(y)'
          PROVE  FALSE
      <4>1. Is(c, "cancellation_pending")
        BY <3>3 DEF Exclusive
      <4> QED
        BY <3>3, <4>1, CancellingStep DEF Is
    <3> QED
      BY <1>4, <2>1, <2>2, <3>1, <3>2, <3>3
  <2> QED
    BY <1>4, <2>1, <2>2, CancellingStep DEF Is
<1> QED
  BY <1>3, <1>4 DEF Exclusive

(* Where a booking is confirmed to be it stays while nobody cancels it or  *)
(* moves it on.                                                            *)
LEMMA StandsStays ==
  ASSUME Timely, PlainInv, [Next]_vars, NEW e \in Context, NEW c \in Context,
         Stands(e, c), rows'[c].start = rows[c].start,
         \A q \in Request : write[q] = "sent" =>
           /\ ~(Cancels(q) /\ Ctx(q) = e)
           /\ ~(Moves(q) /\ Original(q) = e)
  PROVE  Stands(e, c)'
<1>1. LifecycleInv
  BY PlainParts
<1>2. SUFFICES ASSUME e \notin Deletable
               PROVE  event'[e] # None /\ event'[e].start = rows'[c].start
  BY DEF Stands
<1>3. event[e] # None /\ event[e].start = rows[c].start
  BY <1>2 DEF Stands
<1>4. ASSUME event'[e] = None
      PROVE  FALSE
  <2>1. ProviderStep
    BY <1>1, <1>3, <1>4, AnyStep DEF RequestStep, PassStep, OfferStep
  <2>2. ~Attorney
    BY <1>1, <1>2, <1>3, <1>4, TypeParts DEF Attorney, Timely
  <2>3. PICK q \in Request : /\ write[q] = "sent" /\ WorkExists(q)
                             /\ Books(q) \/ Cancels(q) \/ Moves(q)
    BY <1>1, <1>3, <1>4, <2>1, <2>2, ProviderEffect, TypeParts
       DEF ProviderRefuses, Misses, provider
  <2>4. ~Moves(q)
    BY <1>1, <1>3, <1>4, <2>3, TypeParts DEF Moves, Reaches
  <2>5. CASE Books(q)
    <3>1. Ctx(q) = e
      BY <1>1, <1>3, <1>4, <2>5, TypeParts DEF Books, Reaches
    <3>2. LandedOnce
      BY PlainParts
    <3> QED
      BY <1>3, <2>3, <2>5, <3>1, <3>2 DEF LandedOnce, Landed, Engaged, Books
  <2>6. CASE Cancels(q)
    BY <1>1, <1>3, <1>4, <2>3, <2>6, TypeParts DEF Cancels, Reaches
  <2> QED
    BY <2>3, <2>4, <2>5, <2>6
<1>5. event'[e] = event[e]
  BY <1>3, <1>4, EventMoves
<1> QED
  BY <1>3, <1>4, <1>5

(* A confirmation comes from the calendar. *)
LEMMA NewReply ==
  ASSUME LifecycleInv, [Next]_vars, NEW r \in Request, write'[r] = "ok", write[r] # "ok"
  PROVE  /\ WorkExists(r) /\ UNCHANGED <<rows, req>>
         /\ Books(r) \/ Cancels(r) \/ Moves(r)
<1>1. ProviderStep
  <2>1. ASSUME NEW q \in Request, RequestStep(q)
        PROVE  FALSE
    <3>1. q = r
      BY <2>1 DEF RequestStep, MovesOn, Starts
    <3> QED
      BY <2>1, <3>1, RequestWrites DEF RequestStep
  <2> QED
    BY <2>1, AnyStep DEF PassStep, OfferStep
<1>2. ~Attorney
  BY DEF Attorney
<1>3. PICK q \in Request : /\ write[q] = "sent" /\ WorkExists(q)
                           /\ Books(q) \/ Cancels(q) \/ Moves(q)
  BY <1>1, <1>2, ProviderEffect, TypeParts DEF ProviderRefuses, Misses
<1>4. q = r
  BY <1>3, TypeParts DEF Books, Cancels, Moves, Reaches
<1> QED
  BY <1>1, <1>3, <1>4 DEF ProviderStep, store

(* A live request with a reply has had its row for a while. *)
LEMMA RepliedKept ==
  ASSUME Timely, PlainInv, [Next]_vars, NEW r \in Request, Live(r)', write'[r] = "ok"
  PROVE  /\ Live(r) /\ req'[r].ctx = req[r].ctx /\ req'[r].op = req[r].op
         /\ WorkExists(r)
<1>1. LifecycleInv /\ NoWriteYet' /\ LifecycleInv'
  BY PlainParts, NoWriteYetStep, NextInv
<1>2. ASSUME Begins(r)
      PROVE  FALSE
  <2>1. ASSUME NEW c \in Context, NEW s \in Start, BookClaim(r, c, s) \/ MoveClaim(r, c, s)
        PROVE  FALSE
    <3>1. req'[r].pc \in {"recheck", "begin"}
      BY <1>1, <2>1, BeginShape DEF BookClaim, MoveClaim, Pc
    <3> QED
      BY <1>1, <3>1 DEF NoWriteYet, Beginning
  <2>2. ASSUME NEW c \in Context, CancelBegin(r, c)
        PROVE  FALSE
    BY <1>1, <2>2, TypeParts DEF CancelBegin
  <2> QED
    BY <1>2, <2>1, <2>2 DEF Begins
<1>3. Live(r) /\ req'[r].ctx = req[r].ctx /\ req'[r].op = req[r].op
  BY <1>1, <1>2, LiveKept
<1> QED
  BY <1>1, <1>3 DEF LifecycleInv, RequestsHold, Engaged

(* Whoever's write is on its way to a booking holds it.                    *)
LEMMA Underway ==
  ASSUME Exclusive, LifecycleInv, NEW q \in Request, write[q] = "sent", NEW o \in Context
  PROVE  /\ Cancels(q) /\ Ctx(q) = o => Is(o, "cancellation_pending")
         /\ Moves(q) /\ Original(q) = o => Is(o, "rescheduling") /\ Moving(q)
BY DEF Exclusive, Cancels, Moves, Moving, Cancelling, Engaged

LEMMA ConfirmedBooking ==
  ASSUME Timely, ToldInv, [Next]_vars, NEW r \in Request, Live(r)', write'[r] = "ok",
         req'[r].op = "book", NEW c \in Context, c = req'[r].ctx
  PROVE  Stands(c, c)'
<1>1. PlainInv /\ Exclusive /\ Confirmed
  BY DEF ToldInv
<1>2. LifecycleInv /\ InHand /\ BindingKept /\ (\A x \in Context : RowEvent(x)) /\ TypeOK
  BY <1>1, PlainParts
<1>3. Live(r) /\ c = Ctx(r) /\ req[r].op = "book" /\ WorkExists(r)
  BY <1>1, RepliedKept DEF Ctx
<1>4. rows'[c].start = rows[c].start /\ rows[c].start \in Start
  BY <1>2, <1>3, NoneAssumption DEF WorkExists, BindingKept
<1>5. CASE write[r] = "ok"
  <2>1. Stands(c, c)
    BY <1>1, <1>3, <1>5 DEF Confirmed
  <2>2. rows[c].event = None
    BY <1>2, <1>3 DEF InHand, Writes, Engaged, RowEvent, Is
  <2>3. ASSUME NEW q \in Request, write[q] = "sent"
        PROVE  ~(Cancels(q) /\ Ctx(q) = c) /\ ~(Moves(q) /\ Original(q) = c)
    BY <2>2, NoneAssumption DEF Cancels, Moves
  <2> QED
    BY <1>1, <1>4, <2>1, <2>3, StandsStays
<1>6. CASE write[r] # "ok"
  <2>1. UNCHANGED rows /\ Books(r)
    BY <1>2, <1>3, <1>6, NewReply DEF Cancels, Moves
  <2>2. event'[c] = [calendar |-> rows[c].calendar, start |-> rows[c].start]
    BY <1>2, <1>3, <2>1, TypeParts DEF Books, Reaches
  <2>3. event'[c] \in Event
    BY <1>2, <1>3, <1>4, <2>2 DEF Event, TypeOK, Row
  <2> QED
    BY <1>4, <2>2, <2>3, EventAssumption DEF Stands
<1> QED
  BY <1>5, <1>6

LEMMA ConfirmedMove ==
  ASSUME Timely, ToldInv, [Next]_vars, NEW r \in Request, Live(r)', write'[r] = "ok",
         req'[r].op = "move", NEW o \in Context, NEW d \in Context,
         d = req'[r].ctx, o = rows'[d].rescheduleOf
  PROVE  Stands(o, d)'
<1>1. PlainInv /\ Exclusive /\ Confirmed
  BY DEF ToldInv
<1>2. LifecycleInv /\ BindingKept /\ NoWriteYet /\ NothingPending
  BY <1>1, PlainParts
<1>3. Live(r) /\ d = Ctx(r) /\ req[r].op = "move" /\ WorkExists(r)
  BY <1>1, RepliedKept DEF Ctx
<1>4. rows'[d].start = rows[d].start /\ o = Original(r)
  BY <1>2, <1>3, NoneAssumption DEF WorkExists, BindingKept, Original
<1>5. CASE write[r] = "ok"
  <2>1. Stands(o, d)
    BY <1>1, <1>3, <1>4, <1>5 DEF Confirmed
  <2>2. At(r, "moving")
    BY <1>2, <1>3, <1>5
       DEF NothingPending, NoWriteYet, Beginning, LifecycleInv, LifecycleTypeOK, PcMatches,
           OperationOf, At, Live, Pc
  <2>3. Moving(r)
    BY <1>3, <2>2 DEF Moving, At
  <2>4. Is(o, "rescheduling")
    BY <1>1, <1>4, <2>3 DEF Exclusive
  <2>5. ASSUME NEW q \in Request, write[q] = "sent"
        PROVE  ~(Cancels(q) /\ Ctx(q) = o) /\ ~(Moves(q) /\ Original(q) = o)
    <3>1. ~(Cancels(q) /\ Ctx(q) = o)
      BY <1>1, <1>2, <2>4, <2>5, Underway DEF Is
    <3>2. ASSUME Moves(q), Original(q) = o
          PROVE  q = r
      BY <1>1, <1>2, <1>4, <2>3, <2>5, <3>2, Underway DEF Exclusive
    <3> QED
      BY <1>5, <2>5, <3>1, <3>2
  <2> QED
    BY <1>1, <1>4, <2>1, <2>5, StandsStays
<1>6. CASE write[r] # "ok"
  <2>1. UNCHANGED rows /\ Moves(r)
    BY <1>2, <1>3, <1>6, NewReply DEF Books, Cancels
  <2>2. event[o] \in Event
    BY <1>2, <1>4, <2>1, TypeParts DEF Moves
  <2>3. event'[o] = [event[o] EXCEPT !.start = rows[d].start]
    BY <1>2, <1>3, <1>4, <2>1, TypeParts DEF Moves, Reaches
  <2>4. event'[o] \in Event /\ event'[o].start = rows[d].start
    BY <1>3, <1>4, <2>2, <2>3 DEF Event, WorkExists
  <2> QED
    BY <1>4, <2>4, EventAssumption DEF Stands
<1> QED
  BY <1>5, <1>6

(* The calendar has confirmed a move that is about to say so.              *)
LEMMA ConfirmedSettling ==
  ASSUME Timely, ToldInv, [Next]_vars, NEW r \in Request,
         req'[r].pc = "settleSuccessor", req'[r].verdict = "booked",
         NEW o \in Context, NEW d \in Context, d = req'[r].ctx, o = rows'[d].rescheduleOf
  PROVE  rows'[o].status = "rescheduled" /\ Stands(o, d)'
<1>1. PlainInv /\ Exclusive /\ Confirmed
  BY DEF ToldInv
<1>2. LifecycleInv /\ TypeOK /\ BindingKept /\ SettledKept
  BY <1>1, PlainParts
<1>3. ~Begins(r)
  <2>1. ASSUME NEW c \in Context,
               CancelBegin(r, c) \/ \E s \in Start : BookClaim(r, c, s) \/ MoveClaim(r, c, s)
        PROVE  FALSE
    BY <1>2, <2>1, BeginShape DEF CancelBegin, BookClaim, MoveClaim, Pc
  <2> QED
    BY <2>1 DEF Begins
<1>4. Live(r) /\ d = Ctx(r) /\ req'[r].op = req[r].op
  BY <1>2, <1>3, LiveKept DEF Live, Ctx
<1>5. WorkExists(r) /\ req[r].op = "move"
  <2>1. LifecycleInv'
    BY <1>2, NextInv
  <2>2. req'[r].op = "move"
    BY <2>1 DEF LifecycleInv, PcMatches, OperationOf, Live
  <2> QED
    BY <1>2, <1>4, <2>2 DEF LifecycleInv, RequestsHold, Engaged
<1>6. rows'[d].start = rows[d].start /\ o = Original(r)
  BY <1>2, <1>4, <1>5, NoneAssumption DEF WorkExists, BindingKept, Original
<1>7. CASE ~RequestStep(r)
  <2>1. req'[r] = req[r]
    BY <1>2, <1>7, OthersLeave
  <2>2. Is(o, "rescheduled") /\ Stands(o, d)
    BY <1>1, <1>4, <1>6, <2>1 DEF Confirmed, At
  <2>3. rows'[o] = rows[o]
    BY <1>2, <2>2 DEF SettledKept, Is, Terminal
  <2>4. ASSUME NEW q \in Request, write[q] = "sent"
        PROVE  ~(Cancels(q) /\ Ctx(q) = o) /\ ~(Moves(q) /\ Original(q) = o)
    BY <1>1, <1>2, <2>2, <2>4, Underway DEF Is
  <2> QED
    BY <1>1, <1>6, <2>2, <2>3, <2>4, StandsStays DEF Is
<1>8. CASE RequestStep(r)
  <2>1. RequestNext(r) /\ UNCHANGED event
    BY <1>8 DEF RequestStep
  <2>2. ASSUME NEW st, NEW verdict, Settle(r, st, verdict)
        PROVE  verdict = "booked"
    BY <1>2, <2>2, TypeParts DEF Settle, Req
  <2>3. ~MovePersistenceFails(r)
    BY <1>2, <2>2, TypeParts DEF MovePersistenceFails, Req
  <2>4. ~MoveCheckFails(r) /\ ~MoveRefused(r) /\ ~MoveUnverified(r)
    BY <2>2 DEF MoveCheckFails, MoveRefused, MoveUnverified
  <2>5. MoveConfirmed(r)
    BY <1>2, <2>1, <2>3, <2>4, SettlingSteps
  <2>6. At(r, "moving") /\ write[r] = "ok" /\ TryCompleteReschedule(o, "rescheduled", "reschedule")
    BY <1>6, <2>5 DEF MoveConfirmed, GotReply, Settle
  <2>7. Is(o, "rescheduling")
    BY <1>1, <1>4, <1>6, <2>6 DEF Exclusive, Moving, At
  <2>8. CompleteReschedule(o, "rescheduled", "reschedule")
    BY <2>6, <2>7 DEF TryCompleteReschedule
  <2>9. rows'[o].status = "rescheduled"
    BY <1>2, <2>8, CompletionUpdates, StatusHas DEF Updates
  <2>10. Stands(o, d)
    BY <1>1, <1>4, <1>5, <1>6, <2>6 DEF Confirmed
  <2> QED
    BY <1>6, <2>1, <2>9, <2>10 DEF Stands
<1> QED
  BY <1>7, <1>8

LEMMA ConfirmedStep ==
  ASSUME Timely, ToldInv, [Next]_vars
  PROVE  Confirmed'
<1>1. LifecycleInv'
  BY PlainParts, NextInv DEF ToldInv
<1>2. ASSUME NEW r \in Request, Live(r)'
      PROVE  /\ req'[r].ctx \in Context
             /\ req'[r].op = "move" => rows'[req'[r].ctx].rescheduleOf \in Context
             /\ req'[r].pc = "settleSuccessor" => req'[r].op = "move"
  BY <1>1, <1>2
     DEF LifecycleInv, RequestsHold, WorkExists, Engaged, Ctx, Original, PcMatches,
         OperationOf, Live
<1>3. ASSUME NEW r \in Request, Live(r)', req'[r].op = "book", write'[r] = "ok"
      PROVE  Stands(Ctx(r), Ctx(r))'
  <2>1. PICK c \in Context : c = req'[r].ctx
    BY <1>2, <1>3
  <2>2. Stands(c, c)'
    BY <1>3, <2>1, ConfirmedBooking
  <2> QED
    BY <2>1, <2>2 DEF Stands, Ctx
<1>4. ASSUME NEW r \in Request, Live(r)', req'[r].op = "move", write'[r] = "ok"
      PROVE  Stands(Original(r), Ctx(r))'
  <2>1. PICK d \in Context : d = req'[r].ctx
    BY <1>2, <1>4
  <2>2. PICK o \in Context : o = rows'[d].rescheduleOf
    BY <1>2, <1>4, <2>1
  <2>3. Stands(o, d)'
    BY <1>4, <2>1, <2>2, ConfirmedMove
  <2> QED
    BY <2>1, <2>2, <2>3 DEF Stands, Ctx, Original
<1>5. ASSUME NEW r \in Request, At(r, "settleSuccessor")', req'[r].verdict = "booked"
      PROVE  Is(Original(r), "rescheduled")' /\ Stands(Original(r), Ctx(r))'
  <2>1. PICK d \in Context : d = req'[r].ctx
    BY <1>2, <1>5 DEF Live, At
  <2>2. PICK o \in Context : o = rows'[d].rescheduleOf
    BY <1>2, <1>5, <2>1 DEF Live, At
  <2>3. rows'[o].status = "rescheduled" /\ Stands(o, d)'
    BY <1>5, <2>1, <2>2, ConfirmedSettling DEF At
  <2> QED
    BY <2>1, <2>2, <2>3 DEF Stands, Ctx, Original, Is
<1> QED
  BY <1>3, <1>4, <1>5 DEF Confirmed

(* Who tells a caller that an appointment is booked, or moved. *)
LEMMA Telling ==
  ASSUME LifecycleInv, NEW r \in Request, RequestNext(r), NEW c \in Context,
         told'[c] # told[c], told'[c] \in {"booked", "rescheduled"}
  PROVE  /\ c = Ctx(r)
         /\ \/ /\ At(r, "creating") /\ write[r] = "ok"
               /\ Complete(c, "booked", c, "none")
            \/ /\ At(r, "settleSuccessor") /\ req[r].verdict = "booked"
               /\ TryComplete(c, "booked", rows[Original(r)].event, "reschedule")
<1>1. ASSUME NEW outcome, Answer(r, outcome)
      PROVE  c = Ctx(r) /\ outcome = told'[c]
  BY <1>1, TypeParts DEF Answer
<1>2. ~BookRecheckFails(r) /\ ~BookRefused(r) /\ ~BookUnverified(r) /\ ~BookPersistenceFails(r)
  BY <1>1 DEF BookRecheckFails, BookRefused, BookUnverified, BookPersistenceFails
<1>3. ~MoveBegin(r)
  BY <1>1 DEF MoveBegin
<1>4. ASSUME NEW st \in Status, NEW why \in Reason,
             NEW outcome \in {"cancelled", "rejected", "verification_required"},
             CancelSettle(r, st, why, outcome)
      PROVE  FALSE
  BY <1>1, <1>4 DEF CancelSettle
<1>5. ~CancelConfirmed(r) /\ ~CancelMismatch(r) /\ ~CancelRefused(r) /\ ~CancelUnverified(r)
  BY <1>4, StatusHas DEF CancelConfirmed, CancelMismatch, CancelRefused, CancelUnverified
<1>6. CASE BookConfirmed(r)
  BY <1>1, <1>6 DEF BookConfirmed, GotReply
<1>7. CASE SettleSuccessor(r)
  <2>1. req[r].verdict \in Verdict
    BY <1>7 DEF LifecycleInv, PcMatches, SettleSuccessor, At
  <2> QED
    BY <1>1, <1>7, <2>1 DEF SettleSuccessor, Verdict
<1> QED
  BY <1>2, <1>3, <1>5, <1>6, <1>7
     DEF RequestNext, BookClaim, MoveClaim, CancelBegin, BookCreate, MoveCheckFails,
         MoveUpdate, MoveRefused, MoveUnverified, MoveConfirmed, MovePersistenceFails, Crash

LEMMA ToldTruly ==
  ASSUME Timely, ToldInv, [Next]_vars, NEW c \in Context,
         told'[c] # told[c], told'[c] \in {"booked", "rescheduled"},
         Correlation(c) \notin Deletable \cup Movable
  PROVE  rows'[c].status = "booked" /\ event'[Correlation(c)].start = rows'[c].start
<1>1. PlainInv /\ Exclusive /\ Confirmed
  BY DEF ToldInv
<1>2. /\ LifecycleInv /\ TypeOK /\ BindingKept /\ InHand
      /\ \A r \in Request : ReqEvent(r)
  BY <1>1, PlainParts
<1>3. PICK r \in Request : RequestStep(r)
  BY <1>2, AnyStep DEF PassStep, ProviderStep, OfferStep
<1>4. UNCHANGED event /\ RequestNext(r)
  BY <1>3 DEF RequestStep
<1>5. /\ c = Ctx(r)
      /\ \/ /\ At(r, "creating") /\ write[r] = "ok"
            /\ Complete(c, "booked", c, "none")
         \/ /\ At(r, "settleSuccessor") /\ req[r].verdict = "booked"
            /\ TryComplete(c, "booked", rows[Original(r)].event, "reschedule")
  BY <1>2, <1>4, Telling
<1>6. Live(r) /\ req[r].op = OperationOf(req[r].pc) /\ WorkExists(r)
  BY <1>2, <1>5 DEF At, Live, LifecycleInv, PcMatches, RequestsHold, Engaged
<1>7. rows'[c].start = rows[c].start
  BY <1>2, <1>5, <1>6, NoneAssumption DEF WorkExists, BindingKept, OperationOf, At
<1>8. ASSUME NEW ev \in Context \cup {None}, NEW why \in Reason, Complete(c, "booked", ev, why)
      PROVE  rows'[c].status = "booked"
  BY <1>2, <1>8, CompletionUpdates, StatusHas DEF Updates
<1>9. CASE At(r, "creating") /\ write[r] = "ok" /\ Complete(c, "booked", c, "none")
  <2>1. req[r].op = "book" /\ rows[c].rescheduleOf = None
    BY <1>2, <1>5, <1>6, <1>9 DEF ReqEvent, Engaged, OperationOf, At
  <2>2. Correlation(c) = c
    BY <2>1 DEF Correlation
  <2>3. Stands(c, c)
    BY <1>1, <1>5, <1>6, <1>9, <2>1 DEF Confirmed
  <2> QED
    BY <1>4, <1>7, <1>8, <1>9, <2>2, <2>3, StatusHas DEF Stands
<1>10. CASE /\ At(r, "settleSuccessor") /\ req[r].verdict = "booked"
            /\ TryComplete(c, "booked", rows[Original(r)].event, "reschedule")
  <2>1. req[r].op = "move" /\ Original(r) \in Context /\ Original(r) = rows[c].rescheduleOf
    BY <1>5, <1>6, <1>10 DEF OperationOf, At, WorkExists, Original
  <2>2. Correlation(c) = Original(r)
    BY <2>1, NoneAssumption DEF Correlation
  <2>3. Stands(Original(r), c)
    BY <1>1, <1>5, <1>10 DEF Confirmed
  <2>4. Is(c, "booking_in_progress")
    BY <1>2, <1>5, <1>6, <2>1 DEF InHand, Writes, Engaged
  <2>5. rows[Original(r)].event \in Context \cup {None}
    BY <1>2, <2>1 DEF TypeOK, Row
  <2>6. rows'[c].status = "booked"
    BY <1>8, <1>10, <2>4, <2>5, StatusHas DEF TryComplete
  <2> QED
    BY <1>4, <1>7, <2>2, <2>3, <2>6 DEF Stands
<1> QED
  BY <1>5, <1>9, <1>10

LEMMA ToldInvStep ==
  ASSUME Timely, TokensKeptApart, ToldInv, [Next]_vars
  PROVE  ToldInv'
BY PlainStep, ExclusiveStep, ConfirmedStep DEF ToldInv

LEMMA ToldInit == Init => ToldInv
<1> SUFFICES ASSUME Init
             PROVE  ToldInv
  OBVIOUS
<1>1. PlainInv
  BY KeepInit DEF KeepInv
<1>2. \A r \in Request : ~Live(r) /\ write[r] = "none" /\ ~At(r, "settleSuccessor")
  BY DEF Init, Live, Idle, At
<1> QED
  BY <1>1, <1>2 DEF ToldInv, Exclusive, Confirmed, Moving, Cancelling, Engaged

(* Under the same conditions what a caller is told is durable: whenever    *)
(* bookAppointment reports "booked" or confirmReschedule "rescheduled",    *)
(* the row that step leaves is booked, and its event is in the calendar at *)
(* the instant the caller was told, unless the attorney deleted it.        *)
THEOREM ToldWhatIs == Timely /\ TokensKeptApart => (Spec => ToldIsDurable)
<1> SUFFICES ASSUME Timely, TokensKeptApart
             PROVE  Spec => ToldIsDurable
  OBVIOUS
<1>1. ToldInv /\ [Next]_vars => ToldInv'
  BY ToldInvStep
<1>2. ToldInv /\ [Next]_vars =>
        [\A c \in Context :
           /\ told'[c] # told[c]
           /\ told'[c] \in {"booked", "rescheduled"}
           /\ Correlation(c) \notin Deletable \cup Movable
           => /\ rows'[c].status = "booked"
              /\ event'[Correlation(c)].start = rows'[c].start]_vars
  BY ToldTruly
<1> QED
  BY <1>1, <1>2, ToldInit, PTL DEF Spec, ToldIsDurable

-----------------------------------------------------------------------------
(* One change to a booking at a time, under the same conditions            *)

(* Successor c has been taken up to move o and not been refused, or a pass *)
(* has just refused it and has yet to say what becomes of o.               *)
Changing(o, c) ==
  /\ rows[c].rescheduleOf = o
  /\ \/ rows[c].status \notin {"absent", "offered", "expired", "rejected"}
     \/ \E k \in Reconciler : rec[k].pc = "also" /\ rec[k].ctx = c

(* A booking that is being moved, or has been, is not being cancelled too, *)
(* nor moved to a second instant.                                          *)
OneChange ==
  \A o, c \in Context : Changing(o, c) =>
    /\ ~Is(o, "cancellation_pending")
    /\ Is(o, "verification_required") => rows[o].reason = "reschedule"
    /\ \A d \in Context : Changing(o, d) => d = c

OnePass == \A j, k \in Reconciler : j = k

(* A booking that is being moved, has been, or may have been. *)
OnTheMove(o) ==
  \/ rows[o].status \in {"rescheduling", "rescheduled"}
  \/ Is(o, "verification_required") /\ rows[o].reason = "reschedule"

(* The event of a booking is where the booking is, if there is one; there  *)
(* is one, unless the attorney deleted it; a move has taken it along.      *)
AtHome(o)     == event[o] # None => event[o].start = rows[o].start
Standing(o)   == o \notin Deletable => event[o] # None
Arrived(o, c) == Plain(o) /\ OnTheMove(o) /\ Stands(o, c)

(* What is queued as parked for some reason still is, except that a move   *)
(* settles its original along with its successor.                          *)
StillParked(x, why) ==
  \/ Plain(x) /\ why = "reschedule"
  \/ Is(x, "verification_required") /\ rows[x].reason = why

QueueFresh(k) ==
  /\ \A i \in DOMAIN rec[k].queue :
       StillParked(rec[k].queue[i][1], rec[k].queue[i][2])
  /\ \A i, j \in DOMAIN rec[k].queue :
       rec[k].queue[i][1] = rec[k].queue[j][1] => i = j
  /\ rec[k].pc = "resolve" =>
       /\ StillParked(rec[k].ctx, rec[k].why)
       /\ \A i \in DOMAIN rec[k].queue : rec[k].queue[i][1] # rec[k].ctx

(* What a pass has seen of the row it looks at is still so.                *)
SeenTruly(k) ==
  LET c == rec[k].ctx
      o == rows[c].rescheduleOf
  IN /\ rec[k].pc \in {"resolve", "also"} /\ rec[k].seen # None =>
          Plain(Correlation(c))
     /\ rec[k].pc = "resolve" /\ rec[k].seen # None =>
          /\ Plain(c) /\ rec[k].why # "reschedule" => Standing(c)
          /\ ~Plain(c) /\ rec[k].seen = rows[c].start => Arrived(o, c)
     /\ rec[k].pc = "also" =>
          IF rec[k].seen = rows[c].start THEN TRUE
                                         ELSE Is(c, "rejected") /\ AtHome(o)

(* What a row says of its event is so.                                     *)
RowTrue(c) ==
  /\ \/ rows[c].status \in {"booked", "cancellation_pending", "rescheduling"}
     \/ Plain(c) /\ OnTheMove(c)
     => rows[c].event # None
  /\ OnTheMove(c) \/ AtHome(c)
  /\ Plain(c) /\ (Is(c, "booked") \/ OnTheMove(c)) => Standing(c)
  /\ ~Plain(c) /\ rows[c].event # None /\ rows[c].status \notin {"rejected", "expired"} =>
       Arrived(rows[c].rescheduleOf, c)

(* What a request has not changed is as it was.                            *)
NotYet(r) ==
  /\ At(r, "moveCheck") \/ At(r, "moving") =>
       write[r] = "ok" \/ AtHome(Original(r))
  /\ At(r, "cancelling") /\ Plain(Ctx(r)) =>
       write[r] \in {"ok", "event_not_found"} \/ Standing(Ctx(r))

ChangeInv == /\ ToldInv
             /\ MovedInv
             /\ QueueExact
             /\ \A c \in Context : RowTrue(c)
             /\ \A r \in Request : NotYet(r)
             /\ \A k \in Reconciler : QueueFresh(k) /\ SeenTruly(k)

LEMMA ChangeParts ==
  ASSUME ChangeInv, [Next]_vars
  PROVE  /\ ToldInv /\ KeepInv /\ PlainInv /\ Exclusive /\ Confirmed /\ MovedInv
         /\ LifecycleInv /\ TypeOK /\ LifecycleInv' /\ TypeOK'
         /\ NoWriteYet /\ InHand /\ Elsewhere /\ EventsPlain /\ PassPast
         /\ Routes /\ EventPlaced /\ Unchosen /\ LandedOnce /\ CancelInv
         /\ BindingKept /\ RowsStay /\ SettledKept
         /\ \A c \in Context : RowEvent(c)
         /\ \A r \in Request : ReqEvent(r)
         /\ \A c \in Context : RowTrue(c)
         /\ \A r \in Request : NotYet(r)
         /\ \A k \in Reconciler : QueueFresh(k) /\ SeenTruly(k)
<1>1. ToldInv /\ KeepInv /\ PlainInv /\ Exclusive /\ Confirmed /\ MovedInv
  BY DEF ChangeInv, ToldInv, KeepInv
<1>2. LifecycleInv'
  BY <1>1, PlainParts, NextInv
<1> QED
  BY <1>1, <1>2, PlainParts DEF ChangeInv, LifecycleInv, LifecycleTypeOK

(* What a step does to the event of a context. *)
LEMMA EventFate ==
  ASSUME Timely, ToldInv, [Next]_vars, NEW e \in Context, event'[e] # event[e]
  PROVE  /\ UNCHANGED <<rows, req, rec>>
         /\ \/ /\ event[e] = None /\ event'[e] # None /\ Is(e, "booking_in_progress")
               /\ event'[e].start = rows[e].start
            \/ /\ event[e] # None /\ event'[e] = None
               /\ \/ e \in Deletable
                  \/ \E r \in Request : /\ Cancelling(r) /\ Ctx(r) = e
                                        /\ Is(e, "cancellation_pending")
                                        /\ write'[r] = "ok"
            \/ /\ event[e] # None /\ event'[e] # None
               /\ \E r \in Request : /\ Moving(r) /\ Original(r) = e
                                     /\ Is(e, "rescheduling")
                                     /\ Is(Ctx(r), "booking_in_progress")
                                     /\ Ctx(r) \in Context
                                     /\ write'[r] = "ok"
<1>1. /\ PlainInv /\ LifecycleInv /\ Exclusive /\ InHand /\ LandedOnce
  BY PlainParts DEF ToldInv
<1>2. CASE event[e] = None
  <2>1. PICK r \in Request : Books(r) /\ Ctx(r) = e
    BY <1>1, <1>2, NewEvent
  <2>2. event'[e].start = rows[e].start
    BY <1>1, <2>1, TypeParts DEF Books, Reaches
  <2> QED
    BY <1>1, <1>2, <2>2, NewEvent
<1>3. CASE event[e] # None /\ event'[e] = None
  <2>1. ProviderStep
    BY <1>1, <1>3, AnyStep DEF RequestStep, PassStep, OfferStep
  <2>2. UNCHANGED <<rows, req, rec>>
    BY <2>1 DEF ProviderStep, store
  <2>3. CASE Attorney
    BY <1>1, <1>3, <2>2, <2>3, TypeParts DEF Attorney, Timely
  <2>4. CASE ~Attorney
    <3>1. PICK r \in Request : /\ write[r] = "sent" /\ WorkExists(r)
                               /\ Books(r) \/ Cancels(r) \/ Moves(r)
      BY <1>1, <1>3, <2>1, <2>4, ProviderEffect, TypeParts
         DEF ProviderRefuses, Misses, provider
    <3>2. ~Moves(r)
      BY <1>1, <1>3, <3>1, TypeParts, EventAssumption DEF Moves, Reaches, Event, WorkExists
    <3>3. ~Books(r)
      <4>1. SUFFICES ASSUME Books(r)
                     PROVE  FALSE
        OBVIOUS
      <4>2. Ctx(r) = e
        BY <1>1, <1>3, <4>1, TypeParts DEF Books, Reaches
      <4> QED
        BY <1>1, <1>3, <3>1, <4>1, <4>2 DEF LandedOnce, Landed, Engaged, Books
    <3>4. Ctx(r) = e /\ Cancelling(r) /\ write'[r] = "ok"
      BY <1>1, <1>3, <3>1, <3>2, <3>3, TypeParts DEF Cancels, Reaches, Cancelling, Engaged
    <3> QED
      BY <1>1, <1>3, <2>2, <3>4 DEF Exclusive
  <2> QED
    BY <2>3, <2>4
<1>4. CASE event[e] # None /\ event'[e] # None
  <2>1. PICK r \in Request : /\ write[r] = "sent" /\ WorkExists(r) /\ Moves(r)
                             /\ Original(r) = e
    BY <1>1, <1>4, EventMoves
  <2>2. Moving(r) /\ Writes(r) /\ Ctx(r) \in Context
    BY <2>1 DEF Moving, Writes, Engaged, Moves, WorkExists
  <2>3. write'[r] = "ok"
    BY <1>1, <2>1, TypeParts DEF Moves, Reaches
  <2>4. Is(e, "rescheduling") /\ Is(Ctx(r), "booking_in_progress")
    BY <1>1, <2>1, <2>2 DEF Exclusive, InHand
  <2> QED
    BY <1>1, <1>4, <2>1, <2>2, <2>3, <2>4, EventMoves
<1> QED
  BY <1>2, <1>3, <1>4

(* How a row comes to say booked. *)
LEMMA BecomesBooked ==
  ASSUME LifecycleInv, [Next]_vars, NEW c \in Context,
         rows'[c].status = "booked", ~Is(c, "booked")
  PROVE  \/ \E r \in Request :
              /\ Live(r) /\ req[r].op # "cancel" /\ Ctx(r) = c
              /\ Is(c, "booking_in_progress") /\ BookedWith(r, rows'[c].event)
         \/ \E r \in Request :
              /\ Live(r) /\ req[r].op = "cancel" /\ Ctx(r) = c
              /\ Is(c, "cancellation_pending") /\ write[r] = "refused"
              /\ rows'[c].event = rows[c].event
         \/ \E r \in Request :
              /\ Live(r) /\ req[r].op = "move" /\ Original(r) = c
              /\ req[r].pc \in {"moveCheck", "moving"}
              /\ At(r, "moveCheck") \/ write[r] # "ok"
              /\ Is(c, "rescheduling") /\ rows'[c].event = rows[c].event
         \/ \E k \in Reconciler :
              /\ rec[k].pc = "resolve" /\ rec[k].ctx = c
              /\ Is(c, "verification_required") /\ rec[k].seen # None
              /\ Resolution(c, rec[k].why, rec[k].seen) = "booked"
              /\ rec[k].why # "cancellation" => rows'[c].event = Correlation(c)
              /\ rows'[c].event \in {rows[c].event, Correlation(c)}
         \/ \E k \in Reconciler :
              /\ rec[k].pc = "also" /\ rows[rec[k].ctx].rescheduleOf = c
              /\ Is(c, "verification_required") /\ rows'[c].event = rows[c].event
              /\ rec[k].seen # rows[rec[k].ctx].start
<1> USE DEF Is
<1>1. ASSUME NEW r \in Request, RequestStep(r)
      PROVE  \/ /\ Live(r) /\ req[r].op # "cancel" /\ Ctx(r) = c
                /\ Is(c, "booking_in_progress") /\ BookedWith(r, rows'[c].event)
             \/ /\ Live(r) /\ req[r].op = "cancel" /\ Ctx(r) = c
                /\ Is(c, "cancellation_pending") /\ write[r] = "refused"
                /\ rows'[c].event = rows[c].event
             \/ /\ Live(r) /\ req[r].op = "move" /\ Original(r) = c
                /\ req[r].pc \in {"moveCheck", "moving"}
                /\ At(r, "moveCheck") \/ write[r] # "ok"
                /\ Is(c, "rescheduling") /\ rows'[c].event = rows[c].event
  <2>1. ~ClaimsRow(r) /\ ~BeginsCancelling /\ rows' # rows
    BY DEF ClaimsRow, Claims, OnlyRow, BeginsCancelling, Updates
  <2>2. CASE EndsCancelling(r)
    BY <2>2 DEF EndsCancelling, Updates
  <2>3. CASE MovesOriginal(r)
    BY <2>3 DEF MovesOriginal, Updates
  <2>4. CASE Finishes(r)
    BY <2>4 DEF Finishes, Updates
  <2> QED
    BY <1>1, <2>1, <2>2, <2>3, <2>4 DEF RequestStep, RequestRows
<1>2. ASSUME NEW k \in Reconciler, PassStep(k)
      PROVE  \/ /\ rec[k].pc = "resolve" /\ rec[k].ctx = c
                /\ Is(c, "verification_required") /\ rec[k].seen # None
                /\ Resolution(c, rec[k].why, rec[k].seen) = "booked"
                /\ rec[k].why # "cancellation" => rows'[c].event = Correlation(c)
                /\ rows'[c].event \in {rows[c].event, Correlation(c)}
             \/ /\ rec[k].pc = "also" /\ rows[rec[k].ctx].rescheduleOf = c
                /\ Is(c, "verification_required") /\ rows'[c].event = rows[c].event
                /\ rec[k].seen # rows[rec[k].ctx].start
  <2>1. ~Sweeps /\ rows' # rows
    BY DEF Sweeps
  <2>2. CASE Resolves(k)
    BY <2>2 DEF Resolves, Updates
  <2>3. CASE ResolvesOriginal(k)
    BY <2>3 DEF ResolvesOriginal, Updates, OriginalResolution
  <2> QED
    BY <1>2, <2>1, <2>2, <2>3 DEF PassStep, PassRows
<1>3. ~OfferStep
  BY DEF OfferStep, OfferRows, OpensFresh, OpensMove, Opens, OnlyRow, Updates, Ages
<1>4. ~ProviderStep
  BY DEF ProviderStep, store
<1> QED
  BY <1>1, <1>2, <1>3, <1>4, AnyStep

(* A booking starts to be moved from being booked, and keeps its event. *)
LEMMA SetsOut ==
  ASSUME TokensKeptApart, CancelInv, OneChange, [Next]_vars, NEW c \in Context,
         Plain(c), OnTheMove(c)', ~OnTheMove(c)
  PROVE  Is(c, "booked") /\ rows'[c].event = rows[c].event
<1> USE DEF Is, OnTheMove
<1>1. LifecycleInv /\ \A r \in Request : ReqEvent(r)
  BY CancelParts
<1>2. ASSUME NEW r \in Request, RequestStep(r)
      PROVE  Is(c, "booked") /\ rows'[c].event = rows[c].event
  <2>1. ~ClaimsRow(r) /\ ~BeginsCancelling /\ rows' # rows
    BY DEF ClaimsRow, Claims, OnlyRow, BeginsCancelling, Updates
  <2>2. ~EndsCancelling(r)
    BY DEF EndsCancelling, Updates
  <2>3. CASE MovesOriginal(r)
    BY <2>3 DEF MovesOriginal, Updates
  <2>4. ASSUME Finishes(r)
        PROVE  FALSE
    <3>1. Ctx(r) = c /\ Live(r) /\ req[r].op # "book"
      BY <2>4 DEF Finishes, Updates
    <3>2. req[r].op = "move"
      BY <1>1, <2>4, <3>1 DEF Finishes, LifecycleInv, RequestsHold, WorkExists, Engaged
    <3> QED
      BY <1>1, <3>1, <3>2, NoneAssumption
         DEF Plain, LifecycleInv, RequestsHold, WorkExists, Engaged, Original
  <2> QED
    BY <1>2, <2>1, <2>2, <2>3, <2>4 DEF RequestStep, RequestRows
<1>3. ASSUME NEW k \in Reconciler, PassStep(k)
      PROVE  FALSE
  <2>1. ~Sweeps /\ rows' # rows
    BY DEF Sweeps, StaleReason, InFlight
  <2>2. ~Resolves(k)
    BY DEF Resolves, Updates
  <2>3. ASSUME ResolvesOriginal(k)
        PROVE  FALSE
    <3>1. /\ rec[k].pc = "also" /\ rows[rec[k].ctx].rescheduleOf = c
          /\ Is(c, "verification_required")
      BY <2>3 DEF ResolvesOriginal, Updates
    <3>2. rec[k].ctx \in Context
      BY <1>1, <3>1 DEF LifecycleInv, PassesHold
    <3>3. Changing(c, rec[k].ctx)
      BY <3>1 DEF Changing
    <3> QED
      BY <3>1, <3>2, <3>3 DEF OneChange
  <2> QED
    BY <1>3, <2>1, <2>2, <2>3 DEF PassStep, PassRows
<1>4. ~OfferStep
  BY DEF OfferStep, OfferRows, OpensFresh, OpensMove, Opens, OnlyRow, Updates, Ages
<1>5. ~ProviderStep
  BY DEF ProviderStep, store
<1> QED
  BY <1>1, <1>2, <1>3, <1>4, <1>5, AnyStep

(* Who is at work on an event that a successor has is that successor.      *)
LEMMA OnlySuccessor ==
  ASSUME Timely, ChangeInv, OneChange, [Next]_vars,
         NEW o \in Context, NEW c \in Context, Changing(o, c),
         ~Is(c, "booking_in_progress"), NEW r \in Request,
         Live(r) \/ write[r] = "sent", req[r].op = "move"
  PROVE  Original(r) # o
<1>1. InHand /\ LifecycleInv
  BY ChangeParts
<1>2. Writes(r) /\ Ctx(r) \in Context
  BY <1>1 DEF Writes, Engaged, LifecycleInv, RequestsHold, WorkExists
<1>3. Is(Ctx(r), "booking_in_progress")
  BY <1>1, <1>2 DEF InHand
<1>4. Original(r) = o => Changing(o, Ctx(r))
  BY <1>3 DEF Changing, Is, Original
<1> QED
  BY <1>2, <1>3, <1>4 DEF OneChange

(* A booking that has been on the move stops being so only by a request    *)
(* that could not move it, or a pass that has seen it elsewhere.           *)
LEMMA ComesBack ==
  ASSUME ChangeInv, [Next]_vars, NEW o \in Context, Plain(o), OnTheMove(o),
         ~OnTheMove(o)'
  PROVE  \/ \E r \in Request :
              /\ Live(r) /\ req[r].op = "move" /\ Original(r) = o
              /\ req[r].pc \in {"moveCheck", "moving"}
              /\ At(r, "moveCheck") \/ write[r] # "ok"
         \/ \E k \in Reconciler :
              /\ rec[k].pc = "also" /\ rows[rec[k].ctx].rescheduleOf = o
              /\ rec[k].seen # rows[rec[k].ctx].start
<1> USE DEF Is
<1>1. LifecycleInv /\ SettledKept /\ TypeOK /\ \A k \in Reconciler : QueueFresh(k)
  BY ChangeParts
<1>2. CASE rows'[o].status = "booked"
  <2>1. ~\E r \in Request : Live(r) /\ req[r].op # "cancel" /\ Ctx(r) = o
                             /\ Is(o, "booking_in_progress")
    BY DEF OnTheMove
  <2>2. ~Is(o, "booked") /\ ~Is(o, "cancellation_pending")
    BY DEF OnTheMove
  <2>3. ASSUME NEW k \in Reconciler, rec[k].pc = "resolve", rec[k].ctx = o,
               Is(o, "verification_required")
        PROVE  Resolution(o, rec[k].why, rec[k].seen) # "booked"
    <3>1. rec[k].why = "reschedule"
      BY <1>1, <2>3 DEF QueueFresh, StillParked, OnTheMove
    <3> QED
      BY <3>1 DEF Resolution, Plain
  <2> QED
    BY <1>1, <1>2, <2>1, <2>2, <2>3, BecomesBooked
<1>3. CASE rows'[o].status # "booked"
  <2>1. ~Is(o, "rescheduled") /\ rows' # rows
    BY <1>1 DEF SettledKept, Terminal, OnTheMove
  <2>2. ASSUME NEW r \in Request, RequestStep(r)
        PROVE  FALSE
    <3>1. ~ClaimsRow(r) /\ ~BeginsCancelling /\ ~EndsCancelling(r)
      BY DEF ClaimsRow, Claims, OnlyRow, BeginsCancelling, EndsCancelling, Updates, OnTheMove
    <3>2. ~Finishes(r)
      BY DEF Finishes, Updates, OnTheMove
    <3>3. ~MovesOriginal(r)
      BY <1>3 DEF MovesOriginal, Updates, OnTheMove
    <3> QED
      BY <2>1, <2>2, <3>1, <3>2, <3>3 DEF RequestStep, RequestRows
  <2>3. ASSUME NEW k \in Reconciler, PassStep(k)
        PROVE  FALSE
    <3>1. ~Sweeps
      BY DEF Sweeps, StaleReason, InFlight, OnTheMove
    <3>2. ~ResolvesOriginal(k)
      BY <1>3 DEF ResolvesOriginal, Updates, OnTheMove
    <3>3. ASSUME Resolves(k)
          PROVE  FALSE
      <4>1. rec[k].pc = "resolve" /\ rec[k].ctx = o /\ Is(o, "verification_required")
        BY <3>3 DEF Resolves, Updates, OnTheMove
      <4>2. rec[k].why = "reschedule"
        BY <1>1, <4>1 DEF QueueFresh, StillParked, OnTheMove
      <4>3. Resolution(o, rec[k].why, rec[k].seen) = "absent"
        BY <4>2 DEF Resolution, Plain
      <4> QED
        BY <3>3, <4>1, <4>3 DEF Resolves
    <3> QED
      BY <2>1, <2>3, <3>1, <3>2, <3>3 DEF PassStep, PassRows
  <2>4. ~OfferStep
    BY <2>1 DEF OfferStep, OfferRows, OpensFresh, OpensMove, Opens, OnlyRow, Updates, Ages,
                OnTheMove
  <2>5. ~ProviderStep
    BY <2>1 DEF ProviderStep, store
  <2> QED
    BY <1>1, <2>2, <2>3, <2>4, <2>5, AnyStep
<1> QED
  BY <1>2, <1>3

(* What is past keeps what it is, and where it goes. *)
LEMMA PlainStays ==
  ASSUME ChangeInv, [Next]_vars, NEW c \in Context, Past(c)
  PROVE  /\ Plain(c)' <=> Plain(c)
         /\ rows'[c].rescheduleOf = rows[c].rescheduleOf
         /\ rows'[c].start = rows[c].start
         /\ Correlation(c)' = Correlation(c)
         /\ Past(c)'
<1>1. CancelInv
  BY ChangeParts
<1>2. /\ PastNow(c) /\ rows'[c].start = rows[c].start
      /\ rows'[c].rescheduleOf = rows[c].rescheduleOf
  BY <1>1, PastStays
<1> QED
  BY <1>2 DEF Plain, Past, PastNow, Correlation

LEMMA ArrivedStays ==
  ASSUME Timely, ChangeInv, OneChange, [Next]_vars,
         NEW o \in Context, NEW c \in Context, Changing(o, c), Past(c),
         rows[c].status \notin {"expired", "rejected"}, Arrived(o, c),
         \A k \in Reconciler :
           rec[k].pc = "also" /\ rec[k].ctx = c => rec[k].seen = rows[c].start
  PROVE  Arrived(o, c)'
<1>1. PlainInv /\ LifecycleInv /\ ToldInv
  BY ChangeParts
<1>2. Past(o) /\ ~Is(c, "booking_in_progress")
  BY DEF Arrived, OnTheMove, Past, Is
<1>3. Plain(o)' /\ rows'[c].start = rows[c].start
  BY <1>2, PlainStays DEF Arrived
<1>4. OnTheMove(o)'
  <2>1. SUFFICES ASSUME ~OnTheMove(o)'
                 PROVE  FALSE
    OBVIOUS
  <2>2. PICK k \in Reconciler : /\ rec[k].pc = "also" /\ rows[rec[k].ctx].rescheduleOf = o
                                /\ rec[k].seen # rows[rec[k].ctx].start
    BY <1>2, <2>1, ComesBack, OnlySuccessor DEF Arrived
  <2>3. rec[k].ctx \in Context
    BY <1>1, <2>2 DEF LifecycleInv, PassesHold
  <2>4. Changing(o, rec[k].ctx)
    BY <2>2 DEF Changing
  <2> QED
    BY <2>2, <2>3, <2>4 DEF OneChange
<1>5. Stands(o, c)'
  <2>1. SUFFICES ASSUME o \notin Deletable
                 PROVE  event'[o] # None /\ event'[o].start = rows'[c].start
    BY DEF Stands
  <2>2. event[o] # None /\ event[o].start = rows[c].start
    BY <2>1 DEF Arrived, Stands
  <2>3. SUFFICES ASSUME event'[o] # event[o]
                 PROVE  FALSE
    BY <1>3, <2>2
  <2>4. ~Is(o, "cancellation_pending")
    BY DEF Arrived, OnTheMove, Is
  <2>5. PICK r \in Request : Moving(r) /\ Original(r) = o
    BY <1>1, <2>1, <2>2, <2>3, <2>4, EventFate
  <2>6. (Live(r) \/ write[r] = "sent") /\ req[r].op = "move"
    BY <1>1, <2>5 DEF Moving, LifecycleInv, PcMatches, OperationOf
  <2> QED
    BY <1>2, <2>5, <2>6, OnlySuccessor
<1> QED
  BY <1>3, <1>4, <1>5 DEF Arrived

(* A row that is past a claim keeps what the claim and the offer decided. *)
LEMMA PastBound ==
  ASSUME LifecycleInv, [Next]_vars, NEW c \in Context, Past(c)'
  PROVE  /\ Bound(c)
         /\ Plain(c)' <=> Plain(c)
         /\ Correlation(c)' = Correlation(c)
<1>1. Bound(c)
  BY FateOfRows DEF Keeps, OpensFresh, OpensMove, Opens, Claims, Past
<1> QED
  BY <1>1 DEF Bound, Plain, Correlation

(* A booking is taken up to be cancelled or moved from being booked. *)
LEMMA BecomesTaken ==
  ASSUME LifecycleInv, [Next]_vars, NEW c \in Context,
         rows'[c].status \in {"cancellation_pending", "rescheduling"},
         rows[c].status \notin {"cancellation_pending", "rescheduling"}
  PROVE  Is(c, "booked")
<1> USE DEF Is
<1>1. ASSUME NEW r \in Request, RequestStep(r)
      PROVE  Is(c, "booked")
  <2>1. ~ClaimsRow(r) /\ ~EndsCancelling(r) /\ rows' # rows
    BY DEF ClaimsRow, Claims, OnlyRow, EndsCancelling, Updates
  <2>2. ~Finishes(r)
    BY DEF Finishes, Updates
  <2>3. CASE MovesOriginal(r)
    BY <2>3 DEF MovesOriginal, Updates
  <2>4. CASE BeginsCancelling
    BY <2>4 DEF BeginsCancelling, Updates
  <2> QED
    BY <1>1, <2>1, <2>2, <2>3, <2>4 DEF RequestStep, RequestRows
<1>2. ASSUME NEW k \in Reconciler, PassStep(k)
      PROVE  FALSE
  <2>1. ~Sweeps /\ rows' # rows
    BY DEF Sweeps
  <2>2. ~Resolves(k)
    BY DEF Resolves, Updates
  <2>3. ~ResolvesOriginal(k)
    BY DEF ResolvesOriginal, Updates
  <2> QED
    BY <1>2, <2>1, <2>2, <2>3 DEF PassStep, PassRows
<1>3. ~OfferStep
  BY DEF OfferStep, OfferRows, OpensFresh, OpensMove, Opens, OnlyRow, Updates, Ages
<1>4. ~ProviderStep
  BY DEF ProviderStep, store
<1> QED
  BY <1>1, <1>2, <1>3, <1>4, AnyStep

(* The original a pass has yet to settle is on the move. *)
LEMMA AlsoMoves ==
  ASSUME ChangeInv, OneChange, [Next]_vars, NEW k \in Reconciler, NEW o \in Context,
         rec[k].pc = "also", rows[rec[k].ctx].rescheduleOf = o,
         Is(o, "verification_required")
  PROVE  Plain(o) /\ rows[o].reason = "reschedule" /\ OnTheMove(o)
<1>1. LifecycleInv /\ PassPast /\ SeenTruly(k)
  BY ChangeParts
<1>2. rec[k].ctx \in Context /\ rec[k].seen # None
  BY <1>1 DEF LifecycleInv, PassesHold, PassPast
<1>3. Correlation(rec[k].ctx) = o
  BY NoneAssumption DEF Correlation
<1>4. Plain(o)
  BY <1>1, <1>2, <1>3 DEF SeenTruly
<1>5. Changing(o, rec[k].ctx)
  BY DEF Changing
<1> QED
  BY <1>2, <1>4, <1>5 DEF OneChange, OnTheMove

(* What is booked, or taken up from there, has an event to its name. *)
LEMMA EventNamed ==
  ASSUME TokensKeptApart, ChangeInv, OneChange, [Next]_vars, NEW c \in Context,
         \/ rows'[c].status \in {"booked", "cancellation_pending", "rescheduling"}
         \/ Plain(c)' /\ OnTheMove(c)'
  PROVE  rows'[c].event # None
<1>1. /\ CancelInv /\ LifecycleInv /\ TypeOK /\ RowTrue(c)
      /\ \A r \in Request : ReqEvent(r)
  BY ChangeParts
<1>2. \A k \in Reconciler : PassEvent(k)
  BY <1>1 DEF CancelInv
<1>3. SUFFICES ASSUME rows[c].event = None
               PROVE  rows'[c].event # None
  BY <1>1, EventStays
<1>4. /\ rows[c].status \notin {"booked", "cancellation_pending", "rescheduling"}
      /\ ~(Plain(c) /\ OnTheMove(c))
  BY <1>1, <1>3 DEF RowTrue
<1>5. CASE rows'[c].status = "booked"
  <2>1. ASSUME NEW r \in Request, Live(r), req[r].op # "cancel", Ctx(r) = c,
               BookedWith(r, rows'[c].event)
        PROVE  rows'[c].event # None
    <3>1. CASE At(r, "creating")
      BY <2>1, <3>1, NoneAssumption DEF BookedWith, At
    <3>2. CASE ~At(r, "creating")
      <4>1. At(r, "settleSuccessor") /\ rows'[c].event = rows[Original(r)].event
            /\ req[r].verdict = "booked"
        BY <2>1, <3>2 DEF BookedWith
      <4>2. req[r].op = "move" /\ Original(r) \in Context
        BY <1>1, <2>1, <4>1
           DEF At, LifecycleInv, PcMatches, OperationOf, RequestsHold, WorkExists, Engaged
      <4> QED
        BY <1>1, <2>1, <4>1, <4>2, NoneAssumption DEF ReqEvent
    <3> QED
      BY <3>1, <3>2
  <2>2. ASSUME NEW k \in Reconciler, rec[k].pc = "resolve", rec[k].ctx = c,
               rec[k].why # "cancellation" => rows'[c].event = Correlation(c)
        PROVE  rows'[c].event # None
    <3>1. rec[k].why # "cancellation"
      BY <1>2, <1>3, <2>2 DEF PassEvent
    <3> QED
      BY <2>2, <3>1, NoneAssumption DEF Correlation
  <2>3. ASSUME NEW k \in Reconciler, rec[k].pc = "also",
               rows[rec[k].ctx].rescheduleOf = c, Is(c, "verification_required")
        PROVE  FALSE
    BY <1>4, <2>3, AlsoMoves
  <2> QED
    BY <1>1, <1>4, <1>5, <2>1, <2>2, <2>3, BecomesBooked DEF Is
<1>6. CASE rows'[c].status \in {"cancellation_pending", "rescheduling"}
  BY <1>1, <1>4, <1>6, BecomesTaken DEF Is
<1>7. CASE Plain(c)' /\ OnTheMove(c)'
  <2>1. Past(c)'
    BY <1>7 DEF OnTheMove, Past, Is
  <2>2. Plain(c)
    BY <1>1, <1>7, <2>1, PastBound
  <2> QED
    BY <1>1, <1>4, <1>7, <2>2, SetsOut DEF Is
<1> QED
  BY <1>5, <1>6, <1>7

(* An event that is elsewhere is that of a booking on the move. *)
LEMMA HomeOrMoving ==
  ASSUME Timely, ChangeInv, [Next]_vars, NEW c \in Context
  PROVE  OnTheMove(c)' \/ AtHome(c)'
<1>1. /\ ToldInv /\ LifecycleInv /\ TypeOK /\ RowTrue(c) /\ EventsPlain /\ EventPlaced
      /\ NoWriteYet /\ BindingKept
      /\ \A r \in Request : NotYet(r)
      /\ \A k \in Reconciler : SeenTruly(k)
  BY ChangeParts
<1>2. CASE event'[c] # event[c]
  BY <1>1, <1>2, EventFate DEF AtHome, OnTheMove, Is
<1>3. CASE event'[c] = event[c] /\ event[c] # None
  <2>1. Plain(c) /\ rows'[c].start = rows[c].start
    BY <1>1, <1>3 DEF EventsPlain, EventPlaced, Chosen, BindingKept
  <2>2. SUFFICES ASSUME ~AtHome(c), ~OnTheMove(c)'
                 PROVE  FALSE
    BY <1>3, <2>1 DEF AtHome
  <2>3. OnTheMove(c)
    BY <1>1, <2>2 DEF RowTrue
  <2>4. ASSUME NEW r \in Request, Live(r), Original(r) = c,
               req[r].pc \in {"moveCheck", "moving"},
               At(r, "moveCheck") \/ write[r] # "ok"
        PROVE  FALSE
    <3>1. write[r] # "ok"
      BY <1>1, <2>4 DEF NoWriteYet, Beginning, At
    <3> QED
      BY <1>1, <2>2, <2>4, <3>1 DEF NotYet, At
  <2>5. ASSUME NEW k \in Reconciler, rec[k].pc = "also",
               rows[rec[k].ctx].rescheduleOf = c, rec[k].seen # rows[rec[k].ctx].start
        PROVE  FALSE
    BY <1>1, <2>2, <2>5 DEF SeenTruly
  <2> QED
    BY <2>1, <2>2, <2>3, <2>4, <2>5, ComesBack
<1>4. CASE event'[c] = None
  BY <1>4 DEF AtHome
<1> QED
  BY <1>2, <1>3, <1>4

(* A booking, or one on the move, has its event until it is deleted.       *)
LEMMA BookingStands ==
  ASSUME Timely, TokensKeptApart, ChangeInv, OneChange, [Next]_vars, NEW c \in Context,
         Plain(c)', Is(c, "booked")' \/ OnTheMove(c)'
  PROVE  Standing(c)'
<1>1. /\ ToldInv /\ CancelInv /\ LifecycleInv /\ Confirmed /\ RowTrue(c)
      /\ \A r \in Request : NotYet(r)
      /\ \A k \in Reconciler : SeenTruly(k)
  BY ChangeParts
<1>2. SUFFICES ASSUME c \notin Deletable, event'[c] = None
               PROVE  FALSE
  BY DEF Standing
<1>3. Past(c)'
  BY DEF Past, OnTheMove, Is
<1>4. Plain(c)
  BY <1>1, <1>3, PastBound
<1>5. event[c] = None
  <2>1. SUFFICES ASSUME event[c] # None
                 PROVE  FALSE
    OBVIOUS
  <2>2. UNCHANGED rows /\ Is(c, "cancellation_pending")
    BY <1>1, <1>2, <2>1, EventFate
  <2> QED
    BY <2>2 DEF Is, OnTheMove
<1>6. ~Is(c, "booked") /\ ~OnTheMove(c)
  BY <1>1, <1>2, <1>4, <1>5 DEF RowTrue, Standing
<1>7. ~OnTheMove(c)'
  BY <1>1, <1>4, <1>6, SetsOut
<1>8. ASSUME NEW r \in Request, Live(r), req[r].op # "cancel", Ctx(r) = c,
             BookedWith(r, rows'[c].event)
      PROVE  FALSE
  <2>1. CASE At(r, "creating") /\ write[r] = "ok"
    <3>1. req[r].op = "book"
      BY <1>1, <1>8, <2>1 DEF At, LifecycleInv, PcMatches, OperationOf
    <3> QED
      BY <1>1, <1>2, <1>5, <1>8, <2>1, <3>1 DEF Confirmed, Stands
  <2>2. CASE At(r, "settleSuccessor")
    <3>1. req[r].op = "move" /\ Original(r) \in Context
      BY <1>1, <1>8, <2>2
         DEF At, LifecycleInv, PcMatches, OperationOf, RequestsHold, WorkExists, Engaged
    <3> QED
      BY <1>4, <1>8, <3>1, NoneAssumption DEF Plain, Original
  <2> QED
    BY <1>8, <2>1, <2>2 DEF BookedWith
<1>9. ASSUME NEW r \in Request, Live(r), req[r].op = "cancel", Ctx(r) = c,
             write[r] = "refused"
      PROVE  FALSE
  <2>1. At(r, "cancelling")
    BY <1>1, <1>9 DEF At, LifecycleInv, PcMatches, OperationOf, Live
  <2> QED
    BY <1>1, <1>2, <1>4, <1>5, <1>9, <2>1 DEF NotYet, Standing
<1>10. ASSUME NEW k \in Reconciler, rec[k].pc = "resolve", rec[k].ctx = c,
              rec[k].seen # None, Resolution(c, rec[k].why, rec[k].seen) = "booked"
       PROVE  FALSE
  <2>1. rec[k].why # "reschedule"
    BY <1>4, <1>10 DEF Resolution, Plain
  <2> QED
    BY <1>1, <1>2, <1>4, <1>5, <1>10, <2>1 DEF SeenTruly, Standing
<1>11. ASSUME NEW k \in Reconciler, rec[k].pc = "also",
              rows[rec[k].ctx].rescheduleOf = c, Is(c, "verification_required")
       PROVE  FALSE
  BY <1>6, <1>11, AlsoMoves
<1>12. ~Is(c, "rescheduling")
  BY <1>6 DEF OnTheMove, Is
<1> QED
  BY <1>1, <1>6, <1>7, <1>8, <1>9, <1>10, <1>11, <1>12, BecomesBooked DEF Is

(* How a successor comes by the event of the booking it moves. *)
LEMMA GetsEvent ==
  ASSUME ChangeInv, [Next]_vars, NEW c \in Context, ~Plain(c),
         rows[c].event = None, rows'[c].event # None
  PROVE  \/ \E r \in Request :
              /\ RequestStep(r) /\ Ctx(r) = c /\ OnlyRow(c) /\ Bound(c)
              /\ At(r, "settleSuccessor") /\ req[r].verdict = "booked"
         \/ \E k \in Reconciler :
              /\ PassStep(k) /\ rec[k].ctx = c /\ OnlyRow(c) /\ Bound(c)
              /\ rec[k].pc = "resolve" /\ rec[k].seen # None
              /\ rec[k].seen = rows[c].start
<1>1. /\ LifecycleInv /\ CancelInv
      /\ \A r \in Request : ReqEvent(r)
  BY ChangeParts
<1>2. \A k \in Reconciler : PassEvent(k)
  BY <1>1 DEF CancelInv
<1>3. ASSUME NEW r \in Request, RequestStep(r)
      PROVE  /\ Ctx(r) = c /\ OnlyRow(c) /\ Bound(c)
             /\ At(r, "settleSuccessor") /\ req[r].verdict = "booked"
  <2>1. ~ClaimsRow(r) /\ ~BeginsCancelling /\ rows' # rows
    BY DEF ClaimsRow, Claims, OnlyRow, BeginsCancelling, Updates
  <2>2. ~EndsCancelling(r) /\ ~MovesOriginal(r)
    BY DEF EndsCancelling, MovesOriginal, Updates
  <2>3. CASE Finishes(r)
    <3>1. /\ Ctx(r) = c /\ Live(r) /\ OnlyRow(c) /\ Bound(c)
          /\ Earns(r, rows'[c].event)
      BY <2>3 DEF Finishes, Updates, OnlyRow
    <3>2. req[r].op # "book"
      BY <1>1, <3>1 DEF ReqEvent, Engaged, Plain
    <3> QED
      BY <3>1, <3>2 DEF Earns, At
  <2> QED
    BY <1>3, <2>1, <2>2, <2>3 DEF RequestStep, RequestRows
<1>4. ASSUME NEW k \in Reconciler, PassStep(k)
      PROVE  /\ rec[k].ctx = c /\ OnlyRow(c) /\ Bound(c)
             /\ rec[k].pc = "resolve" /\ rec[k].seen # None
             /\ rec[k].seen = rows[c].start
  <2>1. ~Sweeps /\ rows' # rows
    BY DEF Sweeps
  <2>2. ~ResolvesOriginal(k)
    BY DEF ResolvesOriginal, Updates
  <2>3. CASE Resolves(k)
    <3>1. /\ rec[k].ctx = c /\ OnlyRow(c) /\ Bound(c) /\ rec[k].pc = "resolve"
          /\ rec[k].seen # None
          /\ Resolution(c, rec[k].why, rec[k].seen) = "booked"
      BY <2>3 DEF Resolves, Updates, OnlyRow
    <3>2. rec[k].why # "cancellation"
      BY <1>2, <3>1 DEF PassEvent
    <3>3. rec[k].seen = rows[c].start
      BY <3>1, <3>2 DEF Resolution, Plain
    <3> QED
      BY <3>1, <3>3
  <2> QED
    BY <1>4, <2>1, <2>2, <2>3 DEF PassStep, PassRows
<1>5. ~OfferStep
  BY DEF OfferStep, OfferRows, OpensFresh, OpensMove, Opens, OnlyRow, Updates, Ages
<1>6. ~ProviderStep
  BY DEF ProviderStep, store
<1> QED
  BY <1>1, <1>3, <1>4, <1>5, <1>6, AnyStep

(* A successor that has the event has moved its booking. *)
LEMMA SuccessorArrived ==
  ASSUME Timely, TokensKeptApart, ChangeInv, OneChange, [Next]_vars,
         NEW c \in Context, NEW o, o = rows'[c].rescheduleOf, o # None,
         rows'[c].event # None, rows'[c].status \notin {"rejected", "expired"}
  PROVE  Arrived(o, c)'
<1>1. /\ ToldInv /\ CancelInv /\ LifecycleInv /\ TypeOK /\ Confirmed /\ RowTrue(c)
      /\ SettledKept /\ Elsewhere
      /\ \A d \in Context : RowEvent(d)
      /\ \A r \in Request : ReqEvent(r)
      /\ \A k \in Reconciler : SeenTruly(k)
  BY ChangeParts
<1>2. CASE rows[c].event # None
  <2>1. Past(c)
    BY <1>1, <1>2 DEF RowEvent, Past
  <2>2. rows[c].rescheduleOf = o /\ ~Plain(c)
    BY <2>1, PlainStays DEF Plain
  <2>3. rows[c].status \notin {"rejected", "expired"}
    BY <1>1 DEF SettledKept, Terminal
  <2>4. Arrived(o, c) /\ o \in Context
    BY <1>1, <1>2, <2>2, <2>3 DEF RowTrue, TypeOK, Row
  <2>5. Changing(o, c)
    BY <2>1, <2>2, <2>3 DEF Changing, Past
  <2>6. ASSUME NEW k \in Reconciler, rec[k].pc = "also", rec[k].ctx = c
        PROVE  rec[k].seen = rows[c].start
    BY <1>1, <2>3, <2>6 DEF SeenTruly, Is
  <2> QED
    BY <2>1, <2>3, <2>4, <2>5, <2>6, ArrivedStays
<1>3. CASE rows[c].event = None
  <2>1. Past(c)'
    <3>1. Fate(c)
      BY <1>1, AnyFate
    <3> QED
      BY <1>3, <3>1 DEF Fate, Past
  <2>2. rows[c].rescheduleOf = o /\ ~Plain(c)
    BY <1>1, <2>1, PastBound DEF Bound, Plain
  <2>3. o \in Context /\ o # c
    BY <1>1, <2>2 DEF TypeOK, Row, Elsewhere
  <2>4. Arrived(o, c) /\ OnlyRow(c) /\ Bound(c) /\ UNCHANGED event
    <3>1. ASSUME NEW r \in Request, RequestStep(r), Ctx(r) = c, At(r, "settleSuccessor"),
                 req[r].verdict = "booked"
          PROVE  Arrived(o, c) /\ UNCHANGED event
      <4>1. Original(r) = o
        BY <2>2, <3>1 DEF Original
      <4>2. Is(o, "rescheduled") /\ Stands(o, c)
        BY <1>1, <3>1, <4>1 DEF Confirmed
      <4>3. Live(r) /\ req[r].op = "move"
        BY <1>1, <3>1 DEF At, Live, LifecycleInv, PcMatches, OperationOf
      <4>4. rows[o].event = o
        BY <1>1, <3>1, <4>1, <4>3 DEF ReqEvent
      <4>5. Plain(o)
        <5>1. Correlation(o) = o
          BY <1>1, <2>3, <4>4, NoneAssumption DEF RowEvent
        <5> QED
          BY <1>1, <2>3, <5>1 DEF Correlation, Elsewhere, Plain
      <4> QED
        BY <3>1, <4>2, <4>5 DEF Arrived, OnTheMove, Is, RequestStep
    <3>2. ASSUME NEW k \in Reconciler, PassStep(k), rec[k].ctx = c,
                 rec[k].pc = "resolve", rec[k].seen # None, rec[k].seen = rows[c].start
          PROVE  Arrived(o, c) /\ UNCHANGED event
      BY <1>1, <2>2, <3>2 DEF SeenTruly, PassStep
    <3> QED
      BY <1>3, <2>2, <3>1, <3>2, GetsEvent
  <2>5. rows'[o] = rows[o] /\ rows'[c].start = rows[c].start
    BY <2>3, <2>4 DEF OnlyRow, Bound
  <2> QED
    BY <2>4, <2>5 DEF Arrived, Plain, OnTheMove, Is, Stands
<1> QED
  BY <1>2, <1>3

LEMMA RowTrueStep ==
  ASSUME Timely, TokensKeptApart, ChangeInv, OneChange, [Next]_vars, NEW c \in Context
  PROVE  RowTrue(c)'
<1>1. \/ rows'[c].status \in {"booked", "cancellation_pending", "rescheduling"}
      \/ Plain(c)' /\ OnTheMove(c)'
      => rows'[c].event # None
  BY EventNamed
<1>2. OnTheMove(c)' \/ AtHome(c)'
  BY HomeOrMoving
<1>3. Plain(c)' /\ (Is(c, "booked")' \/ OnTheMove(c)') => Standing(c)'
  BY BookingStands
<1>4. ASSUME ~Plain(c)', rows'[c].event # None,
             rows'[c].status \notin {"rejected", "expired"}
      PROVE  Arrived(rows[c].rescheduleOf, c)'
  <2>1. PICK o : o = rows'[c].rescheduleOf
    OBVIOUS
  <2>2. Arrived(o, c)'
    BY <1>4, <2>1, SuccessorArrived DEF Plain
  <2> QED
    BY <2>1, <2>2 DEF Arrived, Plain, OnTheMove, Is, Stands
<1> QED
  BY <1>1, <1>2, <1>3, <1>4 DEF RowTrue

(* A reply, of any kind, stays until its request takes it. *)
LEMMA AnswerStays ==
  ASSUME LifecycleInv, [Next]_vars, NEW r \in Request, write[r] # "sent", ~RequestStep(r)
  PROVE  write'[r] = write[r] /\ req'[r] = req[r]
<1>1. ASSUME NEW q \in Request, RequestStep(q)
      PROVE  write'[r] = write[r] /\ req'[r] = req[r]
  BY <1>1 DEF RequestStep, MovesOn, Starts
<1>2. ASSUME ProviderStep
      PROVE  write'[r] = write[r] /\ req'[r] = req[r]
  BY <1>2, ProviderEffect, TypeParts
     DEF ProviderStep, ProviderRefuses, Attorney, Books, Cancels, Moves, Misses, Reaches
<1> QED
  BY <1>1, <1>2, AnyStep DEF PassStep, OfferStep

(* A cancellation sends its write as it begins. *)
LEMMA CancellingSteps ==
  ASSUME LifecycleInv, NEW r \in Request, RequestNext(r), req'[r].pc = "cancelling"
  PROVE  At(r, "idle")
<1> USE TypeParts DEF Req
<1>1. ASSUME NEW outcome, Answer(r, outcome)
      PROVE  FALSE
  BY <1>1 DEF Answer, Over, Idle
<1>2. ASSUME NEW st, NEW verdict, Settle(r, st, verdict)
      PROVE  FALSE
  BY <1>2 DEF Settle
<1>3. ASSUME NEW c \in Context,
             CancelBegin(r, c) \/ \E s \in Start : BookClaim(r, c, s) \/ MoveClaim(r, c, s)
      PROVE  At(r, "idle")
  BY <1>3 DEF CancelBegin, BookClaim, MoveClaim, Begin
<1>4. ~BookCreate(r) /\ ~Crash(r) /\ ~MoveUpdate(r)
  BY DEF BookCreate, MoveUpdate, Send, Goto, Crash, Over, Idle
<1>5. ~MoveBegin(r)
  BY <1>1 DEF MoveBegin, Goto
<1>6. ~MovePersistenceFails(r)
  BY <1>2 DEF MovePersistenceFails
<1>7. \A st \in Status, why \in Reason, outcome \in Told : ~CancelSettle(r, st, why, outcome)
  BY <1>1 DEF CancelSettle
<1>8. ~CancelConfirmed(r) /\ ~CancelMismatch(r) /\ ~CancelRefused(r) /\ ~CancelUnverified(r)
  BY <1>7, StatusHas DEF CancelConfirmed, CancelMismatch, CancelRefused, CancelUnverified, Told
<1> QED
  BY <1>1, <1>2, <1>3, <1>4, <1>5, <1>6, <1>8
     DEF RequestNext, BookRecheckFails, BookRefused, BookUnverified, BookConfirmed,
         BookPersistenceFails, MoveCheckFails, MoveRefused, MoveUnverified,
         MoveConfirmed, SettleSuccessor

(* Until its calendar says so, a move has left the event where it was.     *)
LEMMA MoveNotYet ==
  ASSUME Timely, ChangeInv, [Next]_vars, NEW r \in Request,
         At(r, "moveCheck")' \/ At(r, "moving")'
  PROVE  write'[r] = "ok" \/ AtHome(Original(r))'
<1>1. /\ ToldInv /\ PlainInv /\ LifecycleInv /\ Exclusive /\ NoWriteYet /\ CancelInv /\ NotYet(r)
      /\ LifecycleInv'
      /\ \A c \in Context : RowTrue(c)
  BY ChangeParts
<1>2. Moving(r)'
  BY DEF Moving, Live, At
<1>3. PICK o : o = Original(r)'
  OBVIOUS
<1>4. o \in Context
  BY <1>1, <1>2, <1>3 DEF Moving, LifecycleInv, RequestsHold, WorkExists, Engaged, PcMatches,
                          OperationOf
<1>5. SUFFICES write'[r] = "ok" \/ AtHome(o)'
  BY <1>3 DEF AtHome
<1>6. /\ rows'[o].status = "rescheduling" /\ Original(r) = o
      /\ \/ Moving(r)
         \/ /\ RequestStep(r) /\ At(r, "begin") /\ req'[r].pc = "moveCheck"
            /\ Is(o, "booked")
  BY <1>1, <1>2, <1>3, <1>4, MovingStep
<1>7. CASE RequestStep(r) /\ Is(o, "booked")
  <2>1. AtHome(o)
    BY <1>1, <1>4, <1>7 DEF RowTrue, OnTheMove, Is
  <2>2. rows'[o].start = rows[o].start
    BY <1>1, <1>4, <1>7, PlainStays DEF Past, Is
  <2> QED
    BY <1>7, <2>1, <2>2 DEF AtHome, RequestStep
<1>8. CASE Moving(r)
  <2>1. Is(o, "rescheduling")
    BY <1>1, <1>6, <1>8 DEF Exclusive
  <2>2. rows'[o].start = rows[o].start
    BY <1>4, <2>1, PlainStays DEF Past, Is
  <2>3. CASE RequestStep(r)
    <3>1. At(r, "moveCheck") /\ req'[r].pc = "moving"
      <4>1. CASE req'[r].pc = "moving"
        BY <1>1, <2>3, <4>1, MovingSteps DEF RequestStep, MoveUpdate
      <4>2. CASE req'[r].pc = "moveCheck"
        <5>1. MoveBegin(r)
          BY <1>1, <2>3, <4>2, BeginningSteps, BeginShape
             DEF RequestStep, Beginning, BookClaim, MoveClaim, Pc
        <5> QED
          BY <1>1, <1>8, <5>1 DEF MoveBegin, At, Moving, NoWriteYet, Beginning
      <4> QED
        BY <4>1, <4>2 DEF At
    <3>2. write[r] # "ok"
      BY <1>1, <3>1 DEF NoWriteYet, Beginning, At
    <3>3. AtHome(o)
      BY <1>1, <1>6, <3>1, <3>2 DEF NotYet
    <3> QED
      BY <2>2, <2>3, <3>3 DEF AtHome, RequestStep
  <2>4. CASE ~RequestStep(r)
    <3>1. req'[r] = req[r]
      BY <1>1, <2>4, OthersLeave
    <3>2. At(r, "moveCheck") \/ At(r, "moving")
      BY <3>1 DEF At
    <3>3. CASE write[r] = "ok"
      BY <1>1, <2>4, <3>3, ReplyStays
    <3>4. CASE AtHome(o)
      <4>1. CASE event'[o] = event[o] \/ event'[o] = None
        BY <2>2, <3>4, <4>1 DEF AtHome
      <4>2. CASE event'[o] # event[o] /\ event'[o] # None
        <5>1. PICK q \in Request : Moving(q) /\ Original(q) = o /\ write'[q] = "ok"
          BY <1>1, <1>4, <2>1, <4>2, EventFate DEF Is
        <5> QED
          BY <1>1, <1>6, <1>8, <5>1 DEF Exclusive
      <4> QED
        BY <4>1, <4>2
    <3> QED
      BY <1>1, <1>6, <3>2, <3>3, <3>4 DEF NotYet
  <2> QED
    BY <2>3, <2>4
<1> QED
  BY <1>6, <1>7, <1>8

(* Until its calendar says so, a cancellation has left the event standing. *)
LEMMA CancelNotYet ==
  ASSUME Timely, ChangeInv, [Next]_vars, NEW r \in Request,
         At(r, "cancelling")', Plain(Ctx(r))'
  PROVE  write'[r] \in {"ok", "event_not_found"} \/ Standing(Ctx(r))'
<1>1. /\ ToldInv /\ PlainInv /\ LifecycleInv /\ Exclusive /\ NoWriteYet /\ CancelInv /\ NotYet(r)
      /\ LifecycleInv'
      /\ \A c \in Context : RowTrue(c)
  BY ChangeParts
<1>2. Cancelling(r)'
  BY <1>1 DEF Cancelling, Engaged, Live, At, LifecycleInv, PcMatches, OperationOf
<1>3. PICK c : c = Ctx(r)'
  OBVIOUS
<1>4. c \in Context
  BY <1>1, <1>2, <1>3 DEF Cancelling, LifecycleInv, RequestsHold, WorkExists
<1>5. SUFFICES write'[r] \in {"ok", "event_not_found"} \/ Standing(c)'
  BY <1>3 DEF Standing
<1>6. /\ rows'[c].status = "cancellation_pending"
      /\ \/ Cancelling(r) /\ Ctx(r) = c
         \/ /\ RequestStep(r) /\ At(r, "idle") /\ req'[r].pc = "cancelling"
            /\ Is(c, "booked")
  BY <1>1, <1>2, <1>3, <1>4, CancellingStep
<1>7. Plain(c)
  BY <1>1, <1>3, <1>4, <1>6, PastBound DEF Past, Plain
<1>8. CASE RequestStep(r) /\ Is(c, "booked")
  BY <1>1, <1>4, <1>7, <1>8 DEF RowTrue, Standing, RequestStep
<1>9. CASE Cancelling(r) /\ Ctx(r) = c
  <2>1. ~RequestStep(r)
    <3>1. ~At(r, "idle")
      BY <1>1, <1>9 DEF Cancelling, Engaged, Live, At, NoWriteYet, Beginning
    <3> QED
      BY <1>1, <3>1, CancellingSteps DEF RequestStep, At
  <2>2. req'[r] = req[r]
    BY <1>1, <2>1, OthersLeave
  <2>3. CASE write[r] \in {"ok", "event_not_found"}
    BY <1>1, <2>1, <2>3, AnswerStays
  <2>4. CASE Standing(c)
    <3>1. SUFFICES ASSUME c \notin Deletable, event[c] # None, event'[c] = None
                   PROVE  write'[r] = "ok"
      BY <2>4 DEF Standing
    <3>2. PICK q \in Request : Cancelling(q) /\ Ctx(q) = c /\ write'[q] = "ok"
      BY <1>1, <1>4, <3>1, EventFate
    <3> QED
      BY <1>1, <1>9, <3>2 DEF Exclusive
  <2> QED
    BY <1>1, <1>7, <1>9, <2>2, <2>3, <2>4 DEF NotYet, At
<1> QED
  BY <1>6, <1>8, <1>9

LEMMA NotYetStep ==
  ASSUME Timely, ChangeInv, [Next]_vars, NEW r \in Request
  PROVE  NotYet(r)'
BY MoveNotYet, CancelNotYet DEF NotYet

(* How a pass comes to have an original to settle. *)
LEMMA PassKnowsAlso ==
  ASSUME LifecycleInv, [Next]_vars, NEW k \in Reconciler, rec'[k].pc = "also"
  PROVE  \/ rec'[k] = rec[k]
         \/ /\ rec[k].pc = "resolve" /\ rec'[k].ctx = rec[k].ctx
            /\ rec'[k].seen = rec[k].seen
            /\ HasOriginal(rec[k].ctx, rec[k].why)
            /\ Resolves(k) /\ UNCHANGED event
<1> USE TypeParts DEF Pass
<1>1. ASSUME NEW j \in Reconciler, PassStep(j), j # k
      PROVE  rec'[k] = rec[k]
  BY <1>1 DEF PassStep, ReconcilerNext, Tick, PassEnds, Leave, PassDies, Examine,
              Resolve, ResolveOriginal, PassRaises
<1>2. ASSUME PassStep(k)
      PROVE  \/ rec'[k] = rec[k]
             \/ /\ rec[k].pc = "resolve" /\ rec'[k].ctx = rec[k].ctx
                /\ rec'[k].seen = rec[k].seen
                /\ HasOriginal(rec[k].ctx, rec[k].why)
                /\ Resolves(k) /\ UNCHANGED event
  <2>1. ASSUME Tick(k)
        PROVE  FALSE
    BY <2>1 DEF Tick
  <2>2. ASSUME PassEnds(k) \/ PassDies(k) \/ PassRaises(k)
        PROVE  FALSE
    BY <2>2 DEF PassEnds, PassDies, PassRaises, IdlePass
  <2>3. ASSUME Leave(k)
        PROVE  FALSE
    BY <2>3 DEF Leave
  <2>4. ASSUME NEW c \in Context, NEW why \in Reason, Examine(k, c, why)
        PROVE  FALSE
    BY <2>4 DEF Examine
  <2>5. ASSUME ResolveOriginal(k)
        PROVE  FALSE
    BY <2>5 DEF ResolveOriginal
  <2>6. ASSUME Resolve(k)
        PROVE  /\ rec[k].pc = "resolve" /\ rec'[k].ctx = rec[k].ctx
               /\ rec'[k].seen = rec[k].seen
               /\ HasOriginal(rec[k].ctx, rec[k].why)
               /\ Resolves(k) /\ UNCHANGED event
    <3>1. /\ rec[k].pc = "resolve" /\ rec'[k].ctx = rec[k].ctx
          /\ rec'[k].seen = rec[k].seen
          /\ HasOriginal(rec[k].ctx, rec[k].why)
      BY <2>6 DEF Resolve
    <3>2. PICK st, ev : ResolveVerification(rec[k].ctx, st, ev)
      BY <2>6 DEF Resolve
    <3>3. rec[k].ctx \in Context
      BY <3>1 DEF LifecycleInv, PassesHold
    <3>4. Is(rec[k].ctx, "verification_required")
          /\ rows'[rec[k].ctx].status # "verification_required"
      BY <3>2, <3>3 DEF ResolveVerification, TypeOK, Row, Is
    <3>5. ~Sweeps /\ ~ResolvesOriginal(k) /\ rows' # rows
      BY <3>1, <3>3, <3>4 DEF Sweeps, ResolvesOriginal, Is, InFlight
    <3> QED
      BY <1>2, <3>1, <3>5 DEF PassStep, PassRows
  <2> QED
    BY <1>2, <2>1, <2>2, <2>3, <2>4, <2>5, <2>6 DEF PassStep, ReconcilerNext
<1> QED
  BY <1>1, <1>2, AnyStep DEF RequestStep, ProviderStep, OfferStep

(* What a pass looks at keeps its row's identity. *)
LEMMA LookedAt ==
  ASSUME ChangeInv, [Next]_vars, NEW k \in Reconciler,
         rec[k].pc \in {"resolve", "also"}, NEW c, c = rec[k].ctx
  PROVE  /\ c \in Context /\ Past(c) /\ Past(c)'
         /\ rows'[c].start = rows[c].start
         /\ rows'[c].rescheduleOf = rows[c].rescheduleOf
         /\ Correlation(c) \in Context /\ Correlation(c)' = Correlation(c)
         /\ Plain(Correlation(c)) => Plain(Correlation(c))'
<1>1. LifecycleInv /\ TypeOK /\ PassPast /\ Routes /\ BindingKept
  BY ChangeParts
<1>2. c \in Context /\ Past(c)
  BY <1>1 DEF LifecycleInv, PassesHold, PassPast
<1>3. /\ rows'[c].start = rows[c].start /\ Past(c)'
      /\ rows'[c].rescheduleOf = rows[c].rescheduleOf
      /\ Correlation(c)' = Correlation(c)
  BY <1>2, PlainStays
<1>4. Correlation(c) \in Context
  BY <1>1, <1>2 DEF Correlation, TypeOK, Row
<1>5. ASSUME Plain(Correlation(c)), Correlation(c) # c
      PROVE  Plain(Correlation(c))'
  <2>1. PICK o : o = Correlation(c)
    OBVIOUS
  <2>2. o = rows[c].rescheduleOf /\ o # None /\ o \in Context
    BY <1>4, <1>5, <2>1 DEF Correlation
  <2>3. rows'[o].rescheduleOf = rows[o].rescheduleOf
    BY <1>1, <1>2, <2>2 DEF Routes, RouteKept, Chosen, BindingKept
  <2> QED
    BY <1>3, <1>5, <2>1, <2>3 DEF Plain
<1>6. ASSUME Plain(Correlation(c)), Correlation(c) = c
      PROVE  Plain(Correlation(c))'
  BY <1>3, <1>6 DEF Plain
<1> QED
  BY <1>2, <1>3, <1>4, <1>5, <1>6

(* What a pass has just seen is so. *)
LEMMA SeenNow ==
  ASSUME Timely, ChangeInv, [Next]_vars, NEW k \in Reconciler,
         NEW c \in Context, NEW why \in Reason, Examine(k, c, why)
  PROVE  SeenTruly(k)'
<1>1. /\ LifecycleInv /\ TypeOK /\ EventsPlain /\ Elsewhere
      /\ \A d \in Context : RowTrue(d)
  BY ChangeParts
<1>2. PICK seen : seen = Evidence(c)
  OBVIOUS
<1>3. PICK o : o = rows[c].rescheduleOf
  OBVIOUS
<1>4. /\ rec'[k].pc = "resolve" /\ rec'[k].ctx = c /\ rec'[k].why = why
      /\ rec'[k].seen = seen
  BY <1>1, <1>2, TypeParts DEF Examine
<1>5. UNCHANGED <<rows, event>>
  BY DEF Examine, store, provider
<1>6. seen # None =>
        /\ Correlation(c) \in Context /\ event[Correlation(c)] # None
        /\ seen = event[Correlation(c)].start /\ Plain(Correlation(c))
  BY <1>1, <1>2 DEF Evidence, EventsPlain, Correlation, TypeOK, Row
<1>7. seen # None => Plain(Correlation(c))'
  BY <1>5, <1>6 DEF Plain, Correlation
<1>8. seen # None /\ Plain(c) => Standing(c)'
  BY <1>5, <1>6 DEF Plain, Correlation, Standing
<1>9. ASSUME seen # None, ~Plain(c), seen = rows[c].start
      PROVE  Arrived(o, c)'
  <2>1. o # None /\ Correlation(c) = o /\ o \in Context
    BY <1>1, <1>3, <1>9 DEF Plain, Correlation, TypeOK, Row
  <2>2. event[o] # None /\ event[o].start = rows[c].start /\ Plain(o)
    BY <1>6, <1>9, <2>1
  <2>3. rows[c].start # rows[o].start
    BY <1>1, <1>3, <2>1 DEF Elsewhere
  <2>4. OnTheMove(o)
    BY <1>1, <2>1, <2>2, <2>3 DEF RowTrue, AtHome
  <2> QED
    BY <1>5, <2>2, <2>4 DEF Arrived, Plain, OnTheMove, Is, Stands
<1>10. ~Plain(c)' => ~Plain(c)
  BY <1>5 DEF Plain
<1>11. rows'[c].rescheduleOf = o /\ rows'[c].start = rows[c].start
  BY <1>5, <1>3
<1>12. rec'[k].seen # None => Plain(Correlation(c))'
  BY <1>4, <1>7
<1>13. rec'[k].seen # None =>
         /\ Plain(c)' /\ rec'[k].why # "reschedule" => Standing(c)'
         /\ ~Plain(c)' /\ rec'[k].seen = rows'[c].start => Arrived(o, c)'
  BY <1>4, <1>5, <1>8, <1>9, <1>10, <1>11 DEF Plain
<1> QED
  BY <1>4, <1>11, <1>12, <1>13
     DEF SeenTruly, Plain, Correlation, Standing, Arrived, OnTheMove, Is, Stands

(* An original whose successor has been refused is where it was.           *)
LEMMA RefusedAtHome ==
  ASSUME ChangeInv, OneChange, [Next]_vars, NEW k \in Reconciler,
         rec[k].pc = "resolve", NEW c \in Context, c = rec[k].ctx,
         Is(c, "verification_required"),
         NEW o \in Context, o = rows[c].rescheduleOf,
         rec[k].seen # None, rec[k].seen # rows[c].start
  PROVE  AtHome(o)
<1>1. MovedInv
  BY ChangeParts
<1>2. SUFFICES ASSUME event[o] # None, event[o].start # rows[o].start
               PROVE  FALSE
  BY DEF AtHome
<1>3. PICK d \in Context : Carries(o, d)
  BY <1>1, <1>2 DEF MovedInv, Moved
<1>4. Changing(o, d) /\ Changing(o, c)
  BY <1>3 DEF Carries, Changing, Is
<1>5. d = c
  BY <1>4 DEF OneChange
<1> QED
  BY <1>3, <1>5 DEF Carries

(* What a pass has seen of the row it looks at stays so.                   *)
LEMMA SeenStays ==
  ASSUME Timely, OnePass, ChangeInv, OneChange, [Next]_vars, NEW k \in Reconciler,
         rec'[k] = rec[k]
  PROVE  SeenTruly(k)'
<1>1. /\ ToldInv /\ LifecycleInv /\ TypeOK /\ SettledKept /\ Routes /\ BindingKept
      /\ SeenTruly(k) /\ QueueFresh(k)
  BY ChangeParts
<1>2. SUFFICES ASSUME rec[k].pc \in {"resolve", "also"}
               PROVE  SeenTruly(k)'
  BY DEF SeenTruly
<1>3. PICK c : c = rec[k].ctx
  OBVIOUS
<1>4. PICK o : o = rows[c].rescheduleOf
  OBVIOUS
<1>5. PICK e : e = Correlation(c)
  OBVIOUS
<1>6. /\ c \in Context /\ Past(c) /\ Past(c)'
      /\ rows'[c].start = rows[c].start /\ rows'[c].rescheduleOf = o
      /\ e \in Context /\ Correlation(c)' = e
      /\ Plain(e) => Plain(e)'
      /\ Plain(c)' <=> Plain(c)
  BY <1>2, <1>3, <1>4, <1>5, LookedAt DEF Plain
<1>7. rec[k].seen # None => Plain(e)'
  BY <1>1, <1>2, <1>3, <1>5, <1>6 DEF SeenTruly
<1>8. ASSUME rec[k].pc = "resolve", rec[k].seen # None, Plain(c), rec[k].why # "reschedule"
      PROVE  Standing(c)'
  <2>1. Standing(c) /\ Is(c, "verification_required")
    BY <1>1, <1>3, <1>8 DEF SeenTruly, QueueFresh, StillParked
  <2>2. SUFFICES ASSUME c \notin Deletable, event[c] # None, event'[c] = None
                 PROVE  FALSE
    BY <2>1 DEF Standing
  <2>3. Is(c, "cancellation_pending")
    BY <1>1, <1>6, <2>2, EventFate
  <2> QED
    BY <2>1, <2>3 DEF Is
<1>9. ASSUME rec[k].pc = "resolve", rec[k].seen # None, ~Plain(c),
             rec[k].seen = rows[c].start
      PROVE  Arrived(o, c)'
  <2>1. Arrived(o, c) /\ Is(c, "verification_required")
    BY <1>1, <1>3, <1>4, <1>9 DEF SeenTruly, QueueFresh, StillParked
  <2>2. o \in Context
    BY <1>1, <1>4, <1>6, <1>9 DEF Plain, TypeOK, Row
  <2>3. Changing(o, c)
    BY <1>4, <2>1 DEF Changing, Is
  <2>4. \A j \in Reconciler : rec[j].pc # "also"
    BY <1>9 DEF OnePass
  <2> QED
    BY <1>6, <2>1, <2>2, <2>3, <2>4, ArrivedStays DEF Is
<1>10. ASSUME rec[k].pc = "also", rec[k].seen # rows[c].start
       PROVE  Is(c, "rejected")' /\ AtHome(o)'
  <2>1. Is(c, "rejected") /\ AtHome(o) /\ o \in Context
    BY <1>1, <1>3, <1>4, <1>10 DEF SeenTruly, LifecycleInv, PassesHold
  <2>2. Is(c, "rejected")'
    BY <1>1, <1>6, <2>1 DEF SettledKept, Terminal, Is
  <2>3. rows'[o].start = rows[o].start
    BY <1>1, <1>4, <1>6, <2>1, NoneAssumption DEF Routes, RouteKept, Chosen, BindingKept
  <2>4. CASE event'[o] # event[o]
    <3>1. SUFFICES ASSUME NEW r \in Request, Original(r) = o, Ctx(r) \in Context,
                          Is(Ctx(r), "booking_in_progress")
                   PROVE  FALSE
      BY <1>1, <2>1, <2>2, <2>3, <2>4, EventFate DEF AtHome
    <3>2. Changing(o, c) /\ Changing(o, Ctx(r))
      BY <1>3, <1>4, <1>10, <3>1 DEF Changing, Is, Original
    <3>3. Ctx(r) = c
      BY <1>6, <2>1, <3>1, <3>2 DEF OneChange
    <3> QED
      BY <2>1, <3>1, <3>3 DEF Is
  <2> QED
    BY <2>1, <2>2, <2>3, <2>4 DEF AtHome
<1>11. rec'[k].ctx = c /\ rec'[k].pc = rec[k].pc /\ rec'[k].seen = rec[k].seen
       /\ rec'[k].why = rec[k].why
  BY <1>3
<1>12. rec'[k].pc \in {"resolve", "also"} /\ rec'[k].seen # None => Plain(Correlation(c))'
  BY <1>6, <1>7, <1>11 DEF Plain
<1>13. rec'[k].pc = "resolve" /\ rec'[k].seen # None =>
          /\ Plain(c)' /\ rec'[k].why # "reschedule" => Standing(c)'
          /\ ~Plain(c)' /\ rec'[k].seen = rows'[c].start => Arrived(o, c)'
  BY <1>6, <1>8, <1>9, <1>11
<1>14. rec'[k].pc = "also" => IF rec'[k].seen = rows'[c].start THEN TRUE
                              ELSE Is(c, "rejected")' /\ AtHome(o)'
  BY <1>6, <1>10, <1>11
<1> QED
  BY <1>6, <1>11, <1>12, <1>13, <1>14
     DEF SeenTruly, Plain, Correlation, Standing, Arrived, OnTheMove, Is, Stands, AtHome

LEMMA SeenTrulyStep ==
  ASSUME Timely, OnePass, ChangeInv, OneChange, [Next]_vars, NEW k \in Reconciler
  PROVE  SeenTruly(k)'
<1>1. /\ LifecycleInv /\ TypeOK /\ SettledKept /\ Elsewhere
      /\ SeenTruly(k) /\ QueueFresh(k)
  BY ChangeParts
<1>2. CASE rec'[k] = rec[k]
  BY <1>2, SeenStays
<1>3. CASE rec'[k] # rec[k] /\ rec'[k].pc = "resolve"
  BY <1>1, <1>3, PassKnows, SeenNow
<1>4. CASE rec'[k] # rec[k] /\ rec'[k].pc = "also"
  <2>1. /\ rec[k].pc = "resolve" /\ rec'[k].ctx = rec[k].ctx
        /\ rec'[k].seen = rec[k].seen
        /\ HasOriginal(rec[k].ctx, rec[k].why)
        /\ Resolves(k) /\ UNCHANGED event
    BY <1>1, <1>4, PassKnowsAlso
  <2>2. PICK c : c = rec[k].ctx
    OBVIOUS
  <2>3. PICK o : o = rows[c].rescheduleOf
    OBVIOUS
  <2>4. PICK e : e = Correlation(c)
    OBVIOUS
  <2>5. /\ c \in Context /\ rows'[c].start = rows[c].start /\ rows'[c].rescheduleOf = o
        /\ Correlation(c)' = e
        /\ Plain(e) => Plain(e)'
    BY <2>1, <2>2, <2>3, <2>4, LookedAt
  <2>6. rec[k].seen # None => Plain(e)'
    BY <1>1, <2>1, <2>2, <2>4, <2>5 DEF SeenTruly
  <2>7. ASSUME rec[k].seen # rows[c].start
        PROVE  Is(c, "rejected")' /\ AtHome(o)'
    <3>1. /\ o # None /\ rec[k].why # "cancellation" /\ o \in Context /\ o # c
      BY <1>1, <2>1, <2>2, <2>3, <2>5 DEF HasOriginal, TypeOK, Row, Elsewhere
    <3>2. PICK st, ev : /\ Updates(c, st, ev, "none")
                        /\ st \in {"booked", "rejected", "cancelled"}
                        /\ st = Resolution(c, rec[k].why, rec[k].seen)
                        /\ Is(c, "verification_required")
      BY <2>1, <2>2 DEF Resolves
    <3>3. st = "rejected" /\ rec[k].seen # None
      BY <2>3, <2>7, <3>1, <3>2 DEF Resolution
    <3>4. AtHome(o)
      BY <2>1, <2>2, <2>3, <2>5, <2>7, <3>1, <3>2, <3>3, RefusedAtHome
    <3>5. rows'[o] = rows[o]
      BY <3>1, <3>2 DEF Updates
    <3> QED
      BY <2>1, <3>2, <3>3, <3>4, <3>5 DEF Updates, Is, AtHome
  <2>8. rec'[k].ctx = c
    BY <2>1, <2>2
  <2>9. rec'[k].seen # None => Plain(Correlation(c))'
    BY <2>1, <2>5, <2>6 DEF Plain
  <2>10. IF rec'[k].seen = rows'[c].start THEN TRUE ELSE Is(c, "rejected")' /\ AtHome(o)'
    BY <2>1, <2>5, <2>7
  <2> QED
    BY <1>4, <2>5, <2>8, <2>9, <2>10 DEF SeenTruly, Plain, Correlation, AtHome, Is
<1>5. CASE rec'[k].pc \notin {"resolve", "also"}
  BY <1>5 DEF SeenTruly
<1> QED
  BY <1>2, <1>3, <1>4, <1>5

(* A parked row stays as it is until a pass resolves it, by itself or with *)
(* its successor.                                                          *)
LEMMA ParkedStays ==
  ASSUME LifecycleInv, [Next]_vars, NEW x \in Context, Is(x, "verification_required")
  PROVE  \/ Is(x, "verification_required")' /\ rows'[x].reason = rows[x].reason
         \/ \E k \in Reconciler : /\ PassStep(k) /\ rec[k].pc = "resolve"
                                  /\ rec[k].ctx = x
         \/ \E k \in Reconciler : /\ PassStep(k) /\ rec[k].pc = "also"
                                  /\ rows[rec[k].ctx].rescheduleOf = x
<1> USE DEF Is
<1> DEFINE Stays == rows'[x].status = "verification_required"
                      /\ rows'[x].reason = rows[x].reason
<1>1. ASSUME NEW r \in Request, RequestStep(r)
      PROVE  Stays
  <2>1. CASE ClaimsRow(r)
    BY <2>1 DEF ClaimsRow, Claims, OnlyRow
  <2>2. CASE BeginsCancelling
    BY <2>2 DEF BeginsCancelling, Updates
  <2>3. CASE EndsCancelling(r)
    BY <2>3 DEF EndsCancelling, Updates
  <2>4. CASE MovesOriginal(r)
    BY <2>4 DEF MovesOriginal, Updates
  <2>5. CASE Finishes(r)
    BY <2>5 DEF Finishes, Updates
  <2> QED
    BY <1>1, <2>1, <2>2, <2>3, <2>4, <2>5 DEF RequestStep, RequestRows
<1>2. ASSUME NEW k \in Reconciler, PassStep(k)
      PROVE  \/ Stays
             \/ rec[k].pc = "resolve" /\ rec[k].ctx = x
             \/ rec[k].pc = "also" /\ rows[rec[k].ctx].rescheduleOf = x
  <2>1. CASE Sweeps
    BY <2>1 DEF Sweeps, InFlight
  <2>2. CASE Resolves(k)
    BY <2>2 DEF Resolves, Updates
  <2>3. CASE ResolvesOriginal(k)
    BY <2>3 DEF ResolvesOriginal, Updates
  <2> QED
    BY <1>2, <2>1, <2>2, <2>3 DEF PassStep, PassRows
<1>3. OfferStep => Stays
  BY DEF OfferStep, OfferRows, OpensFresh, OpensMove, Opens, OnlyRow, Updates, Ages, InFlight
<1>4. ProviderStep => Stays
  BY DEF ProviderStep, store
<1> QED
  BY <1>1, <1>2, <1>3, <1>4, AnyStep

(* What is queued as parked stays so while its row is left alone. *)
LEMMA StillStays ==
  ASSUME ChangeInv, [Next]_vars, NEW x \in Context, NEW why, Past(x),
         StillParked(x, why),
         \A k \in Reconciler : PassStep(k) =>
           /\ ~(rec[k].pc = "resolve" /\ rec[k].ctx = x)
           /\ ~(rec[k].pc = "also" /\ rows[rec[k].ctx].rescheduleOf = x)
  PROVE  StillParked(x, why)'
<1>1. LifecycleInv
  BY ChangeParts
<1>2. Plain(x)' <=> Plain(x)
  BY PlainStays
<1>3. CASE Is(x, "verification_required") /\ rows[x].reason = why
  BY <1>1, <1>3, ParkedStays DEF StillParked
<1> QED
  BY <1>2, <1>3 DEF StillParked

(* What is left of a queue when its head is taken. *)
LEMMA TailEntries ==
  ASSUME NEW S, NEW q \in Seq(S), q # <<>>
  PROVE  /\ Head(q) = q[1] /\ 1 \in DOMAIN q
         /\ \A i \in DOMAIN Tail(q) :
              i \in Nat /\ i >= 1 /\ i + 1 \in DOMAIN q /\ Tail(q)[i] = q[i + 1]
<1>1. /\ Len(q) \in Nat /\ Len(q) # 0
      /\ Len(Tail(q)) = Len(q) - 1
      /\ DOMAIN q = 1 .. Len(q)
      /\ DOMAIN Tail(q) = 1 .. Len(Tail(q))
      /\ \A n \in 1 .. Len(Tail(q)) : Tail(q)[n] = q[n + 1]
      /\ Head(q) = q[1]
  BY HeadTailProperties, LenProperties, EmptySeq
<1> QED
  BY <1>1

(* What a pass has just listed is parked, each row once. *)
LEMMA FreshList ==
  ASSUME ChangeInv, [Next]_vars, NEW k \in Reconciler, Tick(k)
  PROVE  QueueFresh(k)'
<1>1. LifecycleInv /\ LifecycleInv' /\ QueueExact /\ TypeOK
  BY ChangeParts DEF ChangeInv
<1>2. QueueExact'
  BY <1>1, LifecycleStoreStep, NextExact
<1> DEFINE n == IF Len(parked') < Limit THEN Len(parked') ELSE Limit
           queue == [m \in 1 .. n |-> <<parked'[m], rows'[parked'[m]].reason>>]
           pass == [[rec[k] EXCEPT !.pc = "next"] EXCEPT !.queue = queue]
<1>3. rec' = [rec EXCEPT ![k] = pass]
  BY <1>1, TypeParts DEF Tick, Pass
<1>4. pass.queue = queue /\ pass.pc = "next"
  BY <1>1, TypeParts DEF Pass
<1> HIDE DEF queue, pass
<1>5. rec'[k].queue = queue /\ rec'[k].pc = "next"
  BY <1>1, <1>3, <1>4, TypeParts
<1>6. parked' \in Seq(Context)
  BY <1>1 DEF LifecycleInv, LifecycleTypeOK, TypeOK
<1>7. n \in Nat /\ n <= Len(parked') /\ DOMAIN parked' = 1 .. Len(parked') /\ Len(parked') \in Nat
  BY <1>6, LenProperties, LifecycleAssumption
<1> HIDE DEF n
<1>8. /\ DOMAIN queue = 1 .. n
      /\ \A i \in 1 .. n : /\ i \in DOMAIN parked'
                           /\ queue[i][1] = parked'[i]
                           /\ queue[i][2] = rows'[parked'[i]].reason
  BY <1>7 DEF queue
<1>9. \A i \in 1 .. n : rows'[parked'[i]].status = "verification_required"
  BY <1>2, <1>8 DEF QueueExact, Is
<1>10. \A i, j \in 1 .. n : parked'[i] = parked'[j] => i = j
  BY <1>2, <1>8 DEF QueueExact
<1>11. \A i \in DOMAIN queue :
         /\ rows'[queue[i][1]].status = "verification_required"
         /\ rows'[queue[i][1]].reason = queue[i][2]
  BY <1>8, <1>9
<1>12. \A i, j \in DOMAIN queue : queue[i][1] = queue[j][1] => i = j
  BY <1>8, <1>10
<1>13. PICK listed : listed = queue
  OBVIOUS
<1>14. rec'[k].queue = listed
  BY <1>5, <1>13
<1>15. \A i \in DOMAIN listed : StillParked(listed[i][1], listed[i][2])'
  BY <1>11, <1>13 DEF StillParked, Is
<1> QED
  BY <1>5, <1>12, <1>13, <1>14, <1>15 DEF QueueFresh, StillParked, Is

(* What the entries of a queue are, as far as they are read. *)
LEMMA QueueEntries ==
  ASSUME ChangeInv, [Next]_vars, NEW k \in Reconciler, NEW q, q = rec[k].queue
  PROVE  /\ q \in Seq(Context \X Reason)
         /\ \A i \in DOMAIN q : q[i][1] \in Context /\ Past(q[i][1])
                                  /\ StillParked(q[i][1], q[i][2])
         /\ \A i, j \in DOMAIN q : q[i][1] = q[j][1] => i = j
<1>1. LifecycleInv /\ PassPast /\ QueueFresh(k)
  BY ChangeParts
<1>2. q \in Seq(Context \X Reason)
  BY <1>1, TypeParts DEF Pass
<1>3. \A i \in DOMAIN q : q[i] \in Context \X Reason
  BY <1>2, ElementOfSeq
<1> QED
  BY <1>1, <1>2, <1>3 DEF PassPast, QueueFresh

LEMMA QueueFreshStep ==
  ASSUME Timely, OnePass, ChangeInv, OneChange, [Next]_vars, NEW k \in Reconciler
  PROVE  QueueFresh(k)'
<1>1. /\ LifecycleInv /\ TypeOK /\ QueueFresh(k)
      /\ rec \in [Reconciler -> Pass] /\ rec[k] \in Pass
  BY ChangeParts, TypeParts
<1>2. PICK q : q = rec[k].queue
  OBVIOUS
<1>3. /\ q \in Seq(Context \X Reason)
      /\ \A i \in DOMAIN q : q[i][1] \in Context /\ Past(q[i][1])
                               /\ StillParked(q[i][1], q[i][2])
      /\ \A i, j \in DOMAIN q : q[i][1] = q[j][1] => i = j
  BY <1>2, QueueEntries
<1>4. ASSUME rec'[k].pc # "resolve", rec'[k].queue = q,
             \A i \in DOMAIN q : StillParked(q[i][1], q[i][2])'
      PROVE  QueueFresh(k)'
  BY <1>3, <1>4 DEF QueueFresh, StillParked, Plain, Is
<1>5. CASE ~PassStep(k)
  <2>1. \A j \in Reconciler : ~PassStep(j)
    BY <1>5 DEF OnePass
  <2>2. rec'[k] = rec[k]
    BY <1>1, <2>1, AnyStep DEF RequestStep, ProviderStep, OfferStep
  <2>3. \A i \in DOMAIN q : StillParked(q[i][1], q[i][2])'
    <3>1. SUFFICES ASSUME NEW x \in Context, NEW why, Past(x), StillParked(x, why)
                   PROVE  StillParked(x, why)'
      BY <1>3 DEF StillParked, Plain, Is
    <3> QED
      BY <2>1, <3>1, StillStays
  <2>4. CASE rec[k].pc = "resolve"
    <3>1. PICK c : c = rec[k].ctx
      OBVIOUS
    <3>2. PICK why : why = rec[k].why
      OBVIOUS
    <3>3. c \in Context /\ Past(c)
      BY <2>4, <3>1, LookedAt
    <3>4. StillParked(c, why) /\ \A i \in DOMAIN q : q[i][1] # c
      BY <1>1, <1>2, <2>4, <3>1, <3>2 DEF QueueFresh
    <3>5. StillParked(c, why)'
      BY <2>1, <3>3, <3>4, StillStays
    <3>6. rec'[k].queue = q /\ rec'[k].ctx = c /\ rec'[k].why = why
      BY <1>2, <2>2, <3>1, <3>2
    <3> QED
      BY <1>3, <2>3, <3>4, <3>5, <3>6 DEF QueueFresh, StillParked, Plain, Is
  <2> QED
    BY <1>2, <1>4, <2>2, <2>3, <2>4
<1>6. ASSUME rec'[k] = IdlePass
      PROVE  QueueFresh(k)'
  BY <1>6 DEF IdlePass, QueueFresh
<1>7. ASSUME q # <<>>, UNCHANGED rows, rec'[k].queue = Tail(q),
             rec'[k].pc = "resolve" => rec'[k].ctx = q[1][1] /\ rec'[k].why = q[1][2]
      PROVE  QueueFresh(k)'
  <2>1. PICK t : t = Tail(q)
    OBVIOUS
  <2>2. /\ 1 \in DOMAIN q
        /\ \A i \in DOMAIN t : i \in Nat /\ i >= 1 /\ i + 1 \in DOMAIN q /\ t[i] = q[i + 1]
    BY <1>3, <1>7, <2>1, TailEntries
  <2>3. \A i \in DOMAIN t : StillParked(t[i][1], t[i][2]) /\ t[i][1] # q[1][1]
    <3>1. SUFFICES ASSUME NEW i \in DOMAIN t
                   PROVE  StillParked(t[i][1], t[i][2]) /\ t[i][1] # q[1][1]
      OBVIOUS
    <3>2. t[i] = q[i + 1] /\ i + 1 \in DOMAIN q /\ i + 1 # 1
      BY <2>2
    <3> QED
      BY <1>3, <2>2, <3>2
  <2>4. \A i, j \in DOMAIN t : t[i][1] = t[j][1] => i = j
    <3>1. SUFFICES ASSUME NEW i \in DOMAIN t, NEW j \in DOMAIN t, t[i][1] = t[j][1]
                   PROVE  i = j
      OBVIOUS
    <3>2. q[i + 1][1] = q[j + 1][1] /\ i + 1 \in DOMAIN q /\ j + 1 \in DOMAIN q
      BY <2>2, <3>1
    <3>3. i + 1 = j + 1
      BY <1>3, <3>2
    <3> QED
      BY <2>2, <3>3
  <2>5. PICK x : x = q[1][1]
    OBVIOUS
  <2>6. PICK why : why = q[1][2]
    OBVIOUS
  <2>7. StillParked(x, why)
    BY <1>3, <2>2, <2>5, <2>6
  <2>8. StillParked(x, why)' /\ \A i \in DOMAIN t : StillParked(t[i][1], t[i][2])'
    BY <1>7, <2>3, <2>7 DEF StillParked, Plain, Is
  <2>9. rec'[k].pc = "resolve" => rec'[k].ctx = x /\ rec'[k].why = why
    BY <1>7, <2>5, <2>6
  <2>10. rec'[k].queue = t /\ \A i \in DOMAIN t : t[i][1] # x
    BY <1>7, <2>1, <2>3, <2>5
  <2> QED
    BY <2>4, <2>8, <2>9, <2>10 DEF QueueFresh, StillParked, Plain, Is
<1>8. ASSUME Leave(k)
      PROVE  QueueFresh(k)'
  <2>1. rec'[k].queue = Tail(q) /\ rec'[k].pc = "next" /\ q # <<>> /\ UNCHANGED rows
    BY <1>1, <1>2, <1>8 DEF Leave, Pass, store
  <2> QED
    BY <1>7, <2>1
<1>9. ASSUME NEW c \in Context, NEW why \in Reason, Examine(k, c, why)
      PROVE  QueueFresh(k)'
  <2>1. /\ rec'[k].queue = Tail(q) /\ q # <<>> /\ UNCHANGED rows
        /\ rec'[k].ctx = c /\ rec'[k].why = why /\ Head(q) = <<c, why>>
    BY <1>1, <1>2, <1>9 DEF Examine, store
  <2>2. q[1] = <<c, why>>
    BY <1>3, <2>1, TailEntries
  <2> QED
    BY <1>7, <2>1, <2>2
<1>10. ASSUME Resolve(k)
       PROVE  QueueFresh(k)'
  <2>1. rec'[k].queue = q /\ rec'[k].pc # "resolve" /\ rec[k].pc = "resolve"
    BY <1>1, <1>2, <1>10 DEF Resolve, Pass
  <2>2. \A i \in DOMAIN q : q[i][1] # rec[k].ctx
    BY <1>1, <1>2, <2>1 DEF QueueFresh
  <2>3. \A i \in DOMAIN q : StillParked(q[i][1], q[i][2])'
    <3>1. SUFFICES ASSUME NEW x \in Context, NEW why, Past(x), StillParked(x, why),
                          x # rec[k].ctx
                   PROVE  StillParked(x, why)'
      BY <1>3, <2>2 DEF StillParked, Plain, Is
    <3>2. \A j \in Reconciler : /\ ~(rec[j].pc = "resolve" /\ rec[j].ctx = x)
                                /\ rec[j].pc # "also"
      BY <2>1, <3>1 DEF OnePass
    <3> QED
      BY <3>1, <3>2, StillStays
  <2> QED
    BY <1>4, <2>1, <2>3
<1>11. ASSUME ResolveOriginal(k)
       PROVE  QueueFresh(k)'
  <2>1. rec'[k].queue = q /\ rec'[k].pc # "resolve" /\ rec[k].pc = "also"
    BY <1>1, <1>2, <1>11 DEF ResolveOriginal, Pass
  <2>2. \A j \in Reconciler : rec[j].pc # "resolve" /\ rec[j].ctx = rec[k].ctx
    BY <2>1 DEF OnePass
  <2>3. \A i \in DOMAIN q : StillParked(q[i][1], q[i][2])'
    <3>1. SUFFICES ASSUME NEW x \in Context, NEW why, Past(x), StillParked(x, why)
                   PROVE  StillParked(x, why)'
      BY <1>3 DEF StillParked, Plain, Is
    <3>2. CASE rows[rec[k].ctx].rescheduleOf # x
      BY <2>2, <3>1, <3>2, StillStays
    <3>3. CASE rows[rec[k].ctx].rescheduleOf = x
      <4>1. Plain(x) /\ why = "reschedule"
        BY <2>1, <3>1, <3>3, AlsoMoves DEF StillParked
      <4> QED
        BY <3>1, <4>1, PlainStays DEF StillParked
    <3> QED
      BY <3>2, <3>3
  <2> QED
    BY <1>4, <2>1, <2>3
<1>12. ASSUME PassEnds(k) \/ PassDies(k) \/ PassRaises(k)
       PROVE  QueueFresh(k)'
  <2>1. rec'[k] = IdlePass
    BY <1>1, <1>12 DEF PassEnds, PassDies, PassRaises
  <2> QED
    BY <1>6, <2>1
<1>13. CASE PassStep(k)
  BY <1>8, <1>9, <1>10, <1>11, <1>12, <1>13, FreshList DEF PassStep, ReconcilerNext
<1> QED
  BY <1>5, <1>13

LEMMA ChangeInit == Init => ChangeInv
<1>1. SUFFICES ASSUME Init
               PROVE  ChangeInv
  OBVIOUS
<1>2. ToldInv /\ MovedInv
  BY <1>1, ToldInit, KeepInit DEF KeepInv
<1>3. QueueExact
  BY <1>1, InitExact DEF Init
<1>4. /\ \A c \in Context : rows[c] = NoRow /\ event[c] = None
      /\ \A r \in Request : req[r] = Idle
      /\ \A k \in Reconciler : rec[k] = IdlePass
  BY <1>1 DEF Init, StoreInit
<1>5. \A c \in Context : RowTrue(c)
  BY <1>4 DEF RowTrue, OnTheMove, AtHome, Is, NoRow
<1>6. \A r \in Request : NotYet(r)
  BY <1>4 DEF NotYet, At, Idle
<1>7. \A k \in Reconciler : QueueFresh(k) /\ SeenTruly(k)
  BY <1>4 DEF QueueFresh, SeenTruly, IdlePass
<1> QED
  BY <1>2, <1>3, <1>5, <1>6, <1>7 DEF ChangeInv

LEMMA ChangeStep ==
  ASSUME Timely, TokensKeptApart, OnePass, ChangeInv, OneChange, [Next]_vars
  PROVE  ChangeInv'
<1>1. ToldInv /\ KeepInv /\ LifecycleInv /\ TypeOK /\ QueueExact
  BY ChangeParts DEF ChangeInv
<1>2. ToldInv' /\ MovedInv'
  BY <1>1, ToldInvStep, MovedInvStep
<1>3. QueueExact'
  BY <1>1, LifecycleStoreStep, NextExact
<1>4. \A c \in Context : RowTrue(c)'
  BY RowTrueStep
<1>5. \A r \in Request : NotYet(r)'
  BY NotYetStep
<1>6. \A k \in Reconciler : QueueFresh(k)' /\ SeenTruly(k)'
  BY QueueFreshStep, SeenTrulyStep
<1> QED
  BY <1>2, <1>3, <1>4, <1>5, <1>6 DEF ChangeInv

LEMMA TwoLiveImplied == ChangeInv /\ OneChange => NeverTwoLive
<1>1. SUFFICES ASSUME ChangeInv, OneChange,
                      NEW o \in Context, NEW c \in Successors(o), Is(c, "booked"),
                      NEW d \in ({o} \cup Successors(o)) \ {c}, Is(d, "booked")
               PROVE  FALSE
  BY DEF NeverTwoLive
<1>2. c \in Context /\ rows[c].rescheduleOf = o
  BY DEF Successors
<1>3. RowTrue(c)
  BY <1>1, <1>2 DEF ChangeInv
<1>4. OnTheMove(o)
  BY <1>1, <1>2, <1>3, NoneAssumption DEF RowTrue, Plain, Is, Arrived
<1>5. d # o
  BY <1>1, <1>4 DEF OnTheMove, Is
<1>6. d \in Context /\ rows[d].rescheduleOf = o
  BY <1>5 DEF Successors
<1>7. Changing(o, c) /\ Changing(o, d)
  BY <1>1, <1>2, <1>6 DEF Changing, Is
<1> QED
  BY <1>1, <1>2, <1>6, <1>7 DEF OneChange

LEMMA RealImplied == ChangeInv => BookedIsReal
<1>1. SUFFICES ASSUME ChangeInv, NEW c \in Context, Is(c, "booked"), rows[c].native,
                      rows[c].event \notin Deletable \cup Movable
               PROVE  event[rows[c].event] = [calendar |-> rows[c].calendar,
                                              start    |-> rows[c].start]
  BY DEF BookedIsReal
<1>2. /\ RowTrue(c) /\ RowEvent(c) /\ EventPlaced /\ Routes /\ TypeOK
      /\ event \in [Context -> Event \cup {None}]
  BY <1>1 DEF ChangeInv, ToldInv, PlainInv, CancelInv, BaseInv, LifecycleInv, LifecycleTypeOK
<1>3. PICK e : e = rows[c].event
  OBVIOUS
<1>4. e = Correlation(c) /\ e # None
  BY <1>1, <1>2, <1>3 DEF RowTrue, RowEvent, Is
<1>5. e \in Context
  BY <1>2, <1>4 DEF Correlation, TypeOK, Row
<1>6. /\ event[e] # None /\ event[e].start = rows[c].start
      /\ event[e].calendar = rows[c].calendar
  <2>1. CASE Plain(c)
    <3>1. e = c
      BY <1>4, <2>1 DEF Plain, Correlation
    <3>2. Standing(c) /\ AtHome(c)
      BY <1>1, <1>2, <2>1 DEF RowTrue, OnTheMove, Is
    <3> QED
      BY <1>1, <1>2, <1>3, <3>1, <3>2 DEF Standing, AtHome, EventPlaced
  <2>2. CASE ~Plain(c)
    <3>1. e = rows[c].rescheduleOf
      BY <1>4, <2>2 DEF Plain, Correlation
    <3>2. Stands(e, c)
      BY <1>1, <1>2, <1>3, <1>4, <2>2, <3>1 DEF RowTrue, Is, Arrived
    <3>3. event[e] # None /\ event[e].start = rows[c].start
      BY <1>1, <1>3, <3>2 DEF Stands
    <3> QED
      BY <1>2, <1>4, <1>5, <3>1, <3>3 DEF EventPlaced, Routes, RouteKept
  <2> QED
    BY <2>1, <2>2
<1>7. event[e] \in Event
  BY <1>2, <1>5, <1>6
<1> QED
  BY <1>3, <1>6, <1>7 DEF Event

(* Under the same conditions, with one reconciler pass at a time, and as   *)
(* long as a booking that is being moved, or was, is not also cancelled or *)
(* moved by another offer: whatever is refused, lost, parked, resolved or  *)
(* crashes, a booking and its successors are never two live appointments.  *)
THEOREM OneLive ==
  Timely /\ TokensKeptApart /\ OnePass =>
    (Spec /\ []OneChange => []NeverTwoLive)
<1>1. SUFFICES ASSUME Timely, TokensKeptApart, OnePass
               PROVE  Spec /\ []OneChange => []NeverTwoLive
  OBVIOUS
<1>2. Init => ChangeInv
  BY ChangeInit
<1>3. ChangeInv /\ OneChange /\ [Next]_vars => ChangeInv'
  BY <1>1, ChangeStep
<1>4. ChangeInv /\ OneChange => NeverTwoLive
  BY TwoLiveImplied
<1> QED
  BY <1>2, <1>3, <1>4, PTL DEF Spec

(* Under the conditions of OneLive a row that says booked has its event in *)
(* the calendar, where and when it says, unless the attorney deleted it:   *)
(* neither a request nor the reconciler ever brings back, keeps or makes a *)
(* booking that has no appointment.                                        *)
THEOREM BookedWhatIsReal ==
  Timely /\ TokensKeptApart /\ OnePass =>
    (Spec /\ []OneChange => []BookedIsReal)
<1>1. SUFFICES ASSUME Timely, TokensKeptApart, OnePass
               PROVE  Spec /\ []OneChange => []BookedIsReal
  OBVIOUS
<1>2. Init => ChangeInv
  BY ChangeInit
<1>3. ChangeInv /\ OneChange /\ [Next]_vars => ChangeInv'
  BY <1>1, ChangeStep
<1>4. ChangeInv => BookedIsReal
  BY RealImplied
<1> QED
  BY <1>2, <1>3, <1>4, PTL DEF Spec
=============================================================================
