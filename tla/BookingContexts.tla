--------------------------- MODULE BookingContexts ---------------------------
(***************************************************************************)
(* The durable booking-context store: one row per governed availability    *)
(* offer, moved from status to status by conditional updates.  The two     *)
(* implementations of the repository contract, PostgreSQL and in-memory,   *)
(* agree on everything modelled here except where a comment says so; the   *)
(* model follows PostgreSQL, the store production booking requires.        *)
(*                                                                         *)
(* One organization is modelled.  A time to live that has passed is folded *)
(* into Expire (every observer flips a due row before it reads it), and    *)
(* "updated_at is at least STALE_BOOKING_MS old" is the field aged.        *)
(***************************************************************************)
EXTENDS Naturals, FiniteSets, SequencesExt

CONSTANTS
  Context,     (* booking_context_id values; also the correlation ids       *)
  Calendar,    (* calendar references                                       *)
  Start,       (* appointment instants; two instants never overlap          *)
  None         (* SQL NULL                                                  *)

ASSUME NoneAssumption == None \notin Context \cup Calendar \cup Start

ASSUME TableIsFinite == IsFiniteSet(Context)

VARIABLES
  rows,     (* [Context -> Row]                                             *)
  parked    (* the verification_required rows in the order of updated_at    *)

store == <<rows, parked>>

-----------------------------------------------------------------------------
(* BookingContextStatus, and "absent" for an id no row has yet. *)
InFlight == {"booking_in_progress", "cancellation_pending", "rescheduling"}
Terminal == {"rejected", "expired", "cancelled", "rescheduled"}
Status   == {"absent", "offered", "booked", "verification_required"}
              \cup InFlight \cup Terminal

(* SLOT_OCCUPYING_STATUSES *)
SlotOccupying == {"booking_in_progress", "booked", "cancellation_pending",
                  "rescheduling"}

(* rejection_reason, as far as the reconciler tells the reasons apart: the *)
(* family a row was parked under.  Only a parked row's reason is ever read *)
(* so every other status carries "none".                                   *)
Reason == {"none", "creation", "cancellation", "reschedule",
           "correlation_mismatch"}

Row == [status       : Status,
        native       : BOOLEAN,                          (* providerKey set *)
        offered      : SUBSET Start,
        targets      : [Start -> Calendar \cup {None}],
        calendar     : Calendar \cup {None},
        start        : Start \cup {None},
        event        : Context \cup {None},
        rescheduleOf : Context \cup {None},
        reason       : Reason,
        aged         : BOOLEAN]

NoRow == [status |-> "absent", native |-> FALSE, offered |-> {},
          targets |-> [s \in Start |-> None], calendar |-> None,
          start |-> None, event |-> None, rescheduleOf |-> None,
          reason |-> "none", aged |-> FALSE]

TypeOK == /\ rows \in [Context -> Row]
          /\ parked \in Seq(Context)

Is(c, st) == rows[c].status = st

-----------------------------------------------------------------------------
(* The slot guard: a row holds its calendar and instant while its status   *)
(* occupies.  The partial unique index refuses a write that would make a   *)
(* second row hold the same pair; rows with no calendar hold nothing.      *)
Holds(r, cal, s) == /\ r.status \in SlotOccupying
                    /\ r.calendar = cal
                    /\ r.start = s

SlotFree(c, cal, s) ==
  cal = None \/ \A d \in Context \ {c} : ~Holds(rows[d], cal, s)

(* claim binds the target offered for the chosen start, else keeps the ref *)
BoundCalendar(c, s) == IF rows[c].targets[s] # None THEN rows[c].targets[s]
                                                    ELSE rows[c].calendar

(* An update of one row: every write refreshes updated_at, so a row that   *)
(* is parked goes to the end of the queue listByStatus reads.              *)
Put(c, row) ==
  /\ rows' = [rows EXCEPT ![c] = [row EXCEPT !.aged = FALSE]]
  /\ parked' = IF row.status = "verification_required" THEN Append(parked, c)
                                                      ELSE parked

Move(c, st, why) == Put(c, [rows[c] EXCEPT !.status = st, !.reason = why])

(* The reason is kept only where it is read. *)
Kept(st, why) == IF st = "verification_required" THEN why ELSE "none"

-----------------------------------------------------------------------------
(* Repository operations.  Each is the committed update; a call whose      *)
(* condition fails returns null and changes nothing.                       *)

(* assertRouteConsistency, and the CHECKs of the table: something is        *)
(* offered, and a native row knows a calendar for all of it.               *)
RouteConsistent(native, offered, targets) ==
  /\ offered # {}
  /\ native => \A s \in offered : targets[s] \in Calendar

Create(c, native, offered, targets, cal, of) ==
  /\ Is(c, "absent")
  /\ RouteConsistent(native, offered, targets)
  /\ Put(c, [NoRow EXCEPT !.status = "offered", !.native = native,
                          !.offered = offered, !.targets = targets,
                          !.calendar = cal, !.rescheduleOf = of])

Expire(c) ==
  /\ Is(c, "offered")
  /\ Move(c, "expired", "none")

Claim(c, s) ==
  /\ Is(c, "offered")
  /\ SlotFree(c, BoundCalendar(c, s), s)
  /\ Put(c, [rows[c] EXCEPT !.status = "booking_in_progress", !.start = s,
                            !.calendar = BoundCalendar(c, s)])

Complete(c, st, ev, why) ==
  /\ Is(c, "booking_in_progress")
  /\ st \in {"booked", "rejected", "verification_required"}
  /\ Put(c, [rows[c] EXCEPT !.status = st, !.event = ev,
                            !.reason = Kept(st, why)])

BeginCancellation(c) ==
  /\ Is(c, "booked")
  /\ Move(c, "cancellation_pending", "none")

CompleteCancellation(c, st, why) ==
  /\ Is(c, "cancellation_pending")
  /\ st \in {"cancelled", "verification_required", "booked"}
  /\ Move(c, st, Kept(st, why))

BeginReschedule(c) ==
  /\ Is(c, "booked")
  /\ Move(c, "rescheduling", "none")

CompleteReschedule(c, st, why) ==
  /\ Is(c, "rescheduling")
  /\ st \in {"rescheduled", "verification_required", "booked"}
  /\ Move(c, st, Kept(st, why))

(* Mutant: a resolution does not meet the slot guard (as in the in-memory  *)
(* store).                                                                 *)
ResolutionUnguarded(c, st) == FALSE

(* resolveVerification.  Going back to booked re-enters the slot guard:    *)
(* the unique index raises when another row took the slot in the meantime  *)
(* (the in-memory store has no such check).                                *)
ResolutionRefused(c, st) ==
  st = "booked" /\ ~SlotFree(c, rows[c].calendar, rows[c].start)

ResolveVerification(c, st, ev) ==
  /\ Is(c, "verification_required")
  /\ st \in {"booked", "rejected", "cancelled", "rescheduled"}
  /\ ~ResolutionRefused(c, st)
  /\ rows' = [rows EXCEPT ![c] =
                 [rows[c] EXCEPT !.status = st, !.reason = "none",
                                 !.event = IF ev = None THEN rows[c].event ELSE ev]]
  /\ \E i \in DOMAIN parked : parked[i] = c /\ parked' = RemoveAt(parked, i)

(* reconcileStale: one statement parks every row in flight for too long;   *)
(* they share an updated_at, and come in any order.                        *)
StaleReason(st) == CASE st = "booking_in_progress"  -> "creation"
                     [] st = "cancellation_pending" -> "cancellation"
                     [] OTHER                       -> "reschedule"

(* Mutant: cancellations are not looked for. *)
StaleButCancellations(c) ==
  rows[c].status \in InFlight \ {"cancellation_pending"} /\ rows[c].aged

Stale(c) == rows[c].status \in InFlight /\ rows[c].aged

ReconcileStale ==
  /\ rows' = [c \in Context |->
                IF Stale(c)
                THEN [rows[c] EXCEPT !.status = "verification_required",
                                     !.reason = StaleReason(rows[c].status),
                                     !.aged   = FALSE]
                ELSE rows[c]]
  /\ \E order \in SetToSeqs({c \in Context : Stale(c)}) :
       parked' = parked \o order

(* Two minutes pass without a write to an in-flight row. *)
Age(c) ==
  /\ rows[c].status \in InFlight
  /\ ~rows[c].aged
  /\ rows' = [rows EXCEPT ![c].aged = TRUE]
  /\ UNCHANGED parked

-----------------------------------------------------------------------------
(* The store under any calls at all, from any number of callers.  What a   *)
(* row must be is stated before the arguments a call may have.             *)
StoreInit == /\ rows = [c \in Context |-> NoRow]
             /\ parked = <<>>

StoreNext ==
  \/ \E c \in Context :
       \/ /\ Is(c, "absent")
          /\ \E native \in BOOLEAN, offered \in SUBSET Start,
                targets \in [Start -> Calendar \cup {None}],
                cal \in Calendar \cup {None}, of \in Context \cup {None} :
               Create(c, native, offered, targets, cal, of)
       \/ Expire(c)
       \/ \E s \in Start : Claim(c, s)
       \/ /\ Is(c, "booking_in_progress")
          /\ \E st \in Status, ev \in Context \cup {None}, why \in Reason :
               Complete(c, st, ev, why)
       \/ BeginCancellation(c)
       \/ /\ Is(c, "cancellation_pending")
          /\ \E st \in Status, why \in Reason : CompleteCancellation(c, st, why)
       \/ BeginReschedule(c)
       \/ /\ Is(c, "rescheduling")
          /\ \E st \in Status, why \in Reason : CompleteReschedule(c, st, why)
       \/ /\ Is(c, "verification_required")
          /\ \E st \in Status, ev \in Context \cup {None} :
               ResolveVerification(c, st, ev)
       \/ Age(c)
  \/ ReconcileStale

StoreSpec == StoreInit /\ [][StoreNext]_store

-----------------------------------------------------------------------------
(* At most one booking context holds a calendar at an instant, whatever    *)
(* the callers do and however often rows are parked and resolved: the      *)
(* double-booking guard of claim and of booking_contexts_slot_guard_idx.   *)
SlotGuard ==
  \A c, d \in Context : \A cal \in Calendar : \A s \in Start :
    Holds(rows[c], cal, s) /\ Holds(rows[d], cal, s) => c = d

(* What the chosen calendar and instant are is decided once, by the claim: *)
(* no completion, cancellation, move, parking or resolution rebinds a row, *)
(* so "booking never re-chooses a route" survives every later path.        *)
BindingKept ==
  \A c \in Context :
    rows[c].start # None =>
      /\ rows'[c].start = rows[c].start
      /\ rows'[c].calendar = rows[c].calendar
      /\ rows'[c].rescheduleOf = rows[c].rescheduleOf

BindingIsFinal == [][BindingKept]_store

(* A settled row is never rewritten: a late completion of an operation the *)
(* reconciler already resolved changes nothing ("nothing is ever           *)
(* overwritten").                                                          *)
SettledKept ==
  \A c \in Context : rows[c].status \in Terminal => rows'[c] = rows[c]

SettledIsFinal == [][SettledKept]_store
=============================================================================
