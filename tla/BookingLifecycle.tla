--------------------------- MODULE BookingLifecycle --------------------------
(***************************************************************************)
(* Booking, cancelling and rescheduling an appointment: concurrent         *)
(* requests, the calendar provider they write to, and the reconciler, all  *)
(* over the booking-context store.                                         *)
(*                                                                         *)
(* A request runs one operation and steps from one await to the next; its  *)
(* process can die in between.  The provider keeps at most one event per   *)
(* correlation id (Graph deduplicates creates by transactionId), so an     *)
(* event is named by the context that created it.  A cancelled event is a  *)
(* deleted one, as in the Graph adapter.                                   *)
(***************************************************************************)
EXTENDS BookingContexts

CONSTANTS
  Request,          (* requests; each runs one operation                    *)
  Reconciler,       (* reconciliation passes that can run at once           *)
  Native,           (* the values providerKey-is-set takes in fresh offers  *)
  Reschedulable,    (* contexts whose appointment callers may ask to move   *)
  Fillable,         (* instants the attorney may fill in the calendar       *)
  Deletable,        (* contexts whose event the attorney may delete         *)
  Movable,          (* contexts whose event the attorney may move           *)
  WritesLand,       (* TRUE: a provider write takes effect before the       *)
                    (*   client gives up on it, or never                    *)
  RequestsTimely,   (* TRUE: a live request never outlasts STALE_BOOKING_MS *)
  Limit,            (* how many rows a pass lists: 50 in the code           *)
  TokensKeptApart   (* TRUE: only confirmReschedule is handed the token of  *)
                    (*   a reschedule offer                                 *)

ASSUME LifecycleAssumption ==
  /\ Native \subseteq BOOLEAN
  /\ Fillable \subseteq Calendar \X Start
  /\ Reschedulable \cup Deletable \cup Movable \subseteq Context
  /\ Limit \in Nat \ {0}
  /\ {WritesLand, RequestsTimely, TokensKeptApart} \subseteq BOOLEAN

VARIABLES
  event,      (* [Context -> Event or None]: GuideHerd's provider events    *)
  filled,     (* instants blocked by events that are not GuideHerd's        *)
  creates,    (* [Context -> Nat]: createEvent/createBooking calls sent     *)
  req,        (* [Request -> [pc, op, ctx, verdict]]                        *)
  write,      (* [Request -> the request's provider write and its reply]    *)
  offering,   (* bookings whose reschedule offer is being prepared          *)
  rec,        (* [Reconciler -> a reconciliation pass]                      *)
  told        (* [Context -> the last outcome reported to a caller]         *)

provider == <<event, filled>>
vars == <<store, event, filled, creates, req, write, offering, rec, told>>

Event == [calendar : Calendar \cup {None}, start : Start]

ASSUME EventAssumption == None \notin Event

Pc == {"idle", "recheck", "creating", "cancelling", "begin", "moveCheck",
       "moving", "settleSuccessor", "done"}

Reply == {"none", "sent", "ok", "refused", "event_not_found",
          "correlation_mismatch"}

Told == {"nothing", "booked", "rejected", "verification_required",
         "cancelled", "rescheduled"}

Pass == [pc : {"idle", "next", "resolve", "also"},
         queue : Seq(Context \X Reason),
         ctx : Context \cup {None}, why : Reason,
         seen : Start \cup {None}]

LifecycleTypeOK ==
  /\ TypeOK
  /\ event \in [Context -> Event \cup {None}]
  /\ filled \subseteq Calendar \X Start
  /\ creates \in [Context -> Nat]
  /\ req \in [Request -> [pc : Pc, op : {"none", "book", "cancel", "move"},
                          ctx : Context \cup {None}, verdict : Status]]
  /\ write \in [Request -> Reply]
  /\ offering \subseteq Context
  /\ rec \in [Reconciler -> Pass]
  /\ told \in [Context -> Told]

Idle     == [pc |-> "idle", op |-> "none", ctx |-> None, verdict |-> "absent"]
IdlePass == [pc |-> "idle", queue |-> <<>>, ctx |-> None, why |-> "none",
             seen |-> None]

Init ==
  /\ StoreInit
  /\ event = [c \in Context |-> None]
  /\ filled = {}
  /\ creates = [c \in Context |-> 0]
  /\ req = [r \in Request |-> Idle]
  /\ write = [r \in Request |-> "none"]
  /\ offering = {}
  /\ rec = [k \in Reconciler |-> IdlePass]
  /\ told = [c \in Context |-> "nothing"]

-----------------------------------------------------------------------------
(* Steps of a request. *)

Ctx(r)      == req[r].ctx
Original(r) == rows[Ctx(r)].rescheduleOf

At(r, pc) == req[r].pc = pc

Goto(r, pc) == req' = [req EXCEPT ![r].pc = pc]

Begin(r, op, c, pc) ==
  /\ At(r, "idle")
  /\ req' = [req EXCEPT ![r] = [pc |-> pc, op |-> op, ctx |-> c,
                                verdict |-> "absent"]]

(* The request answers its caller and is over.  Who sent a write matters   *)
(* only while the write can still arrive.                                  *)
Over(r) == IF write'[r] = "sent" THEN [req[r] EXCEPT !.pc = "done"]
                                 ELSE [Idle EXCEPT !.pc = "done"]

Answer(r, outcome) ==
  /\ req' = [req EXCEPT ![r] = Over(r)]
  /\ told' = [told EXCEPT ![Ctx(r)] = outcome]

Send(r, pc) ==
  /\ write' = [write EXCEPT ![r] = "sent"]
  /\ Goto(r, pc)

GotReply(r, replies) ==
  /\ write[r] \in replies
  /\ write' = [write EXCEPT ![r] = "none"]

(* Timeout, connection loss, 5xx or an unreadable success: the write may   *)
(* or may not have happened, and unless WritesLand it may still happen.    *)
NoReply(r) ==
  \/ write' = [write EXCEPT ![r] = "none"]
  \/ /\ ~WritesLand
     /\ write[r] = "sent"
     /\ UNCHANGED write

(* fetchBusyIntervals over one instant; deleted events do not block *)
BusyAt(cal, s) == \/ <<cal, s>> \in filled
                  \/ \E c \in Context : event[c] = [calendar |-> cal, start |-> s]

(* complete(), from a caller that does not look at a null answer *)
TryComplete(c, st, ev, why) ==
  IF Is(c, "booking_in_progress") THEN Complete(c, st, ev, why)
                                  ELSE UNCHANGED store

TryCompleteReschedule(c, st, why) ==
  IF Is(c, "rescheduling") THEN CompleteReschedule(c, st, why)
                           ELSE UNCHANGED store

-----------------------------------------------------------------------------
(* Offers *)

Offer(c) ==
  \E native \in Native, offered \in SUBSET Start :
    \E targets \in [offered -> Calendar] :
      /\ Create(c, native, offered,
                [s \in Start |-> IF native /\ s \in offered THEN targets[s] ELSE None],
                None, None)
      /\ UNCHANGED <<provider, creates, req, write, offering, rec, told>>

(* offerReschedule reads a booked native row, then (awaits apart) creates  *)
(* the successor on the same calendar at other instants.                   *)
BeginOfferReschedule(c) ==
  /\ c \in Reschedulable
  /\ Is(c, "booked")
  /\ rows[c].native
  /\ rows[c].event # None
  /\ offering' = offering \cup {c}
  /\ UNCHANGED <<store, provider, creates, req, write, rec, told>>

OfferReschedule(c, o) ==
  /\ o \in offering
  /\ offering' = offering \ {o}
  /\ LET offered == Start \ {rows[o].start} IN
       Create(c, TRUE, offered,
              [s \in Start |-> IF s \in offered THEN rows[o].calendar ELSE None],
              rows[o].calendar, o)
  /\ UNCHANGED <<provider, creates, req, write, rec, told>>

Lapse(c) ==
  /\ Expire(c)
  /\ UNCHANGED <<provider, creates, req, write, offering, rec, told>>

-----------------------------------------------------------------------------
(* bookAppointment *)

BookClaim(r, c, s) ==
  /\ TokensKeptApart => rows[c].rescheduleOf = None
  /\ s \in rows[c].offered
  /\ Claim(c, s)
  /\ Begin(r, "book", c, "recheck")
  /\ UNCHANGED <<provider, creates, write, offering, rec, told>>

(* Mutant: the claimed row is put back on offer. *)
BookRecheckReleases(r) ==
  /\ At(r, "recheck")
  /\ rows[Ctx(r)].native
  /\ Move(Ctx(r), "offered", "none")
  /\ UNCHANGED write
  /\ Answer(r, "rejected")
  /\ UNCHANGED <<provider, creates, offering, rec>>

(* An unreadable or busy calendar rejects before any provider write. *)
BookRecheckFails(r) ==
  /\ At(r, "recheck")
  /\ rows[Ctx(r)].native
  /\ TryComplete(Ctx(r), "rejected", None, "none")
  /\ UNCHANGED write
  /\ Answer(r, "rejected")
  /\ UNCHANGED <<provider, creates, offering, rec>>

(* Mutant: the calendar is not read again before the write. *)
BookCreateUnchecked(r) ==
  /\ At(r, "recheck")
  /\ Send(r, "creating")
  /\ creates' = [creates EXCEPT ![Ctx(r)] = @ + 1]
  /\ UNCHANGED <<store, provider, offering, rec, told>>

BookCreate(r) ==
  /\ At(r, "recheck")
  /\ rows[Ctx(r)].native => ~BusyAt(rows[Ctx(r)].calendar, rows[Ctx(r)].start)
  /\ Send(r, "creating")
  /\ creates' = [creates EXCEPT ![Ctx(r)] = @ + 1]
  /\ UNCHANGED <<store, provider, offering, rec, told>>

BookRefused(r) ==
  /\ At(r, "creating")
  /\ GotReply(r, {"refused"})
  /\ TryComplete(Ctx(r), "rejected", None, "none")
  /\ Answer(r, "rejected")
  /\ UNCHANGED <<provider, creates, offering, rec>>

(* Mutants: no answer is taken for a refusal; no answer is tried again. *)
BookUnverifiedAsRefused(r) ==
  /\ At(r, "creating")
  /\ NoReply(r)
  /\ TryComplete(Ctx(r), "rejected", None, "none")
  /\ Answer(r, "rejected")
  /\ UNCHANGED <<provider, creates, offering, rec>>

BookUnverifiedRetries(r) ==
  /\ At(r, "creating")
  /\ creates[Ctx(r)] < 2
  /\ Send(r, "creating")
  /\ creates' = [creates EXCEPT ![Ctx(r)] = @ + 1]
  /\ UNCHANGED <<store, provider, offering, rec, told>>

BookUnverified(r) ==
  /\ At(r, "creating")
  /\ NoReply(r)
  /\ TryComplete(Ctx(r), "verification_required", None, "creation")
  /\ Answer(r, "verification_required")
  /\ UNCHANGED <<provider, creates, offering, rec>>

(* "booked" is reported only on a booked row this very update returned. *)
BookConfirmed(r) ==
  /\ At(r, "creating")
  /\ GotReply(r, {"ok"})
  /\ \/ /\ Complete(Ctx(r), "booked", Ctx(r), "none")
        /\ Answer(r, "booked")
     \/ /\ ~Is(Ctx(r), "booking_in_progress")
        /\ UNCHANGED store
        /\ Answer(r, "verification_required")
  /\ UNCHANGED <<provider, creates, offering, rec>>

(* Mutant: the caller is told of a booking the store did not take. *)
BookPersistenceIgnored(r) ==
  /\ At(r, "creating")
  /\ GotReply(r, {"ok"})
  /\ UNCHANGED store
  /\ Answer(r, "booked")
  /\ UNCHANGED <<provider, creates, offering, rec>>

(* The store throws on the booked update, before or after committing it.   *)
(* The demotion that follows meets a row in progress or none, or throws.   *)
BookPersistenceFails(r) ==
  /\ At(r, "creating")
  /\ GotReply(r, {"ok"})
  /\ \/ Complete(Ctx(r), "booked", Ctx(r), "none")
     \/ Complete(Ctx(r), "verification_required", Ctx(r), "creation")
     \/ UNCHANGED store
  /\ Answer(r, "verification_required")
  /\ UNCHANGED <<provider, creates, offering, rec>>

-----------------------------------------------------------------------------
(* cancelAppointment *)

CancelBegin(r, c) ==
  /\ rows[c].native
  /\ rows[c].event # None
  /\ rows[c].calendar # None
  /\ BeginCancellation(c)
  /\ Begin(r, "cancel", c, "cancelling")
  /\ write' = [write EXCEPT ![r] = "sent"]
  /\ UNCHANGED <<provider, creates, offering, rec, told>>

(* completeCancellation, or a re-read when the row was resolved elsewhere *)
CancelSettle(r, st, why, outcome) ==
  \/ /\ CompleteCancellation(Ctx(r), st, why)
     /\ Answer(r, outcome)
  \/ /\ ~Is(Ctx(r), "cancellation_pending")
     /\ UNCHANGED store
     /\ Answer(r, IF Is(Ctx(r), "cancelled") THEN "cancelled"
                                             ELSE "verification_required")

CancelConfirmed(r) ==
  /\ At(r, "cancelling")
  /\ GotReply(r, {"ok", "event_not_found"})
  /\ CancelSettle(r, "cancelled", "none", "cancelled")
  /\ UNCHANGED <<provider, creates, offering, rec>>

CancelMismatch(r) ==
  /\ At(r, "cancelling")
  /\ GotReply(r, {"correlation_mismatch"})
  /\ CancelSettle(r, "verification_required", "correlation_mismatch",
                  "verification_required")
  /\ UNCHANGED <<provider, creates, offering, rec>>

CancelRefused(r) ==
  /\ At(r, "cancelling")
  /\ GotReply(r, {"refused"})
  /\ CancelSettle(r, "booked", "none", "rejected")
  /\ UNCHANGED <<provider, creates, offering, rec>>

(* Mutants: no answer is taken for a refusal; no answer is taken for yes. *)
CancelUnverifiedAsRefused(r) ==
  /\ At(r, "cancelling")
  /\ NoReply(r)
  /\ CancelSettle(r, "booked", "none", "rejected")
  /\ UNCHANGED <<provider, creates, offering, rec>>

CancelUnverifiedAsDone(r) ==
  /\ At(r, "cancelling")
  /\ NoReply(r)
  /\ CancelSettle(r, "cancelled", "none", "cancelled")
  /\ UNCHANGED <<provider, creates, offering, rec>>

CancelUnverified(r) ==
  /\ At(r, "cancelling")
  /\ NoReply(r)
  /\ CancelSettle(r, "verification_required", "cancellation",
                  "verification_required")
  /\ UNCHANGED <<provider, creates, offering, rec>>

-----------------------------------------------------------------------------
(* confirmReschedule: Ctx(r) is the successor, Original(r) the booking *)

MoveClaim(r, c, s) ==
  /\ rows[c].rescheduleOf # None
  /\ s \in rows[c].offered
  /\ Claim(c, s)
  /\ Begin(r, "move", c, "begin")
  /\ UNCHANGED <<provider, creates, write, offering, rec, told>>

(* Mutant: the original is read, and stays booked while the event moves. *)
MoveBeginUnclaimed(r) ==
  /\ At(r, "begin")
  /\ UNCHANGED <<store, write, told>>
  /\ Is(Original(r), "booked")
  /\ Goto(r, "moveCheck")
  /\ UNCHANGED <<provider, creates, offering, rec>>

MoveBegin(r) ==
  /\ At(r, "begin")
  /\ UNCHANGED write
  /\ \/ /\ BeginReschedule(Original(r))
        /\ Goto(r, "moveCheck")
        /\ UNCHANGED told
     \/ /\ ~Is(Original(r), "booked")
        /\ TryComplete(Ctx(r), "rejected", None, "none")
        /\ Answer(r, "rejected")
  /\ UNCHANGED <<provider, creates, offering, rec>>

(* settle(): first the original, then (a second update) the successor *)
Settle(r, originalStatus, successorStatus) ==
  /\ TryCompleteReschedule(Original(r), originalStatus, "reschedule")
  /\ req' = [req EXCEPT ![r].pc = "settleSuccessor",
                        ![r].verdict = successorStatus]

MoveCheckFails(r) ==
  /\ At(r, "moveCheck")
  /\ Settle(r, "booked", "rejected")
  /\ UNCHANGED <<provider, creates, write, offering, rec, told>>

MoveUpdate(r) ==
  /\ At(r, "moveCheck")
  /\ ~BusyAt(rows[Original(r)].calendar, rows[Ctx(r)].start)
  /\ Send(r, "moving")
  /\ UNCHANGED <<store, provider, creates, offering, rec, told>>

MoveRefused(r) ==
  /\ At(r, "moving")
  /\ GotReply(r, {"refused", "event_not_found", "correlation_mismatch"})
  /\ Settle(r, "booked", "rejected")
  /\ UNCHANGED <<provider, creates, offering, rec, told>>

MoveUnverifiedLetsGo(r) ==
  /\ At(r, "moving")
  /\ NoReply(r)
  /\ Settle(r, "rescheduled", "verification_required")
  /\ UNCHANGED <<provider, creates, offering, rec, told>>

MoveUnverified(r) ==
  /\ At(r, "moving")
  /\ NoReply(r)
  /\ Settle(r, "verification_required", "verification_required")
  /\ UNCHANGED <<provider, creates, offering, rec, told>>

MoveConfirmed(r) ==
  /\ At(r, "moving")
  /\ GotReply(r, {"ok"})
  /\ Settle(r, "rescheduled", "booked")
  /\ UNCHANGED <<provider, creates, offering, rec, told>>

(* The store throws on the original's update: it is parked, or it had been *)
(* committed, or parking it throws too.  The successor is then parked.     *)
MovePersistenceFails(r) ==
  /\ At(r, "moving")
  /\ GotReply(r, {"ok"})
  /\ \/ Settle(r, "verification_required", "verification_required")
     \/ Settle(r, "rescheduled", "verification_required")
     \/ /\ req' = [req EXCEPT ![r].pc = "settleSuccessor",
                              ![r].verdict = "verification_required"]
        /\ UNCHANGED store
  /\ UNCHANGED <<provider, creates, offering, rec, told>>

(* The second update; its answer is not looked at.  When it throws for a   *)
(* confirmed move, before or after committing, the successor is parked, if *)
(* it still can be and the store lets it.                                  *)
SettleSuccessor(r) ==
  LET st == req[r].verdict
      ev == IF st = "booked" THEN rows[Original(r)].event ELSE None
  IN  /\ At(r, "settleSuccessor")
      /\ UNCHANGED write
      /\ \/ /\ TryComplete(Ctx(r), st, ev, "reschedule")
            /\ Answer(r, IF st = "booked" THEN "rescheduled" ELSE st)
         \/ /\ st = "booked"
            /\ \/ TryComplete(Ctx(r), "verification_required", None, "reschedule")
               \/ TryComplete(Ctx(r), "booked", ev, "none")
               \/ UNCHANGED store
            /\ Answer(r, "verification_required")
      /\ UNCHANGED <<provider, creates, offering, rec>>

-----------------------------------------------------------------------------
(* The calendar provider (external) *)

(* What a write that arrives does, by correlation-verified event id. *)
Arrive(r) ==
  LET c == Ctx(r)
      o == Original(r)
      target == IF req[r].op = "cancel" THEN rows[c].event ELSE rows[o].event
      owner  == IF req[r].op = "cancel" THEN c ELSE o
  IN  CASE req[r].op = "book" ->
             /\ event' = [event EXCEPT ![c] = [calendar |-> rows[c].calendar,
                                               start |-> rows[c].start]]
             /\ write' = [write EXCEPT ![r] = "ok"]
        [] req[r].op # "book" /\ event[target] = None ->
             /\ write' = [write EXCEPT ![r] = "event_not_found"]
             /\ UNCHANGED event
        [] req[r].op # "book" /\ event[target] # None /\ target # owner ->
             /\ write' = [write EXCEPT ![r] = "correlation_mismatch"]
             /\ UNCHANGED event
        [] OTHER ->
             /\ event' = [event EXCEPT ![target] =
                            IF req[r].op = "cancel" THEN None
                            ELSE [event[target] EXCEPT !.start = rows[c].start]]
             /\ write' = [write EXCEPT ![r] = "ok"]

ProviderApplies(r) ==
  /\ write[r] = "sent"
  /\ Arrive(r)
  /\ UNCHANGED <<store, filled, creates, req, offering, rec, told>>

ProviderRefuses(r) ==
  /\ write[r] = "sent"
  /\ write' = [write EXCEPT ![r] = "refused"]
  /\ UNCHANGED <<store, provider, creates, req, offering, rec, told>>

AttorneyFills(cal, s) ==
  /\ <<cal, s>> \in Fillable \ filled
  /\ filled' = filled \cup {<<cal, s>>}
  /\ UNCHANGED <<store, event, creates, req, write, offering, rec, told>>

AttorneyDeletes(c) ==
  /\ c \in Deletable
  /\ event[c] # None
  /\ event' = [event EXCEPT ![c] = None]
  /\ UNCHANGED <<store, filled, creates, req, write, offering, rec, told>>

AttorneyMoves(c, s) ==
  /\ c \in Movable
  /\ event[c] # None
  /\ event' = [event EXCEPT ![c].start = s]
  /\ UNCHANGED <<store, filled, creates, req, write, offering, rec, told>>

-----------------------------------------------------------------------------
(* Time and crashes *)

Live(r) == req[r].pc \notin {"idle", "done"}

Touches(r, c) == Ctx(r) # None /\ (Ctx(r) = c \/ Original(r) = c)

Elapse(c) ==
  /\ \A r \in Request : Touches(r, c) =>
       /\ RequestsTimely => ~Live(r)
       /\ WritesLand => write[r] # "sent"
  /\ Age(c)
  /\ UNCHANGED <<provider, creates, req, write, offering, rec, told>>

(* The process dies, or an error nothing catches abandons the request.  A  *)
(* write already sent may still arrive.                                    *)
Crash(r) ==
  /\ Live(r)
  /\ \/ write[r] = "sent" /\ UNCHANGED write
     \/ write' = [write EXCEPT ![r] = "none"]
  /\ req' = [req EXCEPT ![r] = Over(r)]
  /\ UNCHANGED <<store, provider, creates, offering, rec, told>>

-----------------------------------------------------------------------------
(* The reconciler: reconcileBookingContexts at boot and on every poll.     *)
(* Parking the stale rows and listing the queue are two statements; what   *)
(* comes between them could as well have come before both.                 *)

Tick(k) ==
  /\ rec[k].pc = "idle"
  /\ ReconcileStale
  /\ rec' = [rec EXCEPT ![k].pc = "next", ![k].queue =
               [i \in 1 .. (IF Len(parked') < Limit THEN Len(parked') ELSE Limit) |->
                  <<parked'[i], rows'[parked'[i]].reason>>]]
  /\ UNCHANGED <<provider, creates, req, write, offering, told>>

(* findEventByCorrelation: a successor carries the original's correlation *)
Correlation(c) == IF rows[c].rescheduleOf # None THEN rows[c].rescheduleOf ELSE c

Evidence(c) ==
  LET e == event[Correlation(c)] IN
    IF e # None /\ e.calendar = rows[c].calendar THEN e.start ELSE None

Examine(k, c, why) ==
  /\ rec[k].pc = "next"
  /\ rec[k].queue # <<>>
  /\ Head(rec[k].queue) = <<c, why>>
  /\ rows[c].native
  /\ rec' = [rec EXCEPT ![k] = [pc |-> "resolve", queue |-> Tail(@.queue),
                                ctx |-> c, why |-> why, seen |-> Evidence(c)]]
  /\ UNCHANGED <<store, provider, creates, req, write, offering, told>>

(* A legacy row, or a provider that could not be read: the row stays queued *)
Leave(k) ==
  /\ rec[k].pc = "next"
  /\ rec[k].queue # <<>>
  /\ rec' = [rec EXCEPT ![k].queue = Tail(@)]
  /\ UNCHANGED <<store, provider, creates, req, write, offering, told>>

PassEnds(k) ==
  /\ rec[k].pc = "next"
  /\ rec[k].queue = <<>>
  /\ rec' = [rec EXCEPT ![k] = IdlePass]
  /\ UNCHANGED <<store, provider, creates, req, write, offering, told>>

(* What the evidence says of the row under examination, "absent" when it   *)
(* is left for an operator; and, for a successor, of its original.         *)
Resolution(c, why, seen) ==
  CASE why = "cancellation" /\ seen = None -> "cancelled"
    [] why = "cancellation" /\ seen # None -> "booked"
    [] why # "cancellation" /\ rows[c].rescheduleOf # None ->
         IF seen = None THEN "absent"
         ELSE IF seen = rows[c].start THEN "booked" ELSE "rejected"
    [] why = "reschedule" /\ rows[c].rescheduleOf = None -> "absent"
    [] OTHER -> IF seen # None THEN "booked" ELSE "rejected"

OriginalResolution(c, seen) == IF seen = rows[c].start THEN "rescheduled"
                                                       ELSE "booked"

HasOriginal(c, why) == why # "cancellation" /\ rows[c].rescheduleOf # None

Resolve(k) ==
  LET c   == rec[k].ctx
      why == rec[k].why
      st  == Resolution(c, why, rec[k].seen)
      ev  == IF st = "booked" /\ why # "cancellation" THEN Correlation(c) ELSE None
  IN  /\ rec[k].pc = "resolve"
      /\ \/ /\ ResolveVerification(c, st, ev)
            /\ rec' = [rec EXCEPT ![k].pc = IF HasOriginal(c, why) THEN "also"
                                                                 ELSE "next"]
         \/ /\ st = "absent" \/ ~Is(c, "verification_required")
            /\ rec' = [rec EXCEPT ![k].pc = "next"]
            /\ UNCHANGED store
      /\ UNCHANGED <<provider, creates, req, write, offering, told>>

ResolveOriginal(k) ==
  LET c == rec[k].ctx
      o == rows[c].rescheduleOf
      st == OriginalResolution(c, rec[k].seen)
  IN  /\ rec[k].pc = "also"
      /\ \/ ResolveVerification(o, st, None)
         \/ ~Is(o, "verification_required") /\ UNCHANGED store
      /\ rec' = [rec EXCEPT ![k].pc = "next"]
      /\ UNCHANGED <<provider, creates, req, write, offering, told>>

(* The slot-guard index refuses a resolution to booked: the error ends the *)
(* pass, rows behind this one included.                                    *)
PassRaises(k) ==
  LET c == rec[k].ctx
      o == rows[c].rescheduleOf
  IN  /\ \/ /\ rec[k].pc = "resolve"
            /\ Is(c, "verification_required")
            /\ ResolutionRefused(c, Resolution(c, rec[k].why, rec[k].seen))
         \/ /\ rec[k].pc = "also"
            /\ Is(o, "verification_required")
            /\ ResolutionRefused(o, OriginalResolution(c, rec[k].seen))
      /\ rec' = [rec EXCEPT ![k] = IdlePass]
      /\ UNCHANGED <<store, provider, creates, req, write, offering, told>>

(* The pass dies with its process. *)
PassDies(k) ==
  /\ rec[k].pc # "idle"
  /\ rec' = [rec EXCEPT ![k] = IdlePass]
  /\ UNCHANGED <<store, provider, creates, req, write, offering, told>>

-----------------------------------------------------------------------------
RequestNext(r) ==
  \/ \E c \in Context :
       \/ \E s \in Start : BookClaim(r, c, s) \/ MoveClaim(r, c, s)
       \/ CancelBegin(r, c)
  \/ BookRecheckFails(r) \/ BookCreate(r) \/ BookRefused(r)
  \/ BookUnverified(r) \/ BookConfirmed(r) \/ BookPersistenceFails(r)
  \/ CancelConfirmed(r) \/ CancelMismatch(r) \/ CancelRefused(r)
  \/ CancelUnverified(r)
  \/ MoveBegin(r) \/ MoveCheckFails(r) \/ MoveUpdate(r) \/ MoveRefused(r)
  \/ MoveUnverified(r) \/ MoveConfirmed(r) \/ MovePersistenceFails(r)
  \/ SettleSuccessor(r)
  \/ Crash(r)

ProviderNext ==
  \/ \E r \in Request : ProviderApplies(r) \/ ProviderRefuses(r)
  \/ \E cal \in Calendar, s \in Start : AttorneyFills(cal, s)
  \/ \E c \in Context :
       AttorneyDeletes(c) \/ \E s \in Start : AttorneyMoves(c, s)

ReconcilerNext(k) ==
  \/ Tick(k) \/ PassEnds(k) \/ Leave(k) \/ PassDies(k)
  \/ \E c \in Context, why \in Reason : Examine(k, c, why)
  \/ Resolve(k) \/ ResolveOriginal(k) \/ PassRaises(k)

Next ==
  \/ \E c \in Context :
       \/ Offer(c) \/ Lapse(c) \/ BeginOfferReschedule(c) \/ Elapse(c)
       \/ \E o \in Context : OfferReschedule(c, o)
  \/ \E r \in Request : RequestNext(r)
  \/ ProviderNext
  \/ \E k \in Reconciler : ReconcilerNext(k)

Spec == Init /\ [][Next]_vars

-----------------------------------------------------------------------------
(* Fairness.  A live request is never stuck: every provider call has a     *)
(* hard timeout, and so has the process.  A write sent lands or is lost.   *)
(* The liveness poller runs the reconciler again and again, and a provider *)
(* that is read again and again is read at last; nothing is assumed of     *)
(* Leave and PassDies, which may always come first.                      *)
StepsOn(r) == Live(r) /\ RequestNext(r)

Fairness ==
  /\ WF_vars(\E r \in Request : StepsOn(r))
  /\ WF_vars(\E r \in Request : ProviderApplies(r) \/ ProviderRefuses(r))
  /\ WF_vars(\E c \in Context : Elapse(c))
  /\ \A k \in Reconciler :
       /\ WF_vars(Tick(k))
       /\ WF_vars(PassEnds(k) \/ Leave(k) \/ Resolve(k) \/ ResolveOriginal(k)
                    \/ PassRaises(k))
       /\ \A c \in Context :
            /\ SF_vars(\E why \in Reason : Examine(k, c, why))
            /\ SF_vars(rec[k].ctx = c /\ Resolve(k))

FairSpec == Spec /\ Fairness

-----------------------------------------------------------------------------
(* Safety *)

Occupied(c) == rows[c].status \in SlotOccupying

Successors(o) == {c \in Context : rows[c].rescheduleOf = o}

(* A booking context sends at most one create to its provider, whatever    *)
(* crashes, is parked, or is asked for again: "ONE request per booking     *)
(* attempt, NO automatic retries".                                         *)
SingleAttempt == \A c \in Context : creates[c] <= 1

(* Two events GuideHerd made never sit on one calendar at one instant.     *)
(* The slot guard alone does not give this: a parked row holds no slot, so *)
(* the re-check before the provider write has to.                          *)
NoDoubleBooking ==
  \A c, d \in Context :
    c # d /\ event[c] # None /\ event[c].calendar # None => event[c] # event[d]

(* A native row that says booked has its event on its calendar at its      *)
(* start, unless the attorney deleted or moved it: no refusal, timeout,    *)
(* crash or resolution leaves a booking without an appointment.            *)
BookedIsReal ==
  \A c \in Context :
    Is(c, "booked") /\ rows[c].native
      /\ rows[c].event \notin Deletable \cup Movable =>
        event[rows[c].event] = [calendar |-> rows[c].calendar,
                                start    |-> rows[c].start]

(* An event in a calendar is somebody's: its context or one of its         *)
(* successors is live or parked, never are all of them settled as having   *)
(* no appointment.                                                         *)
NoOrphanEvent ==
  \A c \in Context :
    event[c] # None =>
      \E d \in {c} \cup Successors(c) :
        Occupied(d) \/ Is(d, "verification_required")

(* A caller told "cancelled" has no event left standing.                   *)
CancelledIsTrue ==
  \A c \in Context : told[c] = "cancelled" => event[rows[c].event] = None

(* "Never two live appointments": a booking and its successor, or two      *)
(* successors, are never both booked.                                      *)
NeverTwoLive ==
  \A o \in Context : \A c \in Successors(o) :
    Is(c, "booked") =>
      \A d \in ({o} \cup Successors(o)) \ {c} : ~Is(d, "booked")

(* "Never zero": a booking is settled as moved only when the move got as   *)
(* far as a successor that holds, or is parked with, the appointment.      *)
NeverZero ==
  \A o \in Context :
    Is(o, "rescheduled") =>
      \E c \in Successors(o) :
        rows[c].status \notin {"absent", "offered", "expired", "rejected"}

(* What a caller is told is durable: the moment a booking or a move is     *)
(* reported, the row is booked and its event is where the caller was told, *)
(* unless the attorney interfered.                                         *)
ToldIsDurable ==
  [][\A c \in Context :
       /\ told'[c] # told[c]
       /\ told'[c] \in {"booked", "rescheduled"}
       /\ Correlation(c) \notin Deletable \cup Movable
       => /\ rows'[c].status = "booked"
          /\ event'[Correlation(c)].start = rows'[c].start]_vars

-----------------------------------------------------------------------------
(* Liveness *)

(* A parked row its evidence settles.  That of a legacy row and of a parked*)
(* original does not, nor that of a successor whose event is gone; and when*)
(* an attorney has moved an event off an instant and the instant is taken, *)
(* the index refuses the resolution, at every pass.                        *)
Resolvable(c) ==
  /\ Is(c, "verification_required")
  /\ rows[c].native
  /\ LET st == Resolution(c, rows[c].reason, Evidence(c))
     IN  st # "absent" /\ ~ResolutionRefused(c, st)

(* No row is left behind by a request that died: one in flight gets out of *)
(* flight, by its request or by the reconciler, and one parked for lack of *)
(* an answer is settled by evidence.                                       *)
Open(c) == rows[c].status \in InFlight \/ Resolvable(c)

NothingStranded == \A c \in Context : Open(c) ~> ~Open(c)

=============================================================================
