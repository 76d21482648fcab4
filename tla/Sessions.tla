------------------------------ MODULE Sessions ------------------------------
(***************************************************************************)
(* The handoff sessions of one organization: prepared by a receptionist,   *)
(* connected once (by token, or by the correlation engine for a            *)
(* conversation that arrives), completed by the outcome the assistant      *)
(* reports, cancelled from the console, expired and purged.                *)
(*                                                                         *)
(* Each store operation is one transaction under row locks, an advisory    *)
(* lock for the cap, so it is one step; correlation takes several.  The    *)
(* repository stores "expired" when a row past expires_at is next touched; *)
(* every operation tests expires_at too, so here a row expires on time.    *)
(* No code of the repository sets the status "scheduling".                 *)
(***************************************************************************)
EXTENDS Naturals, Sequences, FiniteSets

CONSTANTS
  Session,       (* session ids                                             *)
  Phone,         (* normalized caller numbers                               *)
  Call,          (* conversations a provider asks to connect                *)
  Outcome,       (* terminal outcomes in use: booked, failed, escalated     *)
  MaxPrepared,   (* maxPreparedSessions, the organization's cap             *)
  Nothing        (* null: no outcome, no session named, no usable number    *)

ASSUME SessionsAssumption ==
  /\ IsFiniteSet(Session) /\ MaxPrepared \in Nat
  /\ Outcome \subseteq {"booked", "failed", "escalated"}
  /\ Nothing \notin Session \cup Phone \cup Outcome

VARIABLES
  session,   (* [Session -> its row]                                        *)
  events,    (* [Session -> the domain events appended for it, in order]    *)
  call       (* [Call -> how far its correlation is]                        *)

sessionVars == <<session, events, call>>

Terminal == {"booked", "failed", "escalated"}

Status == {"none", "awaiting-transfer", "connected", "cancelled", "expired",
           "purged"} \cup Terminal

SessionRow == [status  : Status,
               phone   : Phone \cup {Nothing},
               outcome : Outcome \cup {Nothing}]

CallRow == [step   : {"idle", "session-id", "caller-phone", "baseline", "connected"},
            named  : Session \cup {Nothing},      (* the intent's sessionId *)
            number : Phone \cup {Nothing},        (* and its callerPhone    *)
            got    : Session \cup {Nothing}]

SessionsTypeOK ==
  /\ session \in [Session -> SessionRow]
  /\ events \in [Session -> Seq({"connected"} \cup Outcome)]
  /\ call \in [Call -> CallRow]

NoSession == [status |-> "none", phone |-> Nothing, outcome |-> Nothing]

Idle == [step |-> "idle", named |-> Nothing, number |-> Nothing, got |-> Nothing]

SessionsInit ==
  /\ session = [s \in Session |-> NoSession]
  /\ events = [s \in Session |-> <<>>]
  /\ call = [c \in Call |-> Idle]

-----------------------------------------------------------------------------
Has(s, st) == session[s].status = st

Eligible == {s \in Session : Has(s, "awaiting-transfer")}

SetStatus(s, st) == session' = [session EXCEPT ![s] = [session[s] EXCEPT !.status = st]]

Append1(s, e) == events' = [events EXCEPT ![s] = Append(events[s], e)]

HasCapacity == Cardinality(Eligible) < MaxPrepared

Prepared(phone) == [status |-> "awaiting-transfer", phone |-> phone, outcome |-> Nothing]

(* create(): the count and the insert, under the organization's lock *)
Create(s, phone) ==
  /\ Has(s, "none")
  /\ HasCapacity
  /\ session' = [session EXCEPT ![s] = Prepared(phone)]
  /\ UNCHANGED <<events, call>>

(* What a connection writes, with its event in the same transaction. *)
Connect(s) == SetStatus(s, "connected") /\ Append1(s, "connected")

(* Mutant: the token is redeemed whatever became of its session. *)
RedeemAgain(s) ==
  /\ session[s].status \in {"awaiting-transfer", "connected"}
  /\ Connect(s)
  /\ UNCHANGED call

(* redeem(): a token connects its own session *)
Redeem(s) ==
  /\ s \in Eligible
  /\ Connect(s)
  /\ UNCHANGED call

(* cancel(): refused when connected, expired or already cancelled; a       *)
(* session whose outcome is in passes                                      *)
Cancellable(s) == session[s].status \in {"awaiting-transfer"} \cup Terminal

Cancel(s) ==
  /\ Cancellable(s)
  /\ SetStatus(s, "cancelled")
  /\ UNCHANGED <<events, call>>

(* expires_at passes *)
Expire(s) ==
  /\ s \in Eligible
  /\ SetStatus(s, "expired")
  /\ UNCHANGED <<events, call>>

(* normalizeOutcome(): what is reported is booked with an appointment, or   *)
(* another outcome without one.                                            *)
WellFormed(o, appointment) == appointment <=> o = "booked"

(* applyOutcome(), accepted: the outcome and its event in one transaction *)
RecordOutcome(s, o) ==
  /\ Has(s, "connected")
  /\ session' = [session EXCEPT ![s] =
       [status |-> o, phone |-> session[s].phone, outcome |-> o]]
  /\ Append1(s, o)

(* applyOutcome(), an identical report again *)
DuplicateOutcome(s, o) ==
  /\ session[s].status \in Terminal
  /\ session[s].outcome = o
  /\ UNCHANGED <<session, events>>

Report(s, o, appointment) ==
  /\ WellFormed(o, appointment)
  /\ RecordOutcome(s, o)
  /\ UNCHANGED call

(* Mutant: the sweep takes every row past expires_at. *)
RetirableByExpiry == {s \in Session : ~Has(s, "none") /\ ~Has(s, "purged")}

(* What purgeRetired() deletes once it is old enough. *)
Retirable == {s \in Session :
                session[s].status \in {"cancelled", "expired"} \cup Terminal}

(* sweep(): the rows whose window has passed, of an organization that      *)
(* enabled retention                                                       *)
PurgeRetired ==
  /\ \E old \in SUBSET Retirable \ {{}} :
       session' = [s \in Session |->
         IF s \in old THEN [NoSession EXCEPT !.status = "purged"] ELSE session[s]]
  /\ UNCHANGED <<events, call>>

-----------------------------------------------------------------------------
(* The correlation engine. *)
SetCall(c, r) == call' = [call EXCEPT ![c] = r]

(* The sessions the signal of a call's step leaves; Session for no signal. *)
Scope(c) ==
  CASE call[c].step = "session-id"   -> {call[c].named}
    [] call[c].step = "caller-phone" -> {s \in Session : session[s].phone = call[c].number}
    [] OTHER                         -> Session

Candidates(c) == Eligible \cap Scope(c)

(* The intent carries no value for the signal of this step. *)
Absent(c) ==
  \/ call[c].step = "session-id"   /\ call[c].named = Nothing
  \/ call[c].step = "caller-phone" /\ call[c].number = Nothing

(* Mutant: a session id that matches nothing falls through like a number. *)
NeverAuthoritative(c) == call[c].step = "baseline"

(* A signal that names one session, and the baseline, fail the walk. *)
Decisive(c) == call[c].step \in {"session-id", "baseline"}

Walking(c) == call[c].step \in {"session-id", "caller-phone", "baseline"}

(* correlate() with the intent an adapter made of the provider's request *)
Arrive(c) ==
  /\ call[c].step = "idle"
  /\ \E named \in Session \cup {Nothing}, number \in Phone \cup {Nothing} :
       SetCall(c, [step |-> "session-id", named |-> named, number |-> number,
                   got |-> Nothing])
  /\ UNCHANGED <<session, events>>

(* Mutant: one of several candidates is taken. *)
MatchesGuessing(c) ==
  /\ Walking(c) /\ ~Absent(c)
  /\ \E s \in Candidates(c) :
       Connect(s) /\ SetCall(c, [call[c] EXCEPT !.step = "connected", !.got = s])

(* connectEligible(): exactly one candidate *)
Matches(c) ==
  /\ Walking(c) /\ ~Absent(c)
  /\ \E s \in Candidates(c) :
       /\ Candidates(c) = {s}
       /\ Connect(s)
       /\ SetCall(c, [call[c] EXCEPT !.step = "connected", !.got = s])

(* an absent signal, or a weaker one that matches nothing, defers *)
Defers(c) ==
  /\ Walking(c)
  /\ Absent(c) \/ (~Decisive(c) /\ Candidates(c) = {})
  /\ SetCall(c, [call[c] EXCEPT !.step =
       IF call[c].step = "session-id" THEN "caller-phone" ELSE "baseline"])
  /\ UNCHANGED <<session, events>>

(* 404 or 409: the provider may ask again *)
Refused(c) ==
  /\ Walking(c) /\ ~Absent(c)
  /\ Cardinality(Candidates(c)) > 1 \/ (Decisive(c) /\ Candidates(c) = {})
  /\ SetCall(c, Idle)
  /\ UNCHANGED <<session, events>>

Correlation(c) == Arrive(c) \/ Matches(c) \/ Defers(c) \/ Refused(c)

-----------------------------------------------------------------------------
SessionStep(s) ==
  \/ \E phone \in Phone \cup {Nothing} : Create(s, phone)
  \/ Redeem(s) \/ Cancel(s) \/ Expire(s)

SessionsNext ==
  \/ \E s \in Session : SessionStep(s)
  \/ \E s \in Session, o \in Outcome, appointment \in BOOLEAN : Report(s, o, appointment)
  \/ \E c \in Call : Correlation(c)
  \/ PurgeRetired

SessionsSpec == SessionsInit /\ [][SessionsNext]_sessionVars

-----------------------------------------------------------------------------
(* "The operation cannot succeed without the event, and a duplicate        *)
(* publishes nothing new": a session's events say how it was connected and *)
(* completed, once each and in that order, by whatever path it got there.  *)
Story(s) ==
  CASE session[s].outcome # Nothing -> <<"connected", session[s].outcome>>
    [] Has(s, "connected")          -> <<"connected">>
    [] OTHER                        -> <<>>

EventsTellTheStory == \A s \in Session : ~Has(s, "purged") => events[s] = Story(s)

(* A conversation that names a session never gets another one, and two     *)
(* conversations never get the same one, however the sessions changed      *)
(* between the steps of their walks.                                       *)
RightSession ==
  \A c, d \in Call :
    call[c].got # Nothing =>
      /\ call[c].named \in {Nothing, call[c].got}
      /\ call[d].got = call[c].got => c = d

(* "Ambiguity is never resolved by guessing": when a conversation that     *)
(* names no session takes one while others wait, its number picked that    *)
(* one, and no other carries the number, whatever moved since it arrived.  *)
NeverAStrangers ==
  [][\A c \in Call :
       call'[c].got # call[c].got /\ call[c].named = Nothing =>
         \A s \in Eligible \ {call'[c].got} :
           /\ session[s].phone # call[c].number \/ call[c].number = Nothing
           /\ session[call'[c].got].phone = call[c].number
                /\ call[c].number # Nothing]_sessionVars

(* "The first valid terminal outcome wins", and a conversation under way   *)
(* loses its session to no sweep: from the connection on, a row only       *)
(* gains its outcome, and goes only once that is in.                       *)
FirstOutcomeWins ==
  [][\A s \in Session :
       /\ session[s].outcome # Nothing =>
            session'[s].outcome = session[s].outcome \/ session'[s].status = "purged"
       /\ Has(s, "connected") /\ session'[s].status # "connected" =>
            session'[s].outcome # Nothing]_sessionVars
=============================================================================
