--------------------------- MODULE Notifications ---------------------------
(***************************************************************************)
(* What a reported outcome sends: the consultation summary to the firm,    *)
(* and the confirmation of a booked appointment to the caller, over the    *)
(* sessions of module Sessions.                                            *)
(*                                                                         *)
(* The request that reports an outcome delivers the summary itself; the    *)
(* outbox consumers of conversation.completed recover a summary no attempt *)
(* was made for, and send the confirmation.  Two claims of five minutes    *)
(* guard a summary, the session's and the notification's; the second one   *)
(* guards a confirmation.  The outbox's delivery row is abstracted to what *)
(* the consumers see of module Outbox: redelivery after a failure, or once *)
(* its own five minutes are over.                                          *)
(***************************************************************************)
EXTENDS Sessions

CONSTANTS
  Worker,        (* requests and drains that deliver                        *)
  MaxAttempts,   (* the outbox's bound on deliveries: 5                     *)
  MishapLimit,   (* bound: deaths, store failures and lost replies          *)
  Timely         (* TRUE: no attempt outlives its five-minute claims        *)

ASSUME NotificationsAssumption ==
  /\ MaxAttempts \in Nat \ {0} /\ MishapLimit \in Nat /\ Timely \in BOOLEAN

VARIABLES
  claim,     (* [Session -> its summary_delivery]                           *)
  notice,    (* [Key -> the notification's delivery record]                 *)
  mails,     (* [Key -> messages the mail system accepted]                  *)
  owed,      (* [Key -> the outbox's delivery to the key's consumer]        *)
  work,      (* [Worker -> what it is doing]                                *)
  mishaps

notificationVars == <<claim, notice, mails, owed, work, mishaps>>

vars == <<sessionVars, notificationVars>>

Summary == "consultation-summary"
Confirmation == "appointment-confirmation"

Key == {Summary, Confirmation} \X Session

Result == {"sent", "failed", "not-configured"}

(* A claim: stale once a pending one is five minutes old. *)
Claim == [status : {"none", "pending"} \cup Result, stale : BOOLEAN]

Owed == [state : {"none", "owed", "held", "completed", "abandoned"},
         tries : Nat, stale : BOOLEAN]

Work == [pc     : {"idle", "claim", "notify", "send", "record", "mirror", "settle"},
         key    : Key \cup {Nothing},
         inline : BOOLEAN,                   (* a request, or the outbox    *)
         result : Result \cup {Nothing}]

NotificationsTypeOK ==
  /\ SessionsTypeOK
  /\ claim \in [Session -> Claim]
  /\ notice \in [Key -> Claim]
  /\ mails \in [Key -> Nat]
  /\ owed \in [Key -> Owed]
  /\ work \in [Worker -> Work]
  /\ mishaps \in 0 .. MishapLimit

NoClaim == [status |-> "none", stale |-> FALSE]
Pending == [status |-> "pending", stale |-> FALSE]
AtRest  == [pc |-> "idle", key |-> Nothing, inline |-> FALSE, result |-> Nothing]

Init ==
  /\ SessionsInit
  /\ claim = [s \in Session |-> NoClaim]
  /\ notice = [k \in Key |-> NoClaim]
  /\ mails = [k \in Key |-> 0]
  /\ owed = [k \in Key |-> [state |-> "none", tries |-> 0, stale |-> FALSE]]
  /\ work = [w \in Worker |-> AtRest]
  /\ mishaps = 0

-----------------------------------------------------------------------------
At(w, pc) == work[w].pc = pc
KeyOf(w) == work[w].key
SessionOf(w) == work[w].key[2]
ForSummary(w) == work[w].key[1] = Summary

Become(w, r) == work' = [work EXCEPT ![w] = r]
Go(w, pc) == Become(w, [work[w] EXCEPT !.pc = pc])
GoWith(w, pc, result) == Become(w, [work[w] EXCEPT !.pc = pc, !.result = result])

(* Mutants: a claim that is taken over while fresh; one that reopens. *)
GrantableWhilePending(c) == c.status \in {"none", "failed", "pending"}
GrantableAgain(c) == c.status \in {"none", "failed", "sent"} \/ c.stale

(* claim() and claimSummaryDelivery(): never attempted, failed, or stale *)
Grantable(c) == c.status \in {"none", "failed"} \/ c.stale

(* record() and recordSummaryDelivery() write whatever they are given. *)
Recorded(result) == [status |-> result, stale |-> FALSE]

(* The consumer's handler is over, one way or the other. *)
Deliver(w, state) ==
  /\ owed' = [owed EXCEPT ![KeyOf(w)] =
       [state |-> state, tries |-> owed[KeyOf(w)].tries, stale |-> FALSE]]
  /\ Become(w, AtRest)

(* What an error does: the request answers 500, the outbox backs off. *)
Throw(w) ==
  IF work[w].inline THEN Become(w, AtRest) /\ UNCHANGED owed
  ELSE Deliver(w, IF owed[KeyOf(w)].tries >= MaxAttempts THEN "abandoned" ELSE "owed")

-----------------------------------------------------------------------------
(* recordOutcomeAndDeliver(): the outcome, and the consumers are owed it *)
ReportOutcome(w, s, o) ==
  /\ At(w, "idle")
  /\ \/ /\ RecordOutcome(s, o)
        /\ owed' = [k \in Key |-> IF k[2] = s THEN [owed[k] EXCEPT !.state = "owed"]
                                              ELSE owed[k]]
     \/ DuplicateOutcome(s, o) /\ UNCHANGED owed
  /\ Become(w, [pc |-> "claim", key |-> <<Summary, s>>, inline |-> TRUE,
                result |-> Nothing])
  /\ UNCHANGED <<call, claim, notice, mails, mishaps>>

(* The backoffs, 371 s in all, outlast a claim: a last attempt finds none fresh. *)
Redeliverable(k) ==
  \/ owed[k].state = "held" /\ owed[k].stale
  \/ /\ owed[k].state = "owed"
     /\ owed[k].tries + 1 = MaxAttempts =>
          /\ claim[k[2]].status # "pending" \/ claim[k[2]].stale
          /\ notice[k].status # "pending" \/ notice[k].stale

(* Mutant: a claimed summary is settled, whatever becomes of the claimant. *)
UnneededOnceClaimed(k) ==
  \/ Has(k[2], "purged")
  \/ k[1] = Summary /\ claim[k[2]].status # "none"
  \/ k[1] = Confirmation /\ session[k[2]].outcome # "booked"

(* The consumer returns at once: the session is gone, the summary's        *)
(* attempt ran, or there is no appointment to confirm.                     *)
Unneeded(k) ==
  \/ Has(k[2], "purged")
  \/ k[1] = Summary /\ claim[k[2]].status \in Result
  \/ k[1] = Confirmation /\ session[k[2]].outcome # "booked"

(* An outbox drain claims a delivery; its handler reads the session. *)
Take(w, k) ==
  /\ At(w, "idle")
  /\ Redeliverable(k)
  /\ owed' = [owed EXCEPT ![k] =
       [state |-> "held", tries |-> owed[k].tries + 1, stale |-> FALSE]]
  /\ Become(w, [pc |-> IF Unneeded(k) THEN "settle"
                       ELSE IF k[1] = Summary THEN "claim" ELSE "notify",
                key |-> k, inline |-> FALSE, result |-> Nothing])
  /\ UNCHANGED <<sessionVars, claim, notice, mails, mishaps>>

(* claimSummaryDelivery(), and what an attempt that is refused does *)
ClaimSummary(w) ==
  /\ At(w, "claim")
  /\ \/ /\ Grantable(claim[SessionOf(w)])
        /\ claim' = [claim EXCEPT ![SessionOf(w)] = Pending]
        /\ Go(w, "notify")
        /\ UNCHANGED owed
     \/ /\ ~Grantable(claim[SessionOf(w)])
        /\ IF work[w].inline \/ claim[SessionOf(w)].status = "pending"
           THEN Throw(w)
           ELSE Go(w, "settle") /\ UNCHANGED owed
        /\ UNCHANGED claim
  /\ UNCHANGED <<sessionVars, notice, mails, mishaps>>

(* send() claims its key.  A confirmation that is suppressed is over; a    *)
(* summary reports what suppressed it.                                     *)
ClaimNotice(w) ==
  /\ At(w, "notify")
  /\ \/ /\ Grantable(notice[KeyOf(w)])
        /\ notice' = [notice EXCEPT ![KeyOf(w)] = Pending]
        /\ Go(w, "send")
     \/ /\ ~Grantable(notice[KeyOf(w)])
        /\ IF ForSummary(w)
           THEN GoWith(w, "mirror", IF notice[KeyOf(w)].status = "sent" THEN "sent" ELSE "failed")
           ELSE Go(w, "settle")
        /\ UNCHANGED notice
  /\ UNCHANGED <<sessionVars, claim, mails, owed, mishaps>>

(* The summary cannot be built from the session: no send is attempted. *)
GenerationFails(w) ==
  /\ At(w, "notify") /\ ForSummary(w)
  /\ GoWith(w, "mirror", "failed")
  /\ UNCHANGED <<sessionVars, claim, notice, mails, owed, mishaps>>

(* The provider's answer: 202, an error after its own retries, or no mail  *)
(* configured.                                                             *)
Send(w) ==
  /\ At(w, "send")
  /\ \E result \in Result :
       /\ GoWith(w, "record", result)
       /\ mails' = [mails EXCEPT ![KeyOf(w)] = mails[KeyOf(w)] +
                      (IF result = "sent" THEN 1 ELSE 0)]
  /\ UNCHANGED <<sessionVars, claim, notice, owed, mishaps>>

(* Mutant: the attempt counts as sent once the provider answered. *)
RecordSent(w) ==
  /\ At(w, "record")
  /\ notice' = [notice EXCEPT ![KeyOf(w)] = Recorded("sent")]
  /\ IF ForSummary(w) THEN GoWith(w, "mirror", "sent") ELSE Go(w, "settle")
  /\ UNCHANGED <<sessionVars, claim, mails, owed, mishaps>>

Record(w) ==
  /\ At(w, "record")
  /\ notice' = [notice EXCEPT ![KeyOf(w)] = Recorded(work[w].result)]
  /\ Go(w, IF ForSummary(w) THEN "mirror" ELSE "settle")
  /\ UNCHANGED <<sessionVars, claim, mails, owed, mishaps>>

(* recordSummaryDelivery(): the end of a request *)
Mirror(w) ==
  /\ At(w, "mirror")
  /\ claim' = [claim EXCEPT ![SessionOf(w)] = Recorded(work[w].result)]
  /\ IF work[w].inline THEN Become(w, AtRest) ELSE Go(w, "settle")
  /\ UNCHANGED <<sessionVars, notice, mails, owed, mishaps>>

Settle(w) ==
  /\ At(w, "settle")
  /\ Deliver(w, "completed")
  /\ UNCHANGED <<sessionVars, claim, notice, mails, mishaps>>

-----------------------------------------------------------------------------
(* What goes wrong, at most MishapLimit times. *)
Mishap == mishaps < MishapLimit /\ mishaps' = mishaps + 1

(* Graph accepts the message and its reply is lost: reported as failed. *)
ReplyLost(w) ==
  /\ Mishap
  /\ At(w, "send")
  /\ GoWith(w, "record", "failed")
  /\ mails' = [mails EXCEPT ![KeyOf(w)] = mails[KeyOf(w)] + 1]
  /\ UNCHANGED <<sessionVars, claim, notice, owed>>

(* The store, or anything between a claim and its record, throws. *)
StepThrows(w) ==
  /\ Mishap
  /\ ~At(w, "idle")
  /\ Throw(w)
  /\ UNCHANGED <<sessionVars, claim, notice, mails>>

(* The process dies; its delivery stays held. *)
WorkerDies(w) ==
  /\ Mishap
  /\ ~At(w, "idle")
  /\ Become(w, AtRest)
  /\ UNCHANGED <<sessionVars, claim, notice, mails, owed>>

(* Five minutes pass for a claim: not under a worker that is on time. *)
HoldsClaim(w, s) == At(w, "notify") /\ ForSummary(w) /\ SessionOf(w) = s
HoldsNotice(w, k) == work[w].pc \in {"send", "record"} /\ KeyOf(w) = k
HoldsMirror(w, s) == work[w].pc \in {"send", "record", "mirror"} /\ ForSummary(w) /\ SessionOf(w) = s

ClaimRipens(s) ==
  /\ claim[s].status = "pending" /\ ~claim[s].stale
  /\ Timely => \A w \in Worker : ~HoldsClaim(w, s) /\ ~HoldsMirror(w, s)
  /\ claim' = [claim EXCEPT ![s] = [status |-> "pending", stale |-> TRUE]]
  /\ UNCHANGED <<sessionVars, notice, mails, owed, work, mishaps>>

NoticeRipens(k) ==
  /\ notice[k].status = "pending" /\ ~notice[k].stale
  /\ Timely => \A w \in Worker : ~HoldsNotice(w, k)
  /\ notice' = [notice EXCEPT ![k] = [status |-> "pending", stale |-> TRUE]]
  /\ UNCHANGED <<sessionVars, claim, mails, owed, work, mishaps>>

HoldRipens(k) ==
  /\ owed[k].state = "held" /\ ~owed[k].stale
  /\ Timely => \A w \in Worker : KeyOf(w) = k => work[w].inline
  /\ owed' = [owed EXCEPT ![k] = [owed[k] EXCEPT !.stale = TRUE]]
  /\ UNCHANGED <<sessionVars, claim, notice, mails, work, mishaps>>

-----------------------------------------------------------------------------
Attempt(w) ==
  \/ ClaimSummary(w) \/ ClaimNotice(w) \/ GenerationFails(w) \/ Send(w)
  \/ Record(w) \/ Mirror(w) \/ Settle(w)

Time ==
  \/ \E s \in Session : ClaimRipens(s)
  \/ \E k \in Key : NoticeRipens(k) \/ HoldRipens(k)

(* The retention windows are hours and days: no attempt is under way.      *)
Purge ==
  /\ PurgeRetired
  /\ \A w \in Worker : ~At(w, "idle") => session'[SessionOf(w)] = session[SessionOf(w)]

SessionsMove ==
  /\ \/ \E s \in Session : SessionStep(s)
     \/ \E c \in Call : Correlation(c)
     \/ Purge
  /\ UNCHANGED notificationVars

Next ==
  \/ SessionsMove
  \/ \E w \in Worker, s \in Session, o \in Outcome : ReportOutcome(w, s, o)
  \/ \E w \in Worker : (\E k \in Key : Take(w, k)) \/ Attempt(w)
  \/ \E w \in Worker : ReplyLost(w) \/ StepThrows(w) \/ WorkerDies(w)
  \/ Time

Spec == Init /\ [][Next]_vars

(* Workers finish what they do, some instance polls the outbox, and time   *)
(* passes.  Nobody has to report twice.                                    *)
Fairness ==
  /\ \A w \in Worker : WF_vars(Attempt(w))
  /\ \A k \in Key : SF_vars(\E w \in Worker : Take(w, k))
  /\ WF_vars(Time)

FairSpec == Spec /\ Fairness

-----------------------------------------------------------------------------
(* Between a claim and its record there is one attempt per notification,   *)
(* from any request, drain or instance.                                    *)
OneSender ==
  \A v, w \in Worker : \A k \in Key :
    HoldsNotice(v, k) /\ HoldsNotice(w, k) => v = w

(* The session says its summary was sent only when it was: its record, the *)
(* notification's and the mail system's agree on it.                       *)
SentIsTrue ==
  \A s \in Session :
    /\ claim[s].status = "sent" => notice[<<Summary, s>>].status = "sent"
    /\ \A k \in Key : notice[k].status = "sent" => mails[k] > 0

(* "'sent' is final forever", for the session and for the notification.    *)
SentIsFinal ==
  [][/\ \A s \in Session : claim[s].status = "sent" => claim'[s].status = "sent"
     /\ \A k \in Key : notice[k].status = "sent" => notice'[k].status = "sent"]_vars

(* "Never-permanently-stuck": as long as the outbox owes an outcome's      *)
(* event to the recovery, its summary comes to sent, failed or unconfigured*)
(* whoever died trying.  (A retry by a second report, after that, that     *)
(* dies too waits for a third report.)                                     *)
SummarySettled ==
  \A s \in Session :
    owed[<<Summary, s>>].state = "owed" ~>
      claim[s].status \in Result \/ Has(s, "purged")

=============================================================================
