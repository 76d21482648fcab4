------------------------ MODULE Notifications_proofs --------------------------
(***************************************************************************)
(* Proofs about the handoff sessions, for any sessions, callers,           *)
(* conversations and any cap, and about the notifications that tell of     *)
(* them, for any workers, attempts and mishaps.                            *)
(***************************************************************************)
EXTENDS Notifications, SequenceTheorems, TLAPS

-----------------------------------------------------------------------------
(* Type correctness *)

LEMMA NoSessionType == NoSession \in SessionRow
BY DEF NoSession, SessionRow, Status

LEMMA IdleType == Idle \in CallRow
BY DEF Idle, CallRow

LEMMA InitType == SessionsInit => SessionsTypeOK
BY NoSessionType, IdleType, EmptySeq DEF SessionsInit, SessionsTypeOK

(* A second event after a first. *)
LEMMA AppendPair ==
  ASSUME NEW S, NEW a \in S, NEW b \in S
  PROVE  Append(<<a>>, b) = <<a, b>>
<1> DEFINE one == <<a>>
<1> DEFINE two == <<a, b>>
<1>1. one \in Seq(S) /\ Len(one) = 1 /\ one[1] = a
  OBVIOUS
<1>2. two \in Seq(S) /\ Len(two) = 2 /\ two[1] = a /\ two[2] = b
  OBVIOUS
<1> HIDE DEF one, two
<1>3. Append(one, b) \in Seq(S)
  BY <1>1, AppendProperties
<1>4. Len(Append(one, b)) = Len(one) + 1
  BY <1>1, AppendProperties
<1>5. \A i \in 1 .. Len(one) : Append(one, b)[i] = one[i]
  BY <1>1, AppendProperties
<1>6. Append(one, b)[Len(one) + 1] = b
  BY <1>1, AppendProperties
<1>7. Append(one, b) = two
  BY <1>1, <1>2, <1>3, <1>4, <1>5, <1>6, SeqEqual
<1> QED
  BY <1>7 DEF one, two

(* Writing a status, an event or a call leaves the variable well-typed. *)
LEMMA SetStatusType ==
  ASSUME SessionsTypeOK, NEW s \in Session, NEW st \in Status, SetStatus(s, st)
  PROVE  session' \in [Session -> SessionRow]
<1>1. [session[s] EXCEPT !.status = st] \in SessionRow
  BY DEF SessionsTypeOK, SessionRow
<1> QED
  BY <1>1 DEF SessionsTypeOK, SetStatus

LEMMA AppendType ==
  ASSUME SessionsTypeOK, NEW s \in Session, NEW e \in {"connected"} \cup Outcome, Append1(s, e)
  PROVE  events' \in [Session -> Seq({"connected"} \cup Outcome)]
<1>1. Append(events[s], e) \in Seq({"connected"} \cup Outcome)
  BY AppendProperties DEF SessionsTypeOK
<1> QED
  BY <1>1 DEF SessionsTypeOK, Append1

LEMMA ConnectType ==
  ASSUME SessionsTypeOK, NEW s \in Session, Connect(s)
  PROVE  /\ session' \in [Session -> SessionRow]
         /\ events' \in [Session -> Seq({"connected"} \cup Outcome)]
BY SetStatusType, AppendType DEF Connect, Status

LEMMA SetCallType ==
  ASSUME SessionsTypeOK, NEW c \in Call, NEW r \in CallRow, SetCall(c, r)
  PROVE  call' \in [Call -> CallRow]
BY DEF SessionsTypeOK, SetCall

(* Every step leaves the state well-typed. *)
LEMMA NextType == SessionsTypeOK /\ [SessionsNext]_sessionVars => SessionsTypeOK'
<1> SUFFICES ASSUME SessionsTypeOK, [SessionsNext]_sessionVars PROVE SessionsTypeOK'
  OBVIOUS
<1> USE SessionsAssumption
<1>1. ASSUME NEW s \in Session, NEW phone \in Phone \cup {Nothing}, Create(s, phone)
      PROVE  SessionsTypeOK'
  <2>1. [status |-> "awaiting-transfer", phone |-> phone, outcome |-> Nothing] \in SessionRow
    BY DEF SessionRow, Status
  <2> QED
    BY <1>1, <2>1 DEF Create, Prepared, SessionsTypeOK
<1>2. ASSUME NEW s \in Session, Redeem(s) PROVE SessionsTypeOK'
  BY <1>2, ConnectType DEF Redeem, SessionsTypeOK
<1>3. ASSUME NEW s \in Session, Cancel(s) PROVE SessionsTypeOK'
  BY <1>3, SetStatusType DEF Cancel, Cancellable, SessionsTypeOK, Status
<1>4. ASSUME NEW s \in Session, Expire(s) PROVE SessionsTypeOK'
  BY <1>4, SetStatusType DEF Expire, SessionsTypeOK, Status
<1>5. ASSUME NEW s \in Session, NEW o \in Outcome,
           NEW appointment \in BOOLEAN, Report(s, o, appointment) PROVE SessionsTypeOK'
  <2>1. [status |-> o, phone |-> session[s].phone, outcome |-> o] \in SessionRow
    BY DEF SessionRow, Status, Terminal, SessionsTypeOK
  <2>2. session' \in [Session -> SessionRow]
    BY <1>5, <2>1 DEF Report, RecordOutcome, SessionsTypeOK
  <2> QED
    BY <1>5, <2>2, AppendType DEF Report, RecordOutcome, SessionsTypeOK
<1>6. ASSUME NEW c \in Call, Correlation(c) PROVE SessionsTypeOK'
  <2>1. CASE Arrive(c)
    <3>1. PICK named \in Session \cup {Nothing}, number \in Phone \cup {Nothing} :
            SetCall(c, [step |-> "session-id", named |-> named, number |-> number,
                        got |-> Nothing])
      BY <2>1 DEF Arrive
    <3>2. [step |-> "session-id", named |-> named, number |-> number, got |-> Nothing]
            \in CallRow
      BY DEF CallRow
    <3> QED
      BY <2>1, <3>1, <3>2, SetCallType DEF Arrive, SessionsTypeOK
  <2>2. CASE Matches(c)
    <3>1. PICK s \in Candidates(c) :
            /\ Connect(s)
            /\ SetCall(c, [call[c] EXCEPT !.step = "connected", !.got = s])
      BY <2>2 DEF Matches
    <3>2. s \in Session
      BY DEF Candidates, Eligible
    <3>3. [call[c] EXCEPT !.step = "connected", !.got = s] \in CallRow
      BY <3>2 DEF CallRow, SessionsTypeOK
    <3> QED
      BY <3>1, <3>2, <3>3, ConnectType, SetCallType DEF SessionsTypeOK
  <2>3. CASE Defers(c)
    <3>1. [call[c] EXCEPT !.step =
             IF call[c].step = "session-id" THEN "caller-phone" ELSE "baseline"] \in CallRow
      BY DEF CallRow, SessionsTypeOK
    <3> QED
      BY <2>3, <3>1, SetCallType DEF Defers, SessionsTypeOK
  <2>4. CASE Refused(c)
    BY <2>4, IdleType, SetCallType DEF Refused, SessionsTypeOK
  <2> QED
    BY <1>6, <2>1, <2>2, <2>3, <2>4 DEF Correlation
<1>7. ASSUME PurgeRetired PROVE SessionsTypeOK'
  <2>1. [NoSession EXCEPT !.status = "purged"] \in SessionRow
    BY DEF NoSession, SessionRow, Status
  <2> QED
    BY <1>7, <2>1 DEF PurgeRetired, SessionsTypeOK
<1>8. CASE UNCHANGED sessionVars
  BY <1>8 DEF sessionVars, SessionsTypeOK
<1> QED
  BY <1>1, <1>2, <1>3, <1>4, <1>5, <1>6, <1>7, <1>8 DEF SessionsNext, SessionStep

(* In every reachable state each session, its events and each conversation *)
(* have one of the forms the module gives them.                            *)
THEOREM SessionsTypeCorrect == SessionsSpec => []SessionsTypeOK
<1> QED
  BY InitType, NextType, PTL DEF SessionsSpec

-----------------------------------------------------------------------------
(* The inductive invariant.  The outcome of a row says the same as its     *)
(* status, so that the events can follow either; a conversation that has a *)
(* session took one nobody can create or connect again; and the walk is    *)
(* past the session id only when the intent named none.                    *)

OutcomeIsStatus ==
  \A s \in Session :
    /\ session[s].status \in Terminal => session[s].outcome = session[s].status
    /\ session[s].status \in {"none", "awaiting-transfer", "connected", "expired"}
         => session[s].outcome = Nothing

Taken(c) ==
  call[c].got # Nothing =>
    /\ call[c].step = "connected"
    /\ call[c].named \in {Nothing, call[c].got}
    /\ session[call[c].got].status \notin {"none", "awaiting-transfer"}

Unnamed(c) == call[c].step \in {"caller-phone", "baseline"} => call[c].named = Nothing

OnePerSession ==
  \A c, d \in Call : call[c].got # Nothing /\ call[d].got = call[c].got => c = d

SessionsInv ==
  /\ SessionsTypeOK
  /\ OutcomeIsStatus
  /\ EventsTellTheStory
  /\ \A c \in Call : Taken(c) /\ Unnamed(c)
  /\ OnePerSession

LEMMA InitInv == SessionsInit => SessionsInv
<1> SUFFICES ASSUME SessionsInit PROVE SessionsInv
  OBVIOUS
<1> QED
  BY InitType, SessionsAssumption
  DEF SessionsInit, SessionsInv, OutcomeIsStatus, EventsTellTheStory, Story, Has, Taken,
      Unnamed, OnePerSession, NoSession, Idle, Terminal

(* The row and the events of one session change together; the others stay. *)
LEMMA OneSession ==
  ASSUME SessionsInv, SessionsTypeOK',
         NEW s \in Session,
         \A t \in Session \ {s} : session'[t] = session[t] /\ events'[t] = events[t],
         /\ session'[s].status \in Terminal => session'[s].outcome = session'[s].status
         /\ session'[s].status \in {"none", "awaiting-transfer", "connected", "expired"}
              => session'[s].outcome = Nothing,
         session'[s].status # "purged" => events'[s] = Story(s)'
  PROVE  OutcomeIsStatus' /\ EventsTellTheStory'
<1>1. OutcomeIsStatus'
  BY DEF SessionsInv, OutcomeIsStatus
<1>2. ASSUME NEW t \in Session, session'[t].status # "purged"
      PROVE  events'[t] = Story(t)'
  <2>1. CASE t = s
    BY <1>2, <2>1
  <2>2. CASE t # s
    <3>1. session'[t] = session[t] /\ events'[t] = events[t]
      BY <2>2
    <3>2. events[t] = Story(t)
      BY <1>2, <3>1 DEF SessionsInv, EventsTellTheStory, Has
    <3> QED
      BY <3>1, <3>2 DEF Story, Has
  <2> QED
    BY <2>1, <2>2
<1> QED
  BY <1>1, <1>2 DEF EventsTellTheStory, Has

(* A step that touches no call keeps what the calls say, if it makes no    *)
(* session prepared again.                                                 *)
LEMMA CallsKept ==
  ASSUME SessionsInv, SessionsTypeOK', call' = call,
         \A s \in Session : session[s].status \notin {"none", "awaiting-transfer"}
           => session'[s].status \notin {"none", "awaiting-transfer"}
  PROVE  (\A c \in Call : Taken(c) /\ Unnamed(c))' /\ OnePerSession'
<1>1. ASSUME NEW c \in Call PROVE Taken(c)' /\ Unnamed(c)'
  BY DEF SessionsInv, SessionsTypeOK, CallRow, Taken, Unnamed
<1> QED
  BY <1>1 DEF SessionsInv, OnePerSession

(* What a connection does to the session it connects.                      *)
LEMMA ConnectKeeps ==
  ASSUME SessionsInv, SessionsTypeOK', NEW s \in Session, Has(s, "awaiting-transfer"), Connect(s)
  PROVE  OutcomeIsStatus' /\ EventsTellTheStory'
<1>1. session'[s].status = "connected" /\ session'[s].outcome = Nothing
  BY DEF Connect, SetStatus, SessionsInv, SessionsTypeOK, SessionRow, OutcomeIsStatus, Has
<1>2. events[s] = <<>>
  BY SessionsAssumption DEF SessionsInv, EventsTellTheStory, Story, Has, OutcomeIsStatus
<1>3. events'[s] = <<"connected">>
  BY <1>2 DEF Connect, Append1, SessionsInv, SessionsTypeOK
<1>4. \A t \in Session \ {s} : session'[t] = session[t] /\ events'[t] = events[t]
  BY DEF Connect, SetStatus, Append1, SessionsInv, SessionsTypeOK
<1>5. Story(s)' = <<"connected">>
  BY <1>1 DEF Story, Has
<1> QED
  BY <1>1, <1>3, <1>4, <1>5, OneSession DEF Terminal

(* What a change of status alone does, when nothing was published yet or   *)
(* the outcome stays with the row.                                         *)
LEMMA RetireKeeps ==
  ASSUME SessionsInv, SessionsTypeOK', NEW s \in Session,
         session[s].status \in {"awaiting-transfer"} \cup Terminal,
         NEW st \in {"cancelled", "expired"},
         st = "expired" => Has(s, "awaiting-transfer"),
         SetStatus(s, st), events' = events
  PROVE  OutcomeIsStatus' /\ EventsTellTheStory'
<1>1. session'[s].status = st /\ session'[s].outcome = session[s].outcome
  BY DEF SetStatus, SessionsInv, SessionsTypeOK, SessionRow
<1>2. \A t \in Session \ {s} : session'[t] = session[t] /\ events'[t] = events[t]
  BY DEF SetStatus, SessionsInv, SessionsTypeOK
<1>3. ~Has(s, "connected") /\ ~Has(s, "purged")
  BY DEF Has, Terminal
<1>4. events[s] = Story(s)
  BY <1>3 DEF SessionsInv, EventsTellTheStory
<1>5. Story(s)' = Story(s)
  BY <1>1, <1>3 DEF Story, Has
<1>6. st = "expired" => session[s].outcome = Nothing
  BY DEF SessionsInv, OutcomeIsStatus, Has
<1> QED
  BY <1>1, <1>2, <1>4, <1>5, <1>6, OneSession DEF Terminal

LEMMA NextInv == SessionsInv /\ [SessionsNext]_sessionVars => SessionsInv'
<1> SUFFICES ASSUME SessionsInv, [SessionsNext]_sessionVars PROVE SessionsInv'
  OBVIOUS
<1>0. SessionsTypeOK /\ SessionsTypeOK'
  BY NextType DEF SessionsInv
<1>1. ASSUME NEW s \in Session, NEW phone \in Phone \cup {Nothing}, Create(s, phone)
      PROVE  SessionsInv'
  <2>1. /\ session'[s].status = "awaiting-transfer" /\ session'[s].outcome = Nothing
        /\ \A t \in Session \ {s} : session'[t] = session[t] /\ events'[t] = events[t]
    BY <1>0, <1>1 DEF Create, Prepared, SessionsTypeOK
  <2>2. events[s] = <<>> /\ session[s].status = "none"
    BY <1>1, SessionsAssumption
    DEF Create, Prepared, SessionsInv, EventsTellTheStory, Story, Has, OutcomeIsStatus
  <2>3. events'[s] = Story(s)'
    BY <1>1, <2>1, <2>2 DEF Create, Prepared, Story, Has
  <2>4. OutcomeIsStatus' /\ EventsTellTheStory'
    BY <1>0, <2>1, <2>3, OneSession DEF Terminal
  <2>5. (\A c \in Call : Taken(c) /\ Unnamed(c))' /\ OnePerSession'
    BY <1>0, <1>1, <2>1, <2>2, CallsKept DEF Create
  <2> QED
    BY <1>0, <2>4, <2>5 DEF SessionsInv
<1>2. ASSUME NEW s \in Session, Redeem(s) PROVE SessionsInv'
  <2>1. Has(s, "awaiting-transfer") /\ Connect(s) /\ call' = call
    BY <1>2 DEF Redeem, Eligible
  <2>2. OutcomeIsStatus' /\ EventsTellTheStory'
    BY <1>0, <2>1, ConnectKeeps
  <2>3. \A t \in Session : session[t].status \notin {"none", "awaiting-transfer"}
          => session'[t].status \notin {"none", "awaiting-transfer"}
    BY <1>0, <2>1 DEF Connect, SetStatus, SessionsTypeOK, SessionRow
  <2> QED
    BY <1>0, <2>1, <2>2, <2>3, CallsKept DEF SessionsInv
<1>3. ASSUME NEW s \in Session, NEW st \in {"cancelled", "expired"},
             session[s].status \in {"awaiting-transfer"} \cup Terminal,
             st = "expired" => Has(s, "awaiting-transfer"),
             SetStatus(s, st), UNCHANGED <<events, call>>
      PROVE  SessionsInv'
  <2>1. OutcomeIsStatus' /\ EventsTellTheStory'
    BY <1>0, <1>3, RetireKeeps
  <2>2. \A t \in Session : session[t].status \notin {"none", "awaiting-transfer"}
          => session'[t].status \notin {"none", "awaiting-transfer"}
    BY <1>0, <1>3 DEF SetStatus, SessionsTypeOK, SessionRow
  <2> QED
    BY <1>0, <1>3, <2>1, <2>2, CallsKept DEF SessionsInv
<1>4. ASSUME NEW s \in Session, Cancel(s) PROVE SessionsInv'
  BY <1>3, <1>4 DEF Cancel, Cancellable
<1>5. ASSUME NEW s \in Session, Expire(s) PROVE SessionsInv'
  BY <1>3, <1>5 DEF Expire, Eligible, Has
<1>6. ASSUME NEW s \in Session, NEW o \in Outcome,
           NEW appointment \in BOOLEAN, Report(s, o, appointment) PROVE SessionsInv'
  <2>1. /\ Has(s, "connected") /\ session'[s].status = o /\ session'[s].outcome = o
        /\ \A t \in Session \ {s} : session'[t] = session[t] /\ events'[t] = events[t]
        /\ call' = call
    BY <1>0, <1>6 DEF Report, RecordOutcome, Append1, SessionsTypeOK
  <2>2. events[s] = <<"connected">>
    BY <2>1, SessionsAssumption
    DEF SessionsInv, EventsTellTheStory, Story, Has, OutcomeIsStatus
  <2>3. events'[s] = <<"connected", o>>
    <3>1. events'[s] = Append(events[s], o)
      BY <1>0, <1>6 DEF Report, RecordOutcome, Append1, SessionsTypeOK
    <3>2. "connected" \in {"connected"} \cup Outcome /\ o \in {"connected"} \cup Outcome
      OBVIOUS
    <3>3. Append(<<"connected">>, o) = <<"connected", o>>
      BY <3>2, AppendPair, Zenon
    <3> QED
      BY <2>2, <3>1, <3>3
  <2>4. o # Nothing /\ o \in Terminal
    BY SessionsAssumption DEF Terminal
  <2>5. events'[s] = Story(s)'
    <3>1. session'[s].outcome # Nothing /\ session'[s].status # "connected"
      BY <2>1, <2>4 DEF Terminal
    <3>2. Story(s)' = <<"connected", o>>
      BY <2>1, <3>1 DEF Story, Has
    <3> QED
      BY <2>3, <3>2
  <2>6. OutcomeIsStatus' /\ EventsTellTheStory'
    BY <1>0, <2>1, <2>4, <2>5, OneSession DEF Terminal
  <2>7. \A t \in Session : session[t].status \notin {"none", "awaiting-transfer"}
          => session'[t].status \notin {"none", "awaiting-transfer"}
    BY <2>1, <2>4 DEF Terminal
  <2> QED
    BY <1>0, <2>1, <2>6, <2>7, CallsKept DEF SessionsInv
<1>7. ASSUME NEW c \in Call, Correlation(c) PROVE SessionsInv'
  <2>1. ASSUME NEW r \in CallRow, SetCall(c, r), r.got = Nothing,
               r.step \in {"caller-phone", "baseline"} => r.named = Nothing,
               UNCHANGED <<session, events>>
        PROVE  SessionsInv'
    <3>1. OutcomeIsStatus' /\ EventsTellTheStory'
      BY <2>1 DEF SessionsInv, OutcomeIsStatus, EventsTellTheStory, Story, Has
    <3>2. ASSUME NEW d \in Call PROVE call'[d] = IF d = c THEN r ELSE call[d]
      BY <1>0, <2>1 DEF SetCall, SessionsTypeOK
    <3>3. ASSUME NEW d \in Call PROVE Taken(d)' /\ Unnamed(d)'
      BY <2>1, <3>2 DEF SessionsInv, Taken, Unnamed
    <3>4. OnePerSession'
      BY <2>1, <3>2 DEF SessionsInv, OnePerSession
    <3> QED
      BY <1>0, <3>1, <3>3, <3>4 DEF SessionsInv
  <2>2. CASE Arrive(c)
    <3>1. PICK named \in Session \cup {Nothing}, number \in Phone \cup {Nothing} :
            SetCall(c, [step |-> "session-id", named |-> named, number |-> number,
                        got |-> Nothing])
      BY <2>2 DEF Arrive
    <3>2. [step |-> "session-id", named |-> named, number |-> number, got |-> Nothing]
            \in CallRow
      BY DEF CallRow
    <3> QED
      BY <2>1, <2>2, <3>1, <3>2 DEF Arrive
  <2>3. CASE Matches(c)
    <3>1. PICK s \in Candidates(c) :
            /\ Connect(s)
            /\ SetCall(c, [call[c] EXCEPT !.step = "connected", !.got = s])
      BY <2>3 DEF Matches
    <3>2. s \in Session /\ Has(s, "awaiting-transfer") /\ s \in Scope(c)
      BY DEF Candidates, Eligible
    <3>3. call[c].named \in {Nothing, s}
      BY <2>3, <3>2 DEF Matches, Walking, Absent, Scope, SessionsInv, Unnamed
    <3>4. OutcomeIsStatus' /\ EventsTellTheStory'
      BY <1>0, <3>1, <3>2, ConnectKeeps
    <3>5. session'[s].status = "connected"
          /\ \A t \in Session \ {s} : session'[t] = session[t]
      BY <1>0, <3>1, <3>2 DEF Connect, SetStatus, SessionsTypeOK, SessionRow
    <3>6. /\ call'[c].step = "connected" /\ call'[c].got = s
          /\ call'[c].named = call[c].named
          /\ \A d \in Call \ {c} : call'[d] = call[d]
      BY <1>0, <3>1 DEF SetCall, SessionsTypeOK, CallRow
    <3>7. \A d \in Call : call[d].got # s
      BY <3>2, SessionsAssumption DEF SessionsInv, Taken, Has
    <3>8. ASSUME NEW d \in Call PROVE Taken(d)' /\ Unnamed(d)'
      <4>1. CASE d = c
        BY <3>3, <3>5, <3>6, <4>1 DEF Taken, Unnamed
      <4>2. CASE d # c
        <5>1. call'[d] = call[d]
          BY <3>6, <4>2
        <5>2. call[d].got # Nothing => session'[call[d].got] = session[call[d].got]
          BY <1>0, <3>5, <3>7 DEF SessionsTypeOK, CallRow
        <5> QED
          BY <5>1, <5>2 DEF SessionsInv, Taken, Unnamed
      <4> QED
        BY <4>1, <4>2
    <3>9. OnePerSession'
      BY <3>6, <3>7 DEF SessionsInv, OnePerSession
    <3> QED
      BY <1>0, <3>4, <3>8, <3>9 DEF SessionsInv
  <2>4. CASE Defers(c)
    <3> DEFINE r == [call[c] EXCEPT !.step =
                       IF call[c].step = "session-id" THEN "caller-phone" ELSE "baseline"]
    <3>1. r \in CallRow
      BY <1>0 DEF CallRow, SessionsTypeOK
    <3>2. call[c].got = Nothing
      BY <2>4 DEF Defers, Walking, SessionsInv, Taken
    <3>3. call[c].named = Nothing
      BY <2>4 DEF Defers, Walking, Absent, Decisive, SessionsInv, Unnamed
    <3>4. r.got = Nothing /\ r.named = Nothing
      BY <1>0, <3>2, <3>3 DEF CallRow, SessionsTypeOK
    <3>5. SetCall(c, r) /\ UNCHANGED <<session, events>>
      BY <2>4 DEF Defers
    <3> HIDE DEF r
    <3> QED
      BY <2>1, <3>1, <3>4, <3>5
  <2>5. CASE Refused(c)
    <3>1. Idle.got = Nothing /\ Idle.step = "idle"
      BY DEF Idle
    <3> QED
      BY <2>1, <2>5, <3>1, IdleType DEF Refused
  <2> QED
    BY <1>7, <2>2, <2>3, <2>4, <2>5 DEF Correlation
<1>8. ASSUME PurgeRetired PROVE SessionsInv'
  <2>1. PICK old \in SUBSET Retirable :
          session' = [s \in Session |->
            IF s \in old THEN [NoSession EXCEPT !.status = "purged"] ELSE session[s]]
    BY <1>8 DEF PurgeRetired
  <2>2. [NoSession EXCEPT !.status = "purged"].status = "purged"
    BY DEF NoSession
  <2>3. OutcomeIsStatus'
    BY <2>1, <2>2 DEF SessionsInv, OutcomeIsStatus, Terminal
  <2>4. ASSUME NEW s \in Session, session'[s].status # "purged"
        PROVE  events'[s] = Story(s)'
    <3>1. session'[s] = session[s] /\ events'[s] = events[s]
      BY <1>8, <2>1, <2>2, <2>4 DEF PurgeRetired
    <3>2. events[s] = Story(s)
      BY <2>4, <3>1 DEF SessionsInv, EventsTellTheStory, Has
    <3> QED
      BY <3>1, <3>2 DEF Story, Has
  <2>5. \A s \in Session : session[s].status \notin {"none", "awaiting-transfer"}
          => session'[s].status \notin {"none", "awaiting-transfer"}
    BY <2>1, <2>2
  <2>6. (\A c \in Call : Taken(c) /\ Unnamed(c))' /\ OnePerSession'
    BY <1>0, <1>8, <2>5, CallsKept DEF PurgeRetired
  <2> QED
    BY <1>0, <2>3, <2>4, <2>6 DEF SessionsInv, EventsTellTheStory, Has
<1>9. CASE UNCHANGED sessionVars
  BY <1>9 DEF sessionVars, SessionsInv, SessionsTypeOK, OutcomeIsStatus, EventsTellTheStory,
     Story, Has, Taken, Unnamed, OnePerSession
<1> QED
  BY <1>1, <1>2, <1>4, <1>5, <1>6, <1>7, <1>8, <1>9 DEF SessionsNext, SessionStep

LEMMA Invariant == SessionsSpec => []SessionsInv
<1> QED
  BY InitInv, NextInv, PTL DEF SessionsSpec

-----------------------------------------------------------------------------
(* What the invariant says of every run *)

(* Whatever path a session took, its events tell it: "connected" once, then *)
(* its outcome once, and none for a session nobody connected.               *)
THEOREM EventsAlwaysTellTheStory == SessionsSpec => []EventsTellTheStory
<1>1. SessionsInv => EventsTellTheStory
  BY DEF SessionsInv
<1> QED
  BY <1>1, Invariant, PTL

(* However many conversations are correlated at once, none is given a      *)
(* session other than the one it names, and no two are given the same.     *)
THEOREM EveryCallItsSession == SessionsSpec => []RightSession
<1>1. SessionsInv => RightSession
  <2> SUFFICES ASSUME SessionsInv, NEW c \in Call, NEW d \in Call, call[c].got # Nothing
               PROVE  /\ call[c].named \in {Nothing, call[c].got}
                      /\ call[d].got = call[c].got => c = d
    BY DEF RightSession
  <2> QED
    BY DEF SessionsInv, Taken, OnePerSession
<1> QED
  BY <1>1, Invariant, PTL

(* The first outcome recorded is never replaced, and a session under way   *)
(* leaves "connected" for its outcome and for nothing else.                *)
THEOREM OutcomesAreFinal == SessionsSpec => FirstOutcomeWins
<1> DEFINE Wins(s) ==
      /\ session[s].outcome # Nothing =>
           session'[s].outcome = session[s].outcome \/ session'[s].status = "purged"
      /\ Has(s, "connected") /\ session'[s].status # "connected" =>
           session'[s].outcome # Nothing
<1>1. ASSUME SessionsInv, [SessionsNext]_sessionVars PROVE \A s \in Session : Wins(s)
  <2>0. SessionsTypeOK
    BY <1>1 DEF SessionsInv
  <2>1. ASSUME NEW t \in Session, NEW phone \in Phone \cup {Nothing}, Create(t, phone)
        PROVE  \A s \in Session : Wins(s)
    BY <1>1, <2>0, <2>1 DEF Create, Prepared, Has, SessionsInv, OutcomeIsStatus, SessionsTypeOK
  <2>2. ASSUME NEW t \in Session, NEW st \in Status, ~Has(t, "connected"), SetStatus(t, st)
        PROVE  \A s \in Session : Wins(s)
    BY <2>0, <2>2 DEF SetStatus, Has, SessionsTypeOK, SessionRow
  <2>3. ASSUME NEW t \in Session, Redeem(t) PROVE \A s \in Session : Wins(s)
    BY <2>2, <2>3 DEF Redeem, Eligible, Connect, Has, Status
  <2>4. ASSUME NEW t \in Session, Cancel(t) PROVE \A s \in Session : Wins(s)
    BY <2>2, <2>4 DEF Cancel, Cancellable, Has, Status, Terminal
  <2>5. ASSUME NEW t \in Session, Expire(t) PROVE \A s \in Session : Wins(s)
    BY <2>2, <2>5 DEF Expire, Eligible, Has, Status
  <2>6. ASSUME NEW t \in Session, NEW o \in Outcome,
           NEW appointment \in BOOLEAN, Report(t, o, appointment)
        PROVE  \A s \in Session : Wins(s)
    <3>1. session[t].outcome = Nothing
      BY <1>1, <2>6 DEF Report, RecordOutcome, Has, SessionsInv, OutcomeIsStatus
    <3>2. session'[t].outcome = o /\ o # Nothing
          /\ \A s \in Session \ {t} : session'[s] = session[s]
      BY <2>0, <2>6, SessionsAssumption DEF Report, RecordOutcome, SessionsTypeOK
    <3> QED
      BY <3>1, <3>2 DEF Has
  <2>7. ASSUME NEW c \in Call, Correlation(c) PROVE \A s \in Session : Wins(s)
    <3>1. CASE Matches(c)
      <4>1. PICK t \in Candidates(c) : Connect(t)
        BY <3>1 DEF Matches
      <4>2. t \in Session /\ ~Has(t, "connected")
        BY DEF Candidates, Eligible, Has
      <4> QED
        BY <2>2, <4>1, <4>2 DEF Connect, Status
    <3>2. CASE session' = session
      BY <3>2 DEF Has
    <3> QED
      BY <2>7, <3>1, <3>2 DEF Correlation, Arrive, Defers, Refused
  <2>8. ASSUME PurgeRetired PROVE \A s \in Session : Wins(s)
    <3>1. PICK old \in SUBSET Retirable :
            session' = [s \in Session |->
              IF s \in old THEN [NoSession EXCEPT !.status = "purged"] ELSE session[s]]
      BY <2>8 DEF PurgeRetired
    <3>2. [NoSession EXCEPT !.status = "purged"].status = "purged"
      BY DEF NoSession
    <3>3. \A s \in old : ~Has(s, "connected")
      BY DEF Retirable, Has, Terminal
    <3> QED
      BY <3>1, <3>2, <3>3 DEF Has
  <2>9. CASE UNCHANGED sessionVars
    BY <2>9 DEF sessionVars, Has
  <2> QED
    BY <1>1, <2>1, <2>3, <2>4, <2>5, <2>6, <2>7, <2>8, <2>9 DEF SessionsNext, SessionStep
<1>2. SessionsInv /\ [SessionsNext]_sessionVars => [\A s \in Session : Wins(s)]_sessionVars
  BY <1>1
<1> QED
  BY <1>2, Invariant, PTL DEF SessionsSpec, FirstOutcomeWins

(* A conversation that names no session takes one while others wait only   *)
(* when its number picked that one among them, at the step that takes it.  *)
THEOREM NoGuess == SessionsSpec => NeverAStrangers
<1> DEFINE Picked(c) ==
      call'[c].got # call[c].got /\ call[c].named = Nothing =>
        \A s \in Eligible \ {call'[c].got} :
          /\ session[s].phone # call[c].number \/ call[c].number = Nothing
          /\ session[call'[c].got].phone = call[c].number /\ call[c].number # Nothing
<1>1. ASSUME SessionsInv, [SessionsNext]_sessionVars PROVE \A c \in Call : Picked(c)
  <2>0. SessionsTypeOK
    BY <1>1 DEF SessionsInv
  <2>1. CASE call' = call
    BY <2>1
  <2>2. ASSUME NEW d \in Call, Correlation(d) PROVE \A c \in Call : Picked(c)
    <3>1. CASE Matches(d)
      <4>1. PICK s \in Candidates(d) :
              /\ Candidates(d) = {s}
              /\ SetCall(d, [call[d] EXCEPT !.step = "connected", !.got = s])
        BY <3>1 DEF Matches
      <4>2. call'[d].got = s /\ \A c \in Call \ {d} : call'[c] = call[c]
        BY <2>0, <4>1 DEF SetCall, SessionsTypeOK, CallRow
      <4>3. ASSUME call[d].named = Nothing, NEW t \in Eligible \ {s}
            PROVE  /\ session[t].phone # call[d].number \/ call[d].number = Nothing
                   /\ session[s].phone = call[d].number /\ call[d].number # Nothing
        <5>1. t \notin Scope(d)
          BY <4>1, <4>3 DEF Candidates
        <5>2. t \in Session
          BY DEF Eligible
        <5>3. call[d].step = "caller-phone"
          BY <3>1, <4>3, <5>1, <5>2 DEF Scope, Matches, Absent, Walking
        <5>4. Scope(d) = {x \in Session : session[x].phone = call[d].number}
          BY <5>3 DEF Scope
        <5>5. call[d].number # Nothing
          BY <3>1, <5>3 DEF Matches, Absent
        <5> QED
          BY <4>1, <5>1, <5>2, <5>4, <5>5 DEF Candidates
      <4> QED
        BY <4>2, <4>3
    <3>2. CASE Arrive(d) \/ Defers(d) \/ Refused(d)
      <4>1. call[d].got = Nothing
        BY <1>1, <3>2 DEF Arrive, Defers, Refused, Walking, SessionsInv, Taken
      <4>2. PICK r \in CallRow : SetCall(d, r) /\ r.got = Nothing
        <5>1. CASE Arrive(d)
          BY <5>1 DEF Arrive, CallRow
        <5>2. CASE Defers(d)
          <6> DEFINE r == [call[d] EXCEPT !.step =
                IF call[d].step = "session-id" THEN "caller-phone" ELSE "baseline"]
          <6>1. r \in CallRow /\ r.got = Nothing
            BY <2>0, <4>1 DEF CallRow, SessionsTypeOK
          <6>2. SetCall(d, r)
            BY <5>2 DEF Defers
          <6> QED
            BY <6>1, <6>2
        <5>3. CASE Refused(d)
          <6>1. Idle.got = Nothing
            BY DEF Idle
          <6> QED
            BY <5>3, <6>1, IdleType DEF Refused
        <5> QED
          BY <3>2, <5>1, <5>2, <5>3
      <4>3. \A c \in Call : call'[c].got = call[c].got
        BY <2>0, <4>1, <4>2 DEF SetCall, SessionsTypeOK
      <4> QED
        BY <4>3
    <3> QED
      BY <2>2, <3>1, <3>2 DEF Correlation
  <2> QED
    BY <1>1, <2>1, <2>2
    DEF SessionsNext, SessionStep, sessionVars, Create, Redeem, Cancel, Expire, Report,
        PurgeRetired
<1>2. SessionsInv /\ [SessionsNext]_sessionVars => [\A c \in Call : Picked(c)]_sessionVars
  BY <1>1
<1> QED
  BY <1>2, Invariant, PTL DEF SessionsSpec, NeverAStrangers

-----------------------------------------------------------------------------
(* The sessions under the notifications move as module Sessions says.      *)
LEMMA WithinSessions == [Next]_vars => [SessionsNext]_sessionVars
<1> SUFFICES ASSUME [Next]_vars PROVE [SessionsNext]_sessionVars
  OBVIOUS
<1>1. ASSUME NEW w \in Worker, NEW s \in Session, NEW o \in Outcome, ReportOutcome(w, s, o)
      PROVE  [SessionsNext]_sessionVars
  <2>1. CASE RecordOutcome(s, o)
    <3>1. Report(s, o, o = "booked")
      BY <1>1, <2>1 DEF ReportOutcome, Report, WellFormed
    <3> QED
      BY <3>1 DEF SessionsNext
  <2>2. CASE DuplicateOutcome(s, o)
    BY <1>1, <2>2 DEF ReportOutcome, DuplicateOutcome, sessionVars
  <2> QED
    BY <1>1, <2>1, <2>2 DEF ReportOutcome
<1>2. ASSUME SessionsMove PROVE SessionsNext
  BY <1>2 DEF SessionsMove, Purge, SessionsNext
<1>3. ASSUME NEW w \in Worker, Attempt(w) PROVE UNCHANGED sessionVars
  BY <1>3 DEF Attempt, ClaimSummary, ClaimNotice, GenerationFails, Send, Record, Mirror, Settle
<1>4. ASSUME Time PROVE UNCHANGED sessionVars
  BY <1>4 DEF Time, ClaimRipens, NoticeRipens, HoldRipens
<1>5. ASSUME NEW w \in Worker, (\E k \in Key : Take(w, k)) \/ ReplyLost(w) \/ StepThrows(w) \/ WorkerDies(w)
      PROVE  UNCHANGED sessionVars
  BY <1>5 DEF Take, ReplyLost, StepThrows, WorkerDies
<1> QED
  BY <1>1, <1>2, <1>3, <1>4, <1>5 DEF Next, vars

-----------------------------------------------------------------------------
LEMMA KeyFacts ==
  /\ \A k \in Key : k[1] \in {Summary, Confirmation} /\ k[2] \in Session
  /\ \A k \in Key : k[1] = Summary => k = <<Summary, k[2]>>
  /\ \A s \in Session : /\ <<Summary, s>> \in Key
                        /\ <<Summary, s>>[1] = Summary /\ <<Summary, s>>[2] = s
BY DEF Key

LEMMA OneWorker ==
  ASSUME work \in [Worker -> Work], NEW w \in Worker, NEW r \in Work, Become(w, r)
  PROVE  /\ work' \in [Worker -> Work]
         /\ work'[w] = r
         /\ \A v \in Worker \ {w} : work'[v] = work[v]
BY DEF Become

(* A worker at work has a delivery, which is a summary's where the code is, *)
(* and an answer once there was one.                                       *)
WorkFits(r) ==
  /\ r.pc # "idle" => r.key \in Key
  /\ r.pc \in {"claim", "mirror"} => r.key[1] = Summary
  /\ r.pc \in {"record", "mirror"} => r.result \in Result

WorkOK == \A w \in Worker : WorkFits(work[w])

(* What a worker becomes. *)
Becomes(w, r) == r \in Work /\ WorkFits(r) /\ Become(w, r)

LEMMA Rests == AtRest \in Work /\ WorkFits(AtRest)
BY DEF AtRest, Work, WorkFits, Result

LEMMA GoFits ==
  ASSUME work \in [Worker -> Work], WorkOK, NEW w \in Worker, ~At(w, "idle"),
         NEW pc \in {"notify", "send", "record", "mirror", "settle"}, Go(w, pc),
         pc = "mirror" => ForSummary(w),
         pc \in {"record", "mirror"} => work[w].result \in Result
  PROVE  \E r \in Work : /\ Becomes(w, r)
                         /\ r.pc = pc /\ r.key = work[w].key /\ r.result = work[w].result
                         /\ r.inline = work[w].inline
<1> DEFINE r == [work[w] EXCEPT !.pc = pc]
<1>1. /\ r \in Work /\ r.pc = pc /\ r.key = work[w].key /\ r.result = work[w].result
      /\ r.inline = work[w].inline
  BY DEF Work
<1>2. Become(w, r)
  BY DEF Go
<1> HIDE DEF r
<1>3. WorkFits(r)
  BY <1>1 DEF WorkOK, WorkFits, At, ForSummary
<1> QED
  BY <1>1, <1>2, <1>3 DEF Becomes

LEMMA GoWithFits ==
  ASSUME work \in [Worker -> Work], WorkOK, NEW w \in Worker, ~At(w, "idle"),
         NEW pc \in {"record", "mirror"}, NEW result \in Result, GoWith(w, pc, result),
         pc = "mirror" => ForSummary(w)
  PROVE  \E r \in Work : /\ Becomes(w, r)
                         /\ r.pc = pc /\ r.key = work[w].key /\ r.result = result
<1> DEFINE r == [work[w] EXCEPT !.pc = pc, !.result = result]
<1>1. r \in Work /\ r.pc = pc /\ r.key = work[w].key /\ r.result = result
  BY DEF Work
<1>2. Become(w, r)
  BY DEF GoWith
<1> HIDE DEF r
<1>3. WorkFits(r)
  BY <1>1 DEF WorkOK, WorkFits, At, ForSummary
<1> QED
  BY <1>1, <1>2, <1>3 DEF Becomes

LEMMA ThrowRests ==
  ASSUME NEW w \in Worker, Throw(w)
  PROVE  Become(w, AtRest)
BY DEF Throw, Deliver

LEMMA WorkStep ==
  ASSUME work \in [Worker -> Work], WorkOK, [Next]_vars
  PROVE  work' \in [Worker -> Work] /\ WorkOK'
<1> DEFINE Goal == work' \in [Worker -> Work] /\ WorkOK'
<1>1. ASSUME UNCHANGED work PROVE Goal
  BY <1>1 DEF WorkOK
<1>2. ASSUME NEW w \in Worker, NEW r, Becomes(w, r) PROVE Goal
  BY <1>2, OneWorker DEF Becomes, WorkOK
<1>3. ASSUME NEW w \in Worker, Become(w, AtRest) PROVE Goal
  BY <1>2, <1>3, Rests DEF Becomes
<1>4. ASSUME NEW w \in Worker, NEW s \in Session, NEW o \in Outcome, ReportOutcome(w, s, o)
      PROVE  Goal
  <2> DEFINE r == [pc |-> "claim", key |-> <<Summary, s>>, inline |-> TRUE, result |-> Nothing]
  <2>1. r \in Work /\ WorkFits(r)
    BY KeyFacts DEF Work, WorkFits
  <2>2. Become(w, r)
    BY <1>4 DEF ReportOutcome
  <2> QED
    BY <1>2, <2>1, <2>2 DEF Becomes
<1>5. ASSUME NEW w \in Worker, NEW k \in Key, Take(w, k) PROVE Goal
  <2> DEFINE pc == IF Unneeded(k) THEN "settle" ELSE IF k[1] = Summary THEN "claim" ELSE "notify"
             r == [pc |-> pc, key |-> k, inline |-> FALSE, result |-> Nothing]
  <2>1. r \in Work /\ WorkFits(r)
    BY DEF Work, WorkFits
  <2>2. Become(w, r)
    BY <1>5 DEF Take
  <2> QED
    BY <1>2, <2>1, <2>2 DEF Becomes
<1>6. ASSUME NEW w \in Worker, ClaimSummary(w) PROVE Goal
  <2>1. Become(w, AtRest) \/ Go(w, "notify") \/ Go(w, "settle")
    BY <1>6, ThrowRests DEF ClaimSummary
  <2>2. ~At(w, "idle")
    BY <1>6 DEF ClaimSummary, At
  <2> QED
    BY <1>2, <1>3, <2>1, <2>2, GoFits
<1>7. ASSUME NEW w \in Worker, ClaimNotice(w) PROVE Goal
  <2>1. \/ Go(w, "send") \/ Go(w, "settle")
        \/ ForSummary(w) /\ \E result \in Result : GoWith(w, "mirror", result)
    BY <1>7 DEF ClaimNotice, Result
  <2>2. ~At(w, "idle")
    BY <1>7 DEF ClaimNotice, At
  <2> QED
    BY <1>2, <2>1, <2>2, GoFits, GoWithFits
<1>8. ASSUME NEW w \in Worker, GenerationFails(w) PROVE Goal
  BY <1>2, <1>8, GoWithFits DEF GenerationFails, At, Result
<1>9. ASSUME NEW w \in Worker, Send(w) \/ ReplyLost(w) PROVE Goal
  BY <1>2, <1>9, GoWithFits DEF Send, ReplyLost, At, Result
<1>10. ASSUME NEW w \in Worker, Record(w) PROVE Goal
  <2>1. ~At(w, "idle") /\ work[w].result \in Result
    BY <1>10 DEF Record, At, WorkOK, WorkFits
  <2>2. (ForSummary(w) /\ Go(w, "mirror")) \/ Go(w, "settle")
    BY <1>10 DEF Record
  <2> QED
    BY <1>2, <2>1, <2>2, GoFits
<1>11. ASSUME NEW w \in Worker, Mirror(w) PROVE Goal
  <2>1. ~At(w, "idle") /\ (Become(w, AtRest) \/ Go(w, "settle"))
    BY <1>11 DEF Mirror, At
  <2> QED
    BY <1>2, <1>3, <2>1, GoFits
<1>12. ASSUME NEW w \in Worker, Settle(w) \/ StepThrows(w) \/ WorkerDies(w) PROVE Goal
  BY <1>3, <1>12, ThrowRests DEF Settle, Deliver, StepThrows, WorkerDies
<1>13. ASSUME SessionsMove \/ Time PROVE Goal
  BY <1>1, <1>13 DEF SessionsMove, Time, ClaimRipens, NoticeRipens, HoldRipens, notificationVars
<1> HIDE DEF Goal
<1>14. Goal
  BY <1>1, <1>4, <1>5, <1>6, <1>7, <1>8, <1>9, <1>10, <1>11, <1>12, <1>13
  DEF Next, Attempt, notificationVars, vars
<1> QED
  BY <1>14 DEF Goal

-----------------------------------------------------------------------------
(* Only what is pending goes stale. *)
ClaimOK(c) == c \in Claim /\ (c.stale => c.status = "pending")

RowsOK ==
  /\ claim \in [Session -> Claim] /\ \A s \in Session : ClaimOK(claim[s])
  /\ notice \in [Key -> Claim] /\ \A k \in Key : ClaimOK(notice[k])
  /\ mails \in [Key -> Nat]

LEMMA ClaimFacts ==
  /\ ClaimOK(NoClaim) /\ ClaimOK(Pending)
  /\ ClaimOK([status |-> "pending", stale |-> TRUE])
  /\ \A result \in Result : ClaimOK(Recorded(result))
BY DEF ClaimOK, Claim, NoClaim, Pending, Recorded, Result

LEMMA RowsStep ==
  ASSUME work \in [Worker -> Work], WorkOK, RowsOK, [Next]_vars
  PROVE  RowsOK'
<1>1. ASSUME NEW s \in Session, NEW c, ClaimOK(c), claim' = [claim EXCEPT ![s] = c],
             UNCHANGED <<notice, mails>>
      PROVE  RowsOK'
  BY <1>1 DEF RowsOK, ClaimOK
<1>2. ASSUME NEW k \in Key, NEW c, ClaimOK(c), notice' = [notice EXCEPT ![k] = c],
             UNCHANGED <<claim, mails>>
      PROVE  RowsOK'
  BY <1>2 DEF RowsOK, ClaimOK
<1>3. ASSUME NEW k \in Key, NEW n \in Nat, mails' = [mails EXCEPT ![k] = n],
             UNCHANGED <<claim, notice>>
      PROVE  RowsOK'
  BY <1>3 DEF RowsOK, ClaimOK
<1>4. ASSUME UNCHANGED <<claim, notice, mails>> PROVE RowsOK'
  BY <1>4 DEF RowsOK, ClaimOK
<1>5. ASSUME NEW w \in Worker, ~At(w, "idle") PROVE KeyOf(w) \in Key /\ SessionOf(w) \in Session
  BY <1>5, KeyFacts DEF At, WorkOK, WorkFits, KeyOf, SessionOf
<1>6. ASSUME NEW w \in Worker, ClaimSummary(w) \/ Mirror(w) PROVE RowsOK'
  <2>1. SessionOf(w) \in Session
    BY <1>5, <1>6 DEF ClaimSummary, Mirror, At
  <2>2. CASE ClaimSummary(w)
    BY <1>1, <1>4, <2>1, <2>2, ClaimFacts DEF ClaimSummary
  <2>3. CASE Mirror(w)
    <3>1. work[w].result \in Result
      BY <2>3 DEF Mirror, At, WorkOK, WorkFits
    <3> QED
      BY <1>1, <2>1, <2>3, <3>1, ClaimFacts DEF Mirror
  <2> QED
    BY <1>6, <2>2, <2>3
<1>7. ASSUME NEW w \in Worker, ClaimNotice(w) \/ Record(w) PROVE RowsOK'
  <2>1. KeyOf(w) \in Key
    BY <1>5, <1>7 DEF ClaimNotice, Record, At
  <2>2. CASE ClaimNotice(w)
    BY <1>2, <1>4, <2>1, <2>2, ClaimFacts DEF ClaimNotice
  <2>3. CASE Record(w)
    <3>1. work[w].result \in Result
      BY <2>3 DEF Record, At, WorkOK, WorkFits
    <3> QED
      BY <1>2, <2>1, <2>3, <3>1, ClaimFacts DEF Record
  <2> QED
    BY <1>7, <2>2, <2>3
<1>8. ASSUME NEW w \in Worker, Send(w) \/ ReplyLost(w) PROVE RowsOK'
  <2>1. KeyOf(w) \in Key /\ mails[KeyOf(w)] \in Nat
    BY <1>5, <1>8 DEF Send, ReplyLost, At, RowsOK
  <2>2. \E n \in Nat : mails' = [mails EXCEPT ![KeyOf(w)] = n]
    <3>1. mails[KeyOf(w)] + 1 \in Nat /\ mails[KeyOf(w)] + 0 \in Nat
      BY <2>1
    <3> QED
      BY <1>8, <3>1 DEF Send, ReplyLost
  <2>3. UNCHANGED <<claim, notice>>
    BY <1>8 DEF Send, ReplyLost
  <2> QED
    BY <1>3, <2>1, <2>2, <2>3
<1>9. ASSUME Time PROVE RowsOK'
  BY <1>1, <1>2, <1>4, <1>9, ClaimFacts DEF Time, ClaimRipens, NoticeRipens, HoldRipens
<1>10. ASSUME NEW w \in Worker, GenerationFails(w) \/ Settle(w) \/ StepThrows(w) \/ WorkerDies(w)
       PROVE  RowsOK'
  BY <1>4, <1>10 DEF GenerationFails, Settle, StepThrows, WorkerDies
<1> QED
  BY <1>4, <1>6, <1>7, <1>8, <1>9, <1>10
  DEF Next, SessionsMove, ReportOutcome, Take, Attempt, notificationVars, vars

LEMMA OwedStep ==
  ASSUME work \in [Worker -> Work], WorkOK, owed \in [Key -> Owed], [Next]_vars
  PROVE  owed' \in [Key -> Owed]
<1>1. ASSUME UNCHANGED owed PROVE owed' \in [Key -> Owed]
  BY <1>1
<1>2. ASSUME NEW k \in Key, NEW r \in Owed, owed' = [owed EXCEPT ![k] = r]
      PROVE  owed' \in [Key -> Owed]
  BY <1>2
<1>3. \A k \in Key : owed[k].tries \in Nat /\ owed[k].tries + 1 \in Nat
  BY DEF Owed
<1>4. ASSUME NEW w \in Worker, KeyOf(w) \in Key, NEW state \in {"owed", "completed", "abandoned"},
             Deliver(w, state)
      PROVE  owed' \in [Key -> Owed]
  BY <1>2, <1>3, <1>4 DEF Deliver, Owed
<1>5. ASSUME NEW w \in Worker, KeyOf(w) \in Key, Throw(w) PROVE owed' \in [Key -> Owed]
  BY <1>1, <1>4, <1>5 DEF Throw
<1>6. ASSUME NEW w \in Worker, ~At(w, "idle") PROVE KeyOf(w) \in Key
  BY <1>6 DEF At, WorkOK, WorkFits, KeyOf
<1>7. ASSUME NEW w \in Worker, NEW s \in Session, NEW o \in Outcome, ReportOutcome(w, s, o)
      PROVE  owed' \in [Key -> Owed]
  <2>1. \A k \in Key : [owed[k] EXCEPT !.state = "owed"] \in Owed
    BY DEF Owed
  <2> QED
    BY <1>7, <2>1 DEF ReportOutcome
<1>8. ASSUME NEW w \in Worker, NEW k \in Key, Take(w, k) PROVE owed' \in [Key -> Owed]
  BY <1>2, <1>3, <1>8 DEF Take, Owed
<1>9. ASSUME NEW w \in Worker, ClaimSummary(w) \/ Settle(w) \/ StepThrows(w)
      PROVE  owed' \in [Key -> Owed]
  <2>1. KeyOf(w) \in Key
    BY <1>6, <1>9 DEF ClaimSummary, Settle, StepThrows, At
  <2> QED
    BY <1>1, <1>4, <1>5, <1>9, <2>1 DEF ClaimSummary, Settle, StepThrows
<1>10. ASSUME NEW k \in Key, HoldRipens(k) PROVE owed' \in [Key -> Owed]
  <2>1. [owed[k] EXCEPT !.stale = TRUE] \in Owed
    BY DEF Owed
  <2> QED
    BY <1>2, <1>10, <2>1 DEF HoldRipens
<1>11. ASSUME NEW w \in Worker,
              ClaimNotice(w) \/ GenerationFails(w) \/ Send(w) \/ Record(w) \/ Mirror(w)
                \/ ReplyLost(w) \/ WorkerDies(w)
       PROVE  UNCHANGED owed
  BY <1>11 DEF ClaimNotice, GenerationFails, Send, Record, Mirror, ReplyLost, WorkerDies
<1> QED
  BY <1>1, <1>7, <1>8, <1>9, <1>10, <1>11
  DEF Next, SessionsMove, Attempt, Time, ClaimRipens, NoticeRipens, notificationVars, vars

LEMMA MishapsStep ==
  ASSUME mishaps \in 0 .. MishapLimit, [Next]_vars
  PROVE  mishaps' \in 0 .. MishapLimit
<1>1. ASSUME UNCHANGED mishaps PROVE mishaps' \in 0 .. MishapLimit
  BY <1>1
<1>2. ASSUME Mishap PROVE mishaps' \in 0 .. MishapLimit
  BY <1>2, NotificationsAssumption DEF Mishap
<1> QED
  BY <1>1, <1>2
  DEF Next, SessionsMove, ReportOutcome, Take, Attempt, ClaimSummary, ClaimNotice,
      GenerationFails, Send, Record, Mirror, Settle, ReplyLost, StepThrows, WorkerDies, Time,
      ClaimRipens, NoticeRipens, HoldRipens, notificationVars, vars

DeliveriesInv ==
  /\ NotificationsTypeOK /\ SessionsInv
  /\ WorkOK /\ RowsOK

LEMMA DeliveriesInit == Init => DeliveriesInv
<1> SUFFICES ASSUME Init PROVE DeliveriesInv
  OBVIOUS
<1>1. SessionsInv /\ SessionsTypeOK
  BY InitInv, InitType DEF Init
<1>2. work \in [Worker -> Work] /\ WorkOK
  BY Rests DEF Init, WorkOK
<1>3. RowsOK
  BY ClaimFacts DEF Init, RowsOK, ClaimOK
<1>4. [state |-> "none", tries |-> 0, stale |-> FALSE] \in Owed
  BY DEF Owed
<1>5. owed \in [Key -> Owed] /\ mishaps \in 0 .. MishapLimit
  BY <1>4, NotificationsAssumption DEF Init
<1> QED
  BY <1>1, <1>2, <1>3, <1>5 DEF DeliveriesInv, NotificationsTypeOK, RowsOK

LEMMA DeliveriesStep == DeliveriesInv /\ [Next]_vars => DeliveriesInv'
<1> SUFFICES ASSUME DeliveriesInv, [Next]_vars PROVE DeliveriesInv'
  OBVIOUS
<1>1. SessionsInv' /\ SessionsTypeOK'
  BY WithinSessions, NextInv DEF DeliveriesInv, SessionsInv
<1>2. work' \in [Worker -> Work] /\ WorkOK'
  BY WorkStep DEF DeliveriesInv, NotificationsTypeOK
<1>3. RowsOK'
  BY RowsStep DEF DeliveriesInv, NotificationsTypeOK
<1>4. owed' \in [Key -> Owed] /\ mishaps' \in 0 .. MishapLimit
  BY OwedStep, MishapsStep DEF DeliveriesInv, NotificationsTypeOK
<1> QED
  BY <1>1, <1>2, <1>3, <1>4 DEF DeliveriesInv, NotificationsTypeOK, RowsOK

-----------------------------------------------------------------------------
(* Under Timely: what a worker has claimed is pending and fresh, and has   *)
(* no other claimant.                                                      *)
HasClaim(w, s) ==
  work[w].pc \in {"notify", "send", "record", "mirror"} /\ ForSummary(w) /\ SessionOf(w) = s

NoticesHeld == \A w \in Worker, k \in Key : HoldsNotice(w, k) => notice[k] = Pending

ClaimsHeld ==
  /\ \A w \in Worker, s \in Session : HasClaim(w, s) => claim[s] = Pending
  /\ \A v, w \in Worker, s \in Session : HasClaim(v, s) /\ HasClaim(w, s) => v = w

Exclusive == OneSender /\ NoticesHeld /\ ClaimsHeld

(* Who holds one after a move held it before, with the row as it was. *)
NoticeLess ==
  \A w \in Worker, k \in Key : HoldsNotice(w, k)' => HoldsNotice(w, k) /\ notice'[k] = notice[k]
ClaimLess ==
  \A w \in Worker, s \in Session : HasClaim(w, s)' => HasClaim(w, s) /\ claim'[s] = claim[s]

LEMMA NoticesStayHeld ==
  ASSUME OneSender, NoticesHeld, NoticeLess PROVE OneSender' /\ NoticesHeld'
BY DEF OneSender, NoticesHeld, NoticeLess

LEMMA ClaimsStayHeld ==
  ASSUME ClaimsHeld, ClaimLess PROVE ClaimsHeld'
BY DEF ClaimsHeld, ClaimLess

LEMMA OtherWorkers ==
  ASSUME work \in [Worker -> Work], NEW w \in Worker, NEW r, Become(w, r)
  PROVE  /\ work'[w] = r
         /\ \A v \in Worker \ {w} : work'[v] = work[v]
BY DEF Become

LEMMA NotPending == ~Grantable(Pending)
BY DEF Grantable, Pending

LEMMA NoticesStep ==
  ASSUME NotificationsTypeOK, WorkOK, OneSender, NoticesHeld, Timely, [Next]_vars
  PROVE  OneSender' /\ NoticesHeld'
<1> USE DEF NotificationsTypeOK
<1> DEFINE Goal == OneSender' /\ NoticesHeld'
<1>1. ASSUME NoticeLess PROVE Goal
  BY <1>1, NoticesStayHeld
<1>2. ASSUME UNCHANGED <<work, notice>> PROVE Goal
  BY <1>1, <1>2 DEF NoticeLess, HoldsNotice, KeyOf
<1>3. ASSUME NEW w \in Worker, NEW r, Become(w, r), UNCHANGED notice,
             r.pc \notin {"send", "record"}
      PROVE  Goal
  BY <1>1, <1>3, OtherWorkers DEF NoticeLess, HoldsNotice, KeyOf
<1>4. ASSUME NEW w \in Worker, Become(w, AtRest), UNCHANGED notice PROVE Goal
  BY <1>3, <1>4 DEF AtRest
<1>5. ASSUME NEW w \in Worker, ~At(w, "idle"), UNCHANGED notice,
             \/ \E pc \in {"notify", "settle"} : Go(w, pc)
             \/ \E result \in Result : GoWith(w, "mirror", result) /\ ForSummary(w)
      PROVE  Goal
  BY <1>3, <1>5, GoFits, GoWithFits DEF Becomes
<1>6. ASSUME NEW w \in Worker, Send(w) \/ ReplyLost(w) PROVE Goal
  <2>1. PICK result \in Result : GoWith(w, "record", result)
    BY <1>6 DEF Send, ReplyLost, Result
  <2>2. At(w, "send") /\ UNCHANGED notice
    BY <1>6 DEF Send, ReplyLost
  <2>3. PICK r \in Work : Become(w, r) /\ r.pc = "record" /\ r.key = work[w].key
    BY <2>1, <2>2, GoWithFits DEF Becomes, At
  <2>4. NoticeLess
    BY <2>2, <2>3, OtherWorkers DEF NoticeLess, HoldsNotice, KeyOf, At
  <2> QED
    BY <1>1, <2>4
<1>7. ASSUME NEW w \in Worker, Record(w) PROVE Goal
  <2>1. At(w, "record") /\ work[w].result \in Result /\ KeyOf(w) \in Key /\ ~At(w, "idle")
    BY <1>7 DEF Record, WorkOK, WorkFits, At, KeyOf
  <2>2. PICK pc \in {"mirror", "settle"} : Go(w, pc) /\ (pc = "mirror" => ForSummary(w))
    BY <1>7 DEF Record
  <2>3. PICK r \in Work : Become(w, r) /\ r.pc = pc
    BY <2>1, <2>2, GoFits DEF Becomes
  <2>4. \A k \in Key \ {KeyOf(w)} : notice'[k] = notice[k]
    BY <1>7 DEF Record
  <2>5. \A v \in Worker, k \in Key : HoldsNotice(v, k)' => v # w /\ HoldsNotice(v, k)
    BY <2>2, <2>3, OtherWorkers DEF HoldsNotice, KeyOf
  <2>6. HoldsNotice(w, KeyOf(w))
    BY <2>1 DEF HoldsNotice, At
  <2>7. NoticeLess
    BY <2>1, <2>4, <2>5, <2>6 DEF NoticeLess, OneSender
  <2> QED
    BY <1>1, <2>7
<1>8. ASSUME NEW w \in Worker, ClaimNotice(w) PROVE Goal
  <2>1. ~At(w, "idle") /\ KeyOf(w) \in Key
    BY <1>8 DEF ClaimNotice, WorkOK, WorkFits, At, KeyOf
  <2>2. CASE Grantable(notice[KeyOf(w)])
    <3>1. notice' = [notice EXCEPT ![KeyOf(w)] = Pending] /\ Go(w, "send")
      BY <1>8, <2>2 DEF ClaimNotice
    <3>2. PICK r \in Work : Become(w, r) /\ r.pc = "send" /\ r.key = work[w].key
      BY <2>1, <3>1, GoFits DEF Becomes
    <3>3. \A v \in Worker : ~HoldsNotice(v, KeyOf(w))
      BY <2>1, <2>2, NotPending DEF NoticesHeld
    <3>4. \A v \in Worker, k \in Key :
            HoldsNotice(v, k)' <=> IF v = w THEN k = KeyOf(w) ELSE HoldsNotice(v, k)
      BY <3>2, OtherWorkers DEF HoldsNotice, KeyOf
    <3> QED
      BY <3>1, <3>3, <3>4 DEF OneSender, NoticesHeld
  <2>3. CASE ~Grantable(notice[KeyOf(w)])
    BY <1>5, <1>8, <2>1, <2>3 DEF ClaimNotice, Result
  <2> QED
    BY <2>2, <2>3
<1>9. ASSUME NEW w \in Worker, ClaimSummary(w) \/ GenerationFails(w) PROVE Goal
  <2>1. ~At(w, "idle") /\ UNCHANGED notice
    BY <1>9 DEF ClaimSummary, GenerationFails, At
  <2>2. \/ Become(w, AtRest) \/ Go(w, "notify") \/ Go(w, "settle")
        \/ GoWith(w, "mirror", "failed") /\ ForSummary(w)
    BY <1>9, ThrowRests DEF ClaimSummary, GenerationFails
  <2> QED
    BY <1>4, <1>5, <2>1, <2>2 DEF Result
<1>10. ASSUME NEW w \in Worker, Mirror(w) PROVE Goal
  <2>1. ~At(w, "idle") /\ UNCHANGED notice /\ (Become(w, AtRest) \/ Go(w, "settle"))
    BY <1>10 DEF Mirror, At
  <2> QED
    BY <1>4, <1>5, <2>1
<1>11. ASSUME NEW w \in Worker, Settle(w) \/ StepThrows(w) \/ WorkerDies(w) PROVE Goal
  BY <1>4, <1>11, ThrowRests DEF Settle, Deliver, StepThrows, WorkerDies
<1>12. ASSUME NEW w \in Worker, NEW s \in Session, NEW o \in Outcome, ReportOutcome(w, s, o)
       PROVE  Goal
  BY <1>3, <1>12 DEF ReportOutcome
<1>13. ASSUME NEW w \in Worker, NEW k \in Key, Take(w, k) PROVE Goal
  BY <1>3, <1>13 DEF Take
<1>14. ASSUME NEW k \in Key, NoticeRipens(k) PROVE Goal
  <2>1. NoticeLess
    BY <1>14 DEF NoticeRipens, NoticeLess, HoldsNotice, KeyOf
  <2> QED
    BY <1>1, <2>1
<1>15. ASSUME SessionsMove \/ (\E s \in Session : ClaimRipens(s)) \/ (\E k \in Key : HoldRipens(k))
       PROVE  Goal
  BY <1>2, <1>15 DEF SessionsMove, ClaimRipens, HoldRipens, notificationVars
<1> HIDE DEF Goal
<1>16. Goal
  BY <1>2, <1>6, <1>7, <1>8, <1>9, <1>10, <1>11, <1>12, <1>13, <1>14, <1>15
  DEF Next, Attempt, Time, notificationVars, vars
<1> QED
  BY <1>16 DEF Goal

LEMMA ClaimsStep ==
  ASSUME NotificationsTypeOK, WorkOK, ClaimsHeld, Timely, [Next]_vars
  PROVE  ClaimsHeld'
<1> USE DEF NotificationsTypeOK
<1>1. ASSUME ClaimLess PROVE ClaimsHeld'
  BY <1>1, ClaimsStayHeld
<1>2. ASSUME UNCHANGED <<work, claim>> PROVE ClaimsHeld'
  BY <1>1, <1>2 DEF ClaimLess, HasClaim, ForSummary, SessionOf
<1>3. ASSUME NEW w \in Worker, NEW r, Become(w, r), UNCHANGED claim,
             r.pc \in {"notify", "send", "record", "mirror"} =>
               \/ r.key[1] # Summary
               \/ /\ work[w].pc \in {"notify", "send", "record", "mirror"}
                  /\ r.key = work[w].key
      PROVE  ClaimsHeld'
  BY <1>1, <1>3, OtherWorkers DEF ClaimLess, HasClaim, ForSummary, SessionOf
<1>4. ASSUME NEW w \in Worker, Become(w, AtRest), UNCHANGED claim PROVE ClaimsHeld'
  BY <1>3, <1>4 DEF AtRest
<1>5. ASSUME NEW w \in Worker, ~At(w, "idle"), UNCHANGED claim, Go(w, "settle")
      PROVE  ClaimsHeld'
  BY <1>3, <1>5, GoFits DEF Becomes
<1>6. ASSUME NEW w \in Worker, work[w].pc \in {"notify", "send", "record", "mirror"},
             UNCHANGED claim,
             \/ Go(w, "send")
             \/ Go(w, "mirror") /\ ForSummary(w) /\ work[w].result \in Result
             \/ \E result \in Result, pc \in {"record", "mirror"} :
                  GoWith(w, pc, result) /\ (pc = "mirror" => ForSummary(w))
      PROVE  ClaimsHeld'
  <2>1. \E r : Become(w, r) /\ r.key = work[w].key
    BY <1>6, GoFits, GoWithFits DEF Becomes, At
  <2> QED
    BY <1>3, <1>6, <2>1
<1>7. ASSUME NEW w \in Worker, ClaimSummary(w) PROVE ClaimsHeld'
  <2>1. ~At(w, "idle") /\ ForSummary(w) /\ SessionOf(w) \in Session
    BY <1>7, KeyFacts DEF ClaimSummary, WorkOK, WorkFits, At, ForSummary, SessionOf
  <2>2. CASE Grantable(claim[SessionOf(w)])
    <3>1. claim' = [claim EXCEPT ![SessionOf(w)] = Pending] /\ Go(w, "notify")
      BY <1>7, <2>2 DEF ClaimSummary
    <3>2. PICK r \in Work : Become(w, r) /\ r.pc = "notify" /\ r.key = work[w].key
      BY <2>1, <3>1, GoFits DEF Becomes
    <3>3. \A v \in Worker : ~HasClaim(v, SessionOf(w))
      BY <2>1, <2>2, NotPending DEF ClaimsHeld
    <3>4. \A v \in Worker, s \in Session :
            HasClaim(v, s)' <=> IF v = w THEN s = SessionOf(w) ELSE HasClaim(v, s)
      BY <2>1, <3>2, OtherWorkers DEF HasClaim, ForSummary, SessionOf
    <3> QED
      BY <3>1, <3>3, <3>4 DEF ClaimsHeld
  <2>3. CASE ~Grantable(claim[SessionOf(w)])
    BY <1>4, <1>5, <1>7, <2>1, <2>3, ThrowRests DEF ClaimSummary
  <2> QED
    BY <2>2, <2>3
<1>8. ASSUME NEW w \in Worker, ClaimNotice(w) PROVE ClaimsHeld'
  <2>1. At(w, "notify") /\ UNCHANGED claim
    BY <1>8 DEF ClaimNotice
  <2>2. \/ Go(w, "send") \/ Go(w, "settle")
        \/ ForSummary(w) /\ \E result \in Result : GoWith(w, "mirror", result)
    BY <1>8 DEF ClaimNotice, Result
  <2> QED
    BY <1>5, <1>6, <2>1, <2>2 DEF At
<1>9. ASSUME NEW w \in Worker, GenerationFails(w) \/ Send(w) \/ ReplyLost(w) PROVE ClaimsHeld'
  BY <1>6, <1>9 DEF GenerationFails, Send, ReplyLost, At, Result
<1>10. ASSUME NEW w \in Worker, Record(w) PROVE ClaimsHeld'
  <2>1. At(w, "record") /\ work[w].result \in Result /\ UNCHANGED claim
    BY <1>10 DEF Record, WorkOK, WorkFits, At
  <2>2. (ForSummary(w) /\ Go(w, "mirror")) \/ Go(w, "settle")
    BY <1>10 DEF Record
  <2> QED
    BY <1>5, <1>6, <2>1, <2>2 DEF At
<1>11. ASSUME NEW w \in Worker, Mirror(w) PROVE ClaimsHeld'
  <2>1. At(w, "mirror") /\ ForSummary(w) /\ SessionOf(w) \in Session
    BY <1>11, KeyFacts DEF Mirror, WorkOK, WorkFits, At, ForSummary, SessionOf
  <2>2. PICK r : Become(w, r) /\ r.pc \in {"idle", "settle"}
    <3>1. CASE Become(w, AtRest)
      BY <3>1 DEF AtRest
    <3>2. CASE Go(w, "settle")
      BY <2>1, <3>2, GoFits DEF Becomes, At
    <3> QED
      BY <1>11, <3>1, <3>2 DEF Mirror
  <2>3. \A s \in Session \ {SessionOf(w)} : claim'[s] = claim[s]
    BY <1>11 DEF Mirror
  <2>4. \A v \in Worker, s \in Session : HasClaim(v, s)' => v # w /\ HasClaim(v, s)
    BY <2>2, OtherWorkers DEF HasClaim, ForSummary, SessionOf
  <2>5. HasClaim(w, SessionOf(w))
    BY <2>1 DEF HasClaim, At
  <2>6. ClaimLess
    BY <2>1, <2>3, <2>4, <2>5 DEF ClaimLess, ClaimsHeld
  <2> QED
    BY <1>1, <2>6
<1>12. ASSUME NEW w \in Worker, Settle(w) \/ StepThrows(w) \/ WorkerDies(w) PROVE ClaimsHeld'
  BY <1>4, <1>12, ThrowRests DEF Settle, Deliver, StepThrows, WorkerDies
<1>13. ASSUME NEW w \in Worker, NEW s \in Session, NEW o \in Outcome, ReportOutcome(w, s, o)
       PROVE  ClaimsHeld'
  BY <1>3, <1>13 DEF ReportOutcome
<1>14. ASSUME NEW w \in Worker, NEW k \in Key, Take(w, k) PROVE ClaimsHeld'
  <2> DEFINE pc == IF Unneeded(k) THEN "settle" ELSE IF k[1] = Summary THEN "claim" ELSE "notify"
             r == [pc |-> pc, key |-> k, inline |-> FALSE, result |-> Nothing]
  <2>1. Become(w, r) /\ UNCHANGED claim
    BY <1>14 DEF Take
  <2>2. r.pc \in {"notify", "send", "record", "mirror"} => r.key[1] # Summary
    OBVIOUS
  <2> HIDE DEF r
  <2> QED
    BY <1>3, <2>1, <2>2
<1>15. ASSUME NEW s \in Session, ClaimRipens(s) PROVE ClaimsHeld'
  <2>1. \A w \in Worker : ~HasClaim(w, s)
    BY <1>15 DEF ClaimRipens, HasClaim, HoldsClaim, HoldsMirror, At
  <2>2. ClaimLess
    BY <1>15, <2>1 DEF ClaimRipens, ClaimLess, HasClaim, ForSummary, SessionOf
  <2> QED
    BY <1>1, <2>2
<1>16. ASSUME SessionsMove \/ (\E k \in Key : NoticeRipens(k) \/ HoldRipens(k)) PROVE ClaimsHeld'
  BY <1>2, <1>16 DEF SessionsMove, NoticeRipens, HoldRipens, notificationVars
<1> QED
  BY <1>2, <1>7, <1>8, <1>9, <1>10, <1>11, <1>12, <1>13, <1>14, <1>15, <1>16
  DEF Next, Attempt, Time, notificationVars, vars

-----------------------------------------------------------------------------
(* Sent is final, in a step. *)
SentStays ==
  /\ \A s \in Session : claim[s].status = "sent" => claim'[s].status = "sent"
  /\ \A k \in Key : notice[k].status = "sent" => notice'[k].status = "sent"

LEMMA SentStaysSent ==
  ASSUME DeliveriesInv, Exclusive, Timely, [Next]_vars
  PROVE  SentStays
<1> USE DEF DeliveriesInv, NotificationsTypeOK
<1>1. ASSUME UNCHANGED <<claim, notice>> PROVE SentStays
  BY <1>1 DEF SentStays
<1>2. ASSUME NEW s \in Session, claim[s].status # "sent", NEW c,
             claim' = [claim EXCEPT ![s] = c], UNCHANGED notice
      PROVE  SentStays
  BY <1>2 DEF SentStays
<1>3. ASSUME NEW k \in Key, notice[k].status # "sent", NEW c,
             notice' = [notice EXCEPT ![k] = c], UNCHANGED claim
      PROVE  SentStays
  BY <1>3 DEF SentStays
<1>4. ASSUME NEW w \in Worker, ~At(w, "idle") PROVE KeyOf(w) \in Key /\ SessionOf(w) \in Session
  BY <1>4, KeyFacts DEF At, WorkOK, WorkFits, KeyOf, SessionOf
<1>5. \A c : ClaimOK(c) /\ Grantable(c) => c.status # "sent"
  BY DEF ClaimOK, Grantable
<1>6. ASSUME NEW w \in Worker, ClaimSummary(w) PROVE SentStays
  <2>1. SessionOf(w) \in Session /\ ClaimOK(claim[SessionOf(w)])
    BY <1>4, <1>6 DEF ClaimSummary, At, RowsOK
  <2>2. CASE Grantable(claim[SessionOf(w)])
    BY <1>2, <1>5, <1>6, <2>1, <2>2 DEF ClaimSummary
  <2>3. CASE ~Grantable(claim[SessionOf(w)])
    BY <1>1, <1>6, <2>3 DEF ClaimSummary
  <2> QED
    BY <2>2, <2>3
<1>7. ASSUME NEW w \in Worker, ClaimNotice(w) PROVE SentStays
  <2>1. KeyOf(w) \in Key /\ ClaimOK(notice[KeyOf(w)])
    BY <1>4, <1>7 DEF ClaimNotice, At, RowsOK
  <2>2. CASE Grantable(notice[KeyOf(w)])
    BY <1>3, <1>5, <1>7, <2>1, <2>2 DEF ClaimNotice
  <2>3. CASE ~Grantable(notice[KeyOf(w)])
    BY <1>1, <1>7, <2>3 DEF ClaimNotice
  <2> QED
    BY <2>2, <2>3
<1>8. ASSUME NEW w \in Worker, Record(w) PROVE SentStays
  <2>1. KeyOf(w) \in Key
    BY <1>4, <1>8 DEF Record, At
  <2>2. notice[KeyOf(w)].status # "sent"
    BY <1>8, <2>1 DEF Record, At, Exclusive, NoticesHeld, HoldsNotice, Pending
  <2> QED
    BY <1>3, <1>8, <2>1, <2>2 DEF Record
<1>9. ASSUME NEW w \in Worker, Mirror(w) PROVE SentStays
  <2>1. SessionOf(w) \in Session /\ ForSummary(w)
    BY <1>4, <1>9 DEF Mirror, At, WorkOK, WorkFits, ForSummary
  <2>2. claim[SessionOf(w)].status # "sent"
    BY <1>9, <2>1 DEF Mirror, At, Exclusive, ClaimsHeld, HasClaim, Pending
  <2> QED
    BY <1>2, <1>9, <2>1, <2>2 DEF Mirror
<1>10. ASSUME Time PROVE SentStays
  BY <1>1, <1>2, <1>3, <1>10 DEF Time, ClaimRipens, NoticeRipens, HoldRipens
<1>11. ASSUME NEW w \in Worker,
              GenerationFails(w) \/ Send(w) \/ Settle(w) \/ ReplyLost(w) \/ StepThrows(w)
                \/ WorkerDies(w)
       PROVE  SentStays
  BY <1>1, <1>11 DEF GenerationFails, Send, Settle, ReplyLost, StepThrows, WorkerDies
<1> QED
  BY <1>1, <1>6, <1>7, <1>8, <1>9, <1>10, <1>11
  DEF Next, SessionsMove, ReportOutcome, Take, Attempt, notificationVars, vars

LEMMA MailsGrow ==
  ASSUME DeliveriesInv, [Next]_vars
  PROVE  \A k \in Key : mails'[k] >= mails[k]
<1> DEFINE Goal == \A k \in Key : mails'[k] >= mails[k]
<1>0. mails \in [Key -> Nat] /\ \A k \in Key : mails[k] \in Nat
  BY DEF DeliveriesInv, RowsOK
<1>1. ASSUME UNCHANGED mails PROVE Goal
  BY <1>0, <1>1
<1>2. ASSUME NEW w \in Worker, Send(w) \/ ReplyLost(w) PROVE Goal
  BY <1>0, <1>2 DEF Send, ReplyLost
<1> HIDE DEF Goal
<1>3. Goal
  BY <1>1, <1>2
  DEF Next, SessionsMove, ReportOutcome, Take, Attempt, ClaimSummary, ClaimNotice,
      GenerationFails, Record, Mirror, Settle, StepThrows, WorkerDies, Time, ClaimRipens,
      NoticeRipens, HoldRipens, notificationVars, vars
<1> QED
  BY <1>3 DEF Goal

(* Nothing comes to say sent but by what a worker writes. *)
LEMMA WhoSaysSent ==
  ASSUME DeliveriesInv, [Next]_vars
  PROVE  /\ \A k \in Key : notice'[k].status = "sent" =>
              \/ notice[k].status = "sent"
              \/ \E w \in Worker : At(w, "record") /\ work[w].result = "sent" /\ KeyOf(w) = k
         /\ \A s \in Session : claim'[s].status = "sent" =>
              \/ claim[s].status = "sent"
              \/ \E w \in Worker : /\ At(w, "mirror") /\ work[w].result = "sent"
                                   /\ SessionOf(w) = s
<1> USE DEF DeliveriesInv, NotificationsTypeOK
<1> DEFINE NoticeGoal ==
             \A k \in Key : notice'[k].status = "sent" =>
               \/ notice[k].status = "sent"
               \/ \E w \in Worker : At(w, "record") /\ work[w].result = "sent" /\ KeyOf(w) = k
           ClaimGoal ==
             \A s \in Session : claim'[s].status = "sent" =>
               \/ claim[s].status = "sent"
               \/ \E w \in Worker : /\ At(w, "mirror") /\ work[w].result = "sent"
                                    /\ SessionOf(w) = s
<1>1. UNCHANGED notice => NoticeGoal
  OBVIOUS
<1>2. UNCHANGED claim => ClaimGoal
  OBVIOUS
<1>3. ASSUME NEW w \in Worker, ClaimSummary(w) PROVE NoticeGoal /\ ClaimGoal
  BY <1>3 DEF ClaimSummary, Pending
<1>4. ASSUME NEW w \in Worker, ClaimNotice(w) PROVE NoticeGoal /\ ClaimGoal
  BY <1>4 DEF ClaimNotice, Pending
<1>5. ASSUME NEW w \in Worker, Record(w) PROVE NoticeGoal /\ ClaimGoal
  BY <1>5 DEF Record, Recorded
<1>6. ASSUME NEW w \in Worker, Mirror(w) PROVE NoticeGoal /\ ClaimGoal
  BY <1>6 DEF Mirror, Recorded
<1>7. ASSUME Time PROVE NoticeGoal /\ ClaimGoal
  BY <1>7 DEF Time, ClaimRipens, NoticeRipens, HoldRipens
<1>8. ASSUME NEW w \in Worker,
             GenerationFails(w) \/ Send(w) \/ Settle(w) \/ ReplyLost(w) \/ StepThrows(w)
               \/ WorkerDies(w)
      PROVE  UNCHANGED <<claim, notice>>
  BY <1>8 DEF GenerationFails, Send, Settle, ReplyLost, StepThrows, WorkerDies
<1> HIDE DEF NoticeGoal, ClaimGoal, DeliveriesInv
<1>9. NoticeGoal /\ ClaimGoal
  BY <1>1, <1>2, <1>3, <1>4, <1>5, <1>6, <1>7, <1>8
  DEF Next, SessionsMove, ReportOutcome, Take, Attempt, notificationVars, vars
<1> QED
  BY <1>9 DEF NoticeGoal, ClaimGoal

(* What a worker is about to write, it writes of what was so. *)
Truthful(w) ==
  /\ At(w, "record") /\ work[w].result = "sent" => mails[KeyOf(w)] > 0
  /\ At(w, "mirror") /\ work[w].result = "sent" => notice[KeyOf(w)].status = "sent"

LEMMA WorkersStayTruthful ==
  ASSUME DeliveriesInv, DeliveriesInv', \A w \in Worker : Truthful(w), SentStays, [Next]_vars
  PROVE  \A w \in Worker : Truthful(w)'
<1> USE DEF DeliveriesInv, NotificationsTypeOK
<1> DEFINE Goal == \A w \in Worker : Truthful(w)'
<1>1. ASSUME NEW v \in Worker, work'[v] = work[v] PROVE Truthful(v)'
  <2>1. SUFFICES ASSUME At(v, "record") \/ At(v, "mirror"), work[v].result = "sent"
                 PROVE  Truthful(v)'
    BY <1>1 DEF Truthful, At
  <2>2. KeyOf(v) \in Key
    BY <2>1 DEF WorkOK, WorkFits, At, KeyOf
  <2>3. mails[KeyOf(v)] \in Nat /\ mails'[KeyOf(v)] \in Nat /\ mails'[KeyOf(v)] >= mails[KeyOf(v)]
    BY <2>2, MailsGrow
  <2> QED
    BY <1>1, <2>1, <2>2, <2>3 DEF Truthful, At, KeyOf, SentStays
<1>2. ASSUME UNCHANGED work PROVE Goal
  BY <1>1, <1>2
<1>3. ASSUME NEW w \in Worker, NEW r, Become(w, r),
             r.pc = "record" /\ r.result = "sent" => mails'[r.key] > 0,
             r.pc = "mirror" /\ r.result = "sent" => notice'[r.key].status = "sent"
      PROVE  Goal
  <2>1. work'[w] = r /\ \A v \in Worker \ {w} : work'[v] = work[v]
    BY <1>3, OtherWorkers
  <2>2. Truthful(w)'
    BY <1>3, <2>1 DEF Truthful, At, KeyOf
  <2> QED
    BY <1>1, <2>1, <2>2
<1>4. ASSUME NEW w \in Worker, Become(w, AtRest) PROVE Goal
  BY <1>3, <1>4 DEF AtRest
<1>5. ASSUME NEW w \in Worker, ~At(w, "idle"), NEW pc \in {"notify", "send", "settle"}, Go(w, pc)
      PROVE  Goal
  BY <1>3, <1>5, GoFits DEF Becomes
<1>6. ASSUME NEW w \in Worker, NEW s \in Session, NEW o \in Outcome, ReportOutcome(w, s, o)
      PROVE  Goal
  BY <1>3, <1>6 DEF ReportOutcome
<1>7. ASSUME NEW w \in Worker, NEW k \in Key, Take(w, k) PROVE Goal
  BY <1>3, <1>7 DEF Take
<1>8. ASSUME NEW w \in Worker, ClaimSummary(w) PROVE Goal
  BY <1>4, <1>5, <1>8, ThrowRests DEF ClaimSummary, At
<1>9. ASSUME NEW w \in Worker, ClaimNotice(w) PROVE Goal
  <2>1. ~At(w, "idle") /\ KeyOf(w) \in Key
    BY <1>9 DEF ClaimNotice, WorkOK, WorkFits, At, KeyOf
  <2>2. ASSUME NEW result \in Result, GoWith(w, "mirror", result), ForSummary(w),
               result = "sent" => notice'[KeyOf(w)].status = "sent"
        PROVE  Goal
    <3>1. PICK r \in Work : Become(w, r) /\ r.pc = "mirror" /\ r.key = work[w].key /\ r.result = result
      BY <2>1, <2>2, GoWithFits DEF Becomes
    <3> QED
      BY <1>3, <2>2, <3>1 DEF KeyOf
  <2>3. CASE Grantable(notice[KeyOf(w)])
    BY <1>5, <1>9, <2>1, <2>3 DEF ClaimNotice
  <2>4. CASE ~Grantable(notice[KeyOf(w)]) /\ ~ForSummary(w)
    BY <1>5, <1>9, <2>1, <2>4 DEF ClaimNotice
  <2>5. CASE ~Grantable(notice[KeyOf(w)]) /\ ForSummary(w)
    <3>1. UNCHANGED notice
      BY <1>9, <2>5 DEF ClaimNotice
    <3>2. CASE notice[KeyOf(w)].status = "sent"
      BY <1>9, <2>2, <2>5, <3>1, <3>2 DEF ClaimNotice, Result
    <3>3. CASE notice[KeyOf(w)].status # "sent"
      BY <1>9, <2>2, <2>5, <3>1, <3>3 DEF ClaimNotice, Result
    <3> QED
      BY <3>2, <3>3
  <2> QED
    BY <2>3, <2>4, <2>5
<1>10. ASSUME NEW w \in Worker, GenerationFails(w) PROVE Goal
  <2>1. PICK r \in Work : Become(w, r) /\ r.pc = "mirror" /\ r.result = "failed"
    BY <1>10, GoWithFits DEF GenerationFails, At, Result, Becomes
  <2> QED
    BY <1>3, <2>1
<1>11. ASSUME NEW w \in Worker, Send(w) \/ ReplyLost(w) PROVE Goal
  <2>1. ~At(w, "idle") /\ KeyOf(w) \in Key /\ mails[KeyOf(w)] \in Nat
    BY <1>11 DEF Send, ReplyLost, WorkOK, WorkFits, At, KeyOf
  <2>2. PICK result \in Result : /\ GoWith(w, "record", result)
                                 /\ result = "sent" => mails'[KeyOf(w)] = mails[KeyOf(w)] + 1
    BY <1>11, <2>1 DEF Send, ReplyLost, Result
  <2>3. PICK r \in Work : Become(w, r) /\ r.pc = "record" /\ r.key = work[w].key /\ r.result = result
    BY <2>1, <2>2, GoWithFits DEF Becomes
  <2>4. result = "sent" => mails'[r.key] > 0
    BY <2>1, <2>2, <2>3 DEF KeyOf
  <2> QED
    BY <1>3, <2>3, <2>4
<1>12. ASSUME NEW w \in Worker, Record(w) PROVE Goal
  <2>1. ~At(w, "idle") /\ work[w].result \in Result /\ KeyOf(w) \in Key
    BY <1>12 DEF Record, At, WorkOK, WorkFits, KeyOf
  <2>2. CASE ~ForSummary(w)
    BY <1>5, <1>12, <2>1, <2>2 DEF Record
  <2>3. CASE ForSummary(w)
    <3>1. Go(w, "mirror") /\ notice'[KeyOf(w)].status = work[w].result
      BY <1>12, <2>1, <2>3 DEF Record, Recorded
    <3>2. PICK r \in Work : /\ Become(w, r) /\ r.pc = "mirror" /\ r.key = work[w].key
                            /\ r.result = work[w].result
      BY <2>1, <2>3, <3>1, GoFits DEF Becomes
    <3> QED
      BY <1>3, <3>1, <3>2 DEF KeyOf
  <2> QED
    BY <2>2, <2>3
<1>13. ASSUME NEW w \in Worker, Mirror(w) PROVE Goal
  BY <1>4, <1>5, <1>13 DEF Mirror, At
<1>14. ASSUME NEW w \in Worker, Settle(w) \/ StepThrows(w) \/ WorkerDies(w) PROVE Goal
  BY <1>4, <1>14, ThrowRests DEF Settle, Deliver, StepThrows, WorkerDies
<1>15. ASSUME SessionsMove \/ Time PROVE Goal
  BY <1>2, <1>15 DEF SessionsMove, Time, ClaimRipens, NoticeRipens, HoldRipens, notificationVars
<1> HIDE DEF Goal, DeliveriesInv
<1>16. Goal
  BY <1>2, <1>6, <1>7, <1>8, <1>9, <1>10, <1>11, <1>12, <1>13, <1>14, <1>15
  DEF Next, Attempt, notificationVars, vars
<1> QED
  BY <1>16 DEF Goal

Truth == SentIsTrue /\ \A w \in Worker : Truthful(w)

LEMMA TruthStep ==
  ASSUME DeliveriesInv, DeliveriesInv', Exclusive, Truth, Timely, [Next]_vars
  PROVE  Truth'
<1>1. SentStays
  BY SentStaysSent
<1>2. \A w \in Worker : Truthful(w)'
  BY <1>1, WorkersStayTruthful DEF Truth
<1>3. ASSUME NEW k \in Key, notice'[k].status = "sent" PROVE mails'[k] > 0
  <2>1. mails[k] > 0
    <3>1. CASE notice[k].status = "sent"
      BY <3>1, KeyFacts DEF Truth, SentIsTrue
    <3>2. CASE \E w \in Worker : At(w, "record") /\ work[w].result = "sent" /\ KeyOf(w) = k
      BY <3>2 DEF Truth, Truthful
    <3> QED
      BY <1>3, <3>1, <3>2, WhoSaysSent
  <2>2. mails[k] \in Nat /\ mails'[k] \in Nat /\ mails'[k] >= mails[k]
    BY MailsGrow DEF DeliveriesInv, RowsOK
  <2> QED
    BY <2>1, <2>2
<1>4. ASSUME NEW s \in Session, claim'[s].status = "sent"
      PROVE  notice'[<<Summary, s>>].status = "sent"
  <2>1. notice[<<Summary, s>>].status = "sent"
    <3>1. CASE claim[s].status = "sent"
      BY <3>1 DEF Truth, SentIsTrue
    <3>2. ASSUME NEW w \in Worker, At(w, "mirror"), work[w].result = "sent", SessionOf(w) = s
          PROVE  notice[<<Summary, s>>].status = "sent"
      <4>1. KeyOf(w) = <<Summary, s>>
        BY <3>2, KeyFacts DEF DeliveriesInv, WorkOK, WorkFits, At, KeyOf, SessionOf
      <4> QED
        BY <3>2, <4>1 DEF Truth, Truthful
    <3> QED
      BY <1>4, <3>1, <3>2, WhoSaysSent
  <2> QED
    BY <1>1, <2>1, KeyFacts DEF SentStays
<1> QED
  BY <1>2, <1>3, <1>4 DEF Truth, SentIsTrue

-----------------------------------------------------------------------------
NotificationsInv == DeliveriesInv /\ (Timely => Exclusive /\ Truth)

LEMMA NotificationsInit == Init => NotificationsInv
<1> SUFFICES ASSUME Init PROVE NotificationsInv
  OBVIOUS
<1>1. DeliveriesInv
  BY DeliveriesInit
<1>2. \A w \in Worker : work[w].pc = "idle"
  BY DEF Init, AtRest
<1>3. Exclusive
  BY <1>2 DEF Exclusive, OneSender, NoticesHeld, ClaimsHeld, HoldsNotice, HasClaim
<1>4. Truth
  BY <1>2 DEF Init, Truth, SentIsTrue, Truthful, At, NoClaim, Key
<1> QED
  BY <1>1, <1>3, <1>4 DEF NotificationsInv

LEMMA NotificationsStep == NotificationsInv /\ [Next]_vars => NotificationsInv'
<1> SUFFICES ASSUME NotificationsInv, [Next]_vars PROVE NotificationsInv'
  OBVIOUS
<1>1. DeliveriesInv /\ DeliveriesInv'
  BY DeliveriesStep DEF NotificationsInv
<1>2. ASSUME Timely PROVE Exclusive' /\ Truth'
  BY <1>1, <1>2, NoticesStep, ClaimsStep, TruthStep
  DEF NotificationsInv, DeliveriesInv, Exclusive
<1> QED
  BY <1>1, <1>2 DEF NotificationsInv

LEMMA NotificationsInvariant == Spec => []NotificationsInv
BY NotificationsInit, NotificationsStep, PTL DEF Spec

(* Rows, claims, notices, deliveries and workers keep their shapes.        *)
THEOREM NotificationsTypeCorrect == Spec => []NotificationsTypeOK
<1>1. NotificationsInv => NotificationsTypeOK
  BY DEF NotificationsInv, DeliveriesInv
<1> QED
  BY <1>1, NotificationsInvariant, PTL

(* What delivers an outcome does to the sessions only what module Sessions *)
(* allows, so everything proved of them holds here.                        *)
THEOREM SessionsKept == Spec => SessionsSpec
<1>1. Init => SessionsInit
  BY DEF Init
<1> QED
  BY <1>1, WithinSessions, PTL DEF Spec, SessionsSpec

(* No two requests, drains or instances are between the claim of a         *)
(* notification and its record, when no attempt outlives its claim.        *)
THEOREM OneSenderHolds ==
  ASSUME Timely PROVE Spec => []OneSender
<1>1. NotificationsInv => OneSender
  BY DEF NotificationsInv, Exclusive
<1> QED
  BY <1>1, NotificationsInvariant, PTL

(* A session says its summary was sent only if the notification says so,   *)
(* and that only if the mail system took a message.                        *)
THEOREM SentIsAlwaysTrue ==
  ASSUME Timely PROVE Spec => []SentIsTrue
<1>1. NotificationsInv => SentIsTrue
  BY DEF NotificationsInv, Truth
<1> QED
  BY <1>1, NotificationsInvariant, PTL

(* Sent is never taken back, by a retry, a redelivery or another instance. *)
THEOREM SentStaysFinal ==
  ASSUME Timely PROVE Spec => SentIsFinal
<1>1. NotificationsInv /\ [Next]_vars => [SentStays]_vars
  BY SentStaysSent DEF NotificationsInv
<1>2. Spec => [][SentStays]_vars
  BY <1>1, NotificationsInvariant, PTL DEF Spec
<1> QED
  BY <1>2 DEF SentIsFinal, SentStays

=============================================================================
