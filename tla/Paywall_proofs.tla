---------------------------- MODULE Paywall_proofs ----------------------------
(***************************************************************************)
(* Proofs about the paywall: for any subscriptions, products, plans, runs  *)
(* of the webhook and of the return page, and any number of events.        *)
(***************************************************************************)
EXTENDS Paywall, SequenceTheorems, TLAPS

-----------------------------------------------------------------------------
(* Types *)
Status == {"none", "active", "past_due", "canceled"}
Fact == [kind : {"created", "checkout", "updated", "deleted", "invoice", "verify"},
         sub : Sub, status : Status]
Key2 == Product \X Source
Running == [pc : {"user", "customer", "lookup", "seek", "entitle", "login", "retrieve",
                  "subscription", "retire", "revoke", "audit", "invoice"},
            told : Fact, id : Nat, key : {<<>>} \cup Key2, found : {0, 1}, status : Status]
Runner == Handler \cup Visitor
Busy(h) == run[h] # Resting

TypeInv ==
  /\ PaywallTypeOK
  /\ events \in Seq(Fact)
  /\ rows \in [Key2 -> Seq(BOOLEAN)]
  /\ run \in [Runner -> {Resting} \cup Running]

-----------------------------------------------------------------------------
(* What Stripe has told *)
IsChange(i) == events[i].kind \in {"updated", "deleted"}

(* An event that brings a subscription's status as it now is at Stripe *)
News(i, s) == IsChange(i) /\ events[i].sub = s /\ events[i].status = stripe[s]
Coming(s, i) == \E j \in DOMAIN events : j > i /\ News(j, s)

EventTrue(i) ==
  /\ events[i].kind # "verify" /\ events[i].status # "none"
  /\ events[i].kind \in {"created", "checkout"} => events[i].status = "active"
  /\ events[i].kind = "deleted" => events[i].status = "canceled"
  /\ stripe[events[i].sub] # "none"
  /\ IsChange(i) => \E j \in DOMAIN events :
       j < i /\ events[j].sub = events[i].sub /\ events[j].kind = "checkout"
  /\ events[i].kind = "created" => \E j \in DOMAIN events :
       j > i /\ events[j].sub = events[i].sub /\ events[j].kind = "checkout"
  /\ events[i].kind = "created" \/ IsChange(i) =>
       events[i].status = stripe[events[i].sub] \/ Coming(events[i].sub, i)

EventsTrue ==
  /\ \A i \in DOMAIN events : EventTrue(i)
  /\ \A s \in Sub : stripe[s] # "none" =>
       \E j \in DOMAIN events : events[j].sub = s /\ events[j].kind = "checkout"

(* Events of a subscription that are told in their order are audited in it. *)
AuditedInOrder ==
  \A i \in audited : \A j \in DOMAIN events :
    j < i /\ events[j].sub = events[i].sub => j \in audited

-----------------------------------------------------------------------------
(* What a run has in hand *)
VisitorRuns(v) ==
  /\ run[v].told.kind = "verify"
  /\ run[v].pc \in {"user", "customer", "seek", "entitle", "login"}
  /\ run[v].pc \in {"seek", "entitle"} => run[v].key = Key(v, Provisional)
  /\ run[v].pc \notin {"user"} => user

HandlerRuns(h) ==
  LET r == run[h] IN
  /\ r.id \in DOMAIN events /\ r.told = events[r.id]
  /\ r.told.kind = "checkout" =>
       /\ r.pc \in {"user", "customer", "seek", "entitle", "retrieve", "subscription", "retire", "audit"}
       /\ r.pc \in {"seek", "entitle"} => r.key \in {Key(h, Provisional), Key(h, Paid)}
       /\ r.pc \in {"user", "customer"} => r.key = <<>>
       /\ r.pc \in {"retrieve", "subscription"} => r.key = Key(h, Provisional)
       /\ r.pc = "retire" => r.key = Key(h, Paid)
       /\ r.pc \notin {"user", "customer"} => r.told.sub \in customers
       /\ r.pc # "user" => user
  /\ r.told.kind = "invoice" => r.pc = "invoice"
  /\ r.told.kind = "created" \/ IsChange(r.id) =>
       /\ r.pc \in {"lookup", "subscription", "seek", "entitle", "revoke", "audit"}
       /\ r.pc \in {"seek", "entitle", "revoke"} => r.key = Key(h, Paid)
       /\ r.status = r.told.status
       /\ r.pc = "revoke" => IsChange(r.id)

Runs ==
  /\ \A h \in Runner : Busy(h) => stripe[run[h].told.sub] # "none"
  /\ \A v \in Visitor : Busy(v) => VisitorRuns(v)
  /\ \A h \in Handler : Busy(h) => HandlerRuns(h)
  /\ \A i \in audited : events[i].kind = "checkout" => events[i].sub \in customers

(* In order, a handler has the oldest event of its subscription without an *)
(* audit row, and the subscription to itself.                              *)
InOrder ==
  \A h \in Handler : Busy(h) =>
    /\ run[h].id \notin audited
    /\ \A j \in DOMAIN events : j < run[h].id /\ events[j].sub = run[h].told.sub => j \in audited
    /\ \A g \in Handler : Busy(g) /\ run[g].told.sub = run[h].told.sub => g = h

(* The status a handler has read of a subscription is Stripe's, or an      *)
(* event that corrects it is still to come.                                *)
Read(h) == \/ run[h].told.kind = "created" \/ IsChange(run[h].id)
           \/ run[h].pc = "subscription" \/ run[h].key = Key(h, Paid)
StatusTrue(h) ==
  Busy(h) /\ Read(h) =>
    /\ run[h].status # "none"
    /\ run[h].status = stripe[run[h].told.sub] \/ Coming(run[h].told.sub, run[h].id)

(* An event of news is to be handled, and no handler of it is past pcs. *)
Ahead(s, pcs) ==
  \E j \in DOMAIN events \ audited :
    News(j, s) /\ \A h \in Handler : Busy(h) /\ run[h].id = j => run[h].pc \in pcs

SubsTrue(s) == subs[s] \in {"none", stripe[s]} \/ Ahead(s, {"lookup", "subscription"})

Open(p, source) == TRUE \in Range(rows[<<p, source>>])

PaidTrue(p) ==
  Open(p, Paid) => \E s \in Sub : /\ ProductOf[s] = p
                                  /\ \/ stripe[s] = "active"
                                     \/ Ahead(s, {"lookup", "subscription", "seek", "entitle", "revoke"})

AccessInv ==
  /\ TypeInv /\ EventsTrue /\ Runs /\ AuditedInOrder /\ InOrder
  /\ \A h \in Handler : StatusTrue(h)
  /\ \A s \in Sub : SubsTrue(s)
  /\ \A p \in Product : PaidTrue(p)

-----------------------------------------------------------------------------
(* One subscription *)
Alone(s) == \A t \in Sub \ {s} : stripe[t] = "none"

Served(s) ==
  \/ subs[s] = "none"
  \/ Open(ProductOf[s], Paid)
  \/ Open(ProductOf[s], Provisional) /\ subs[s] = "active"

Unheard(s) == \E i \in DOMAIN events \ audited : events[i].sub = s /\ events[i].kind # "invoice"
LetIn(s) == stripe[s] = "active" /\ ~Served(s) => Unheard(s)

Serves(h) ==
  LET r == run[h]  p == ProductOf[r.told.sub] IN
  /\ r.told.kind = "checkout" =>
       /\ r.pc \in {"retrieve", "subscription"} => Open(p, Provisional)
       /\ r.pc \in {"seek", "entitle"} /\ r.key = Key(h, Paid) => Open(p, Provisional)
       /\ r.pc = "retire" /\ r.status = "active" => Open(p, Paid)
       /\ r.pc = "audit" /\ stripe[r.told.sub] = "active" =>
            Served(r.told.sub) \/ Coming(r.told.sub, r.id)
  /\ IsChange(r.id) =>
       /\ r.pc = "audit" /\ r.status = "active" => Open(p, Paid)
       /\ r.pc = "revoke" => r.status # "active"

FoundTrue(h) ==
  Busy(h) /\ run[h].pc = "entitle" /\ run[h].found = 1 => rows[run[h].key] # <<>>

ServeInv ==
  /\ AccessInv
  /\ cookie => user
  /\ \A h \in Runner : FoundTrue(h)
  /\ \A s \in Sub : Alone(s) =>
       /\ LetIn(s)
       /\ \A h \in Handler : Busy(h) => Serves(h)

-----------------------------------------------------------------------------
(* A run and its steps                                                     *)

Pc == {"user", "customer", "lookup", "seek", "entitle", "login", "retrieve",
       "subscription", "retire", "revoke", "audit", "invoice"}

LEMMA RunnerBusy ==
  ASSUME TypeInv, NEW h \in Runner
  PROVE  /\ Busy(h) => run[h] \in Running /\ run[h].pc \in Pc
         /\ ~Busy(h) => run[h].pc = "rest"
         /\ At(h, "rest") <=> ~Busy(h)
<1>1. run[h] \in {Resting} \cup Running
  BY DEF TypeInv
<1>2. Resting.pc = "rest"
  BY DEF Resting
<1>3. \A r \in Running : r.pc \in Pc
  BY DEF Running, Pc
<1> QED
  BY <1>1, <1>2, <1>3 DEF Busy, At, Pc

LEMMA GoEffect ==
  ASSUME TypeInv, NEW h \in Runner, NEW r \in {Resting} \cup Running, Go(h, r)
  PROVE  /\ run' \in [Runner -> {Resting} \cup Running]
         /\ run'[h] = r
         /\ \A g \in Runner \ {h} : run'[g] = run[g]
  BY DEF TypeInv, Go

LEMMA RowTo ==
  ASSUME NEW r \in Running, NEW p \in Pc
  PROVE  LET q == [r EXCEPT !.pc = p] IN
         q \in Running /\ q.pc = p /\ q.told = r.told /\ q.id = r.id /\ q.key = r.key
         /\ q.found = r.found /\ q.status = r.status
  BY DEF Running, Pc

LEMMA RowSeek ==
  ASSUME NEW r \in Running, NEW k \in Key2
  PROVE  LET q == [r EXCEPT !.pc = "seek", !.key = k] IN
         q \in Running /\ q.pc = "seek" /\ q.told = r.told /\ q.id = r.id /\ q.key = k
         /\ q.found = r.found /\ q.status = r.status
  BY DEF Running

LEMMA RowFound ==
  ASSUME NEW r \in Running, NEW n \in {0, 1}
  PROVE  LET q == [r EXCEPT !.pc = "entitle", !.found = n] IN
         q \in Running /\ q.pc = "entitle" /\ q.told = r.told /\ q.id = r.id /\ q.key = r.key
         /\ q.found = n /\ q.status = r.status
  BY DEF Running

LEMMA RowStatus ==
  ASSUME NEW r \in Running, NEW st \in Status
  PROVE  LET q == [r EXCEPT !.pc = "subscription", !.status = st] IN
         q \in Running /\ q.pc = "subscription" /\ q.told = r.told /\ q.id = r.id /\ q.key = r.key
         /\ q.found = r.found /\ q.status = st
  BY DEF Running

LEMMA KeyType ==
  ASSUME TypeInv, NEW h \in Runner, Busy(h), NEW source \in Source
  PROVE  Key(h, source) \in Key2 /\ ProductOf[run[h].told.sub] \in Product /\ run[h].told.sub \in Sub
<1>1. run[h].told.sub \in Sub
  BY RunnerBusy DEF Running, Fact
<1>2. ProductOf[run[h].told.sub] \in Product
  BY <1>1, PaywallAssumption
<1> QED
  BY <1>1, <1>2 DEF Key, Key2

(* A run at work goes on with its event: what each of its steps makes of   *)
(* it, beside what the step does to the tables.                            *)
Worked(h, pc, key, status) ==
  /\ Busy(h) /\ run[h] \in Running
  /\ run' \in [Runner -> {Resting} \cup Running]
  /\ run'[h] \in Running /\ run'[h].pc = pc /\ run'[h].key = key /\ run'[h].status = status
  /\ run'[h].told = run[h].told /\ run'[h].id = run[h].id
  /\ \A g \in Runner \ {h} : run'[g] = run[g]
  /\ UNCHANGED <<stripe, events, audited, cookie>>

LEMMA WorkTo ==
  ASSUME TypeInv, NEW h \in Runner, Busy(h), NEW p \in Pc, To(h, p),
         UNCHANGED <<stripe, events, audited, cookie>>
  PROVE  Worked(h, p, run[h].key, run[h].status) /\ run'[h].found = run[h].found
<1> DEFINE q == [run[h] EXCEPT !.pc = p]
<1>1. Go(h, q) /\ run[h] \in Running
  BY RunnerBusy DEF To
<1>2. /\ q \in Running /\ q.pc = p /\ q.told = run[h].told /\ q.id = run[h].id /\ q.key = run[h].key
      /\ q.found = run[h].found /\ q.status = run[h].status
  BY <1>1, RowTo
<1> HIDE DEF q
<1> QED
  BY <1>1, <1>2, GoEffect DEF Worked

LEMMA WorkSeek ==
  ASSUME TypeInv, NEW h \in Runner, Busy(h), NEW source \in Source, Seek(h, source),
         UNCHANGED <<stripe, events, audited, cookie>>
  PROVE  Worked(h, "seek", Key(h, source), run[h].status)
<1> DEFINE k == Key(h, source)
           q == [run[h] EXCEPT !.pc = "seek", !.key = k]
<1>1. Go(h, q) /\ run[h] \in Running /\ k \in Key2
  BY RunnerBusy, KeyType DEF Seek
<1> HIDE DEF k
<1>2. /\ q \in Running /\ q.pc = "seek" /\ q.told = run[h].told /\ q.id = run[h].id /\ q.key = k
      /\ q.found = run[h].found /\ q.status = run[h].status
  BY <1>1, RowSeek
<1> HIDE DEF q
<1>3. Worked(h, "seek", k, run[h].status)
  BY <1>1, <1>2, GoEffect DEF Worked
<1> QED
  BY <1>3 DEF k

LEMMA AfterType ==
  ASSUME NEW h \in Runner
  PROVE  AfterEntitlement(h) \in Pc
  BY DEF AfterEntitlement, Pc

LEMMA WorkEffects ==
  ASSUME TypeInv, NEW h \in Runner
  PROVE  /\ UpsertUser(h) => Worked(h, "customer", run[h].key, run[h].status)
                             /\ run'[h].found = run[h].found
         /\ UpsertCustomer(h) => Worked(h, "seek", Key(h, Provisional), run[h].status)
         /\ Lookup(h) => Worked(h, IF run[h].told.sub \in customers THEN "subscription" ELSE "audit",
                                run[h].key, run[h].status)
         /\ SelectEntitlement(h) => Worked(h, "entitle", run[h].key, run[h].status)
                /\ run'[h].found = (IF rows[run[h].key] = <<>> THEN 0 ELSE 1)
         /\ WriteEntitlement(h) => Worked(h, AfterEntitlement(h), run[h].key, run[h].status)
         /\ Retrieve(h) => run[h].told.sub \in Sub /\ Worked(h, "subscription", run[h].key, stripe[run[h].told.sub])
         /\ UpsertSubscription(h) => Worked(h, "seek", Key(h, Paid), run[h].status)
         /\ Deactivate(h) => Worked(h, "audit", run[h].key, run[h].status)
         /\ SyncFails(h) => Worked(h, "audit", run[h].key, run[h].status)
<1>0. ASSUME NEW pc, At(h, pc), pc # "rest"
      PROVE  Busy(h)
  BY <1>0, RunnerBusy DEF At
<1>p. {Provisional, Paid} \subseteq Source
  BY DEF Source
<1>1. ASSUME UpsertUser(h)
      PROVE  Worked(h, "customer", run[h].key, run[h].status) /\ run'[h].found = run[h].found
  BY <1>0, <1>1, WorkTo DEF UpsertUser, Same, Pc
<1>2. ASSUME UpsertCustomer(h)
      PROVE  Worked(h, "seek", Key(h, Provisional), run[h].status)
  BY <1>0, <1>p, <1>2, WorkSeek DEF UpsertCustomer, Same
<1>3. ASSUME Lookup(h)
      PROVE  Worked(h, IF run[h].told.sub \in customers THEN "subscription" ELSE "audit",
                                run[h].key, run[h].status)
  BY <1>0, <1>3, WorkTo DEF Lookup, Same, Pc, tables
<1>4. ASSUME SelectEntitlement(h)
      PROVE  Worked(h, "entitle", run[h].key, run[h].status)
                /\ run'[h].found = (IF rows[run[h].key] = <<>> THEN 0 ELSE 1)
  <2>1. Busy(h)
    BY <1>0, <1>4 DEF SelectEntitlement
  <2> DEFINE n == IF rows[run[h].key] = <<>> THEN 0 ELSE 1
             q == [run[h] EXCEPT !.pc = "entitle", !.found = n]
  <2>2. n \in {0, 1} /\ Go(h, q)
    BY <1>4 DEF SelectEntitlement
  <2>3. q \in Running /\ q.pc = "entitle" /\ q.told = run[h].told /\ q.id = run[h].id
         /\ q.key = run[h].key /\ q.found = n /\ q.status = run[h].status
    BY <2>1, <2>2, RunnerBusy, RowFound
  <2> HIDE DEF q
  <2> QED
    BY <1>4, <2>1, <2>2, <2>3, RunnerBusy, GoEffect DEF SelectEntitlement, Worked, Same, tables
<1>5. ASSUME WriteEntitlement(h)
      PROVE  Worked(h, AfterEntitlement(h), run[h].key, run[h].status)
  BY <1>0, <1>5, AfterType, WorkTo DEF WriteEntitlement, Same
<1>6. ASSUME Retrieve(h)
      PROVE  run[h].told.sub \in Sub /\ Worked(h, "subscription", run[h].key, stripe[run[h].told.sub])
  <2>1. Busy(h)
    BY <1>0, <1>6 DEF Retrieve
  <2> DEFINE st == stripe[run[h].told.sub]
             q == [run[h] EXCEPT !.pc = "subscription", !.status = st]
  <2>2. st \in Status /\ Go(h, q) /\ run[h].told.sub \in Sub
    BY <1>6, <1>p, <2>1, KeyType DEF Retrieve, TypeInv, PaywallTypeOK, Status
  <2> HIDE DEF st
  <2>3. q \in Running /\ q.pc = "subscription" /\ q.told = run[h].told /\ q.id = run[h].id
         /\ q.key = run[h].key /\ q.found = run[h].found /\ q.status = st
    <3>1. run[h] \in Running /\ st \in Status
      BY <2>1, <2>2, RunnerBusy
    <3> QED
      BY <3>1, RowStatus
  <2> HIDE DEF q
  <2>4. Worked(h, "subscription", run[h].key, st)
    BY <1>6, <2>1, <2>2, <2>3, RunnerBusy, GoEffect DEF Retrieve, Worked, Same, tables
  <2> QED
    BY <2>2, <2>4 DEF st
<1>7. ASSUME UpsertSubscription(h)
      PROVE  Worked(h, "seek", Key(h, Paid), run[h].status)
  BY <1>0, <1>p, <1>7, WorkSeek DEF UpsertSubscription, Same
<1>8. ASSUME Deactivate(h)
      PROVE  Worked(h, "audit", run[h].key, run[h].status)
  BY <1>0, <1>8, WorkTo DEF Deactivate, Same, Pc
<1>9. ASSUME SyncFails(h)
      PROVE  Worked(h, "audit", run[h].key, run[h].status)
  <2>1. Busy(h)
    BY <1>9, RunnerBusy DEF SyncFails
  <2> QED
    BY <1>9, <2>1, WorkTo DEF SyncFails, Same, Pc, tables
<1> QED
  BY <1>1, <1>2, <1>3, <1>4, <1>5, <1>6, <1>7, <1>8, <1>9

-----------------------------------------------------------------------------
(* Stripe's steps, and the ends and starts of runs                         *)

(* Stripe tells of subscription s in events after all it has told.         *)
Tells(s, status, n) ==
  /\ s \in Sub /\ status \in Status \ {"none"} /\ n \in Nat
  /\ events \in Seq(Fact) /\ events' \in Seq(Fact) /\ Len(events') = Len(events) + n
  /\ \A i \in DOMAIN events : i \in DOMAIN events' /\ events'[i] = events[i]
  /\ \A i \in DOMAIN events' \ DOMAIN events :
       i > Len(events) /\ events'[i].sub = s /\ events'[i].status = status
  /\ stripe' = [stripe EXCEPT ![s] = status]
  /\ UNCHANGED <<tables, cookie, run>>

LEMMA TellOne ==
  ASSUME TypeInv, NEW s \in Sub, NEW status \in Status \ {"none"},
         NEW kind \in {"updated", "deleted", "invoice"},
         Tell(s, status, <<Told(kind, s, status)>>)
  PROVE  /\ Tells(s, status, 1)
         /\ events'[Len(events) + 1].kind = kind
<1> DEFINE f == Told(kind, s, status)
<1>1. f \in Fact /\ f.kind = kind /\ f.sub = s /\ f.status = status
  BY DEF Told, Fact
<1> HIDE DEF f
<1>2. events' = events \o <<f>> /\ stripe' = [stripe EXCEPT ![s] = status] /\ UNCHANGED <<tables, cookie, run>>
  BY DEF Tell, f
<1>3. events \in Seq(Fact)
  BY DEF TypeInv
<1>4. <<f>> \in Seq(Fact) /\ Len(<<f>>) = 1 /\ <<f>>[1] = f
  BY <1>1
<1>5. events' \in Seq(Fact) /\ Len(events') = Len(events) + 1
      /\ events'[Len(events) + 1] = f /\ \A i \in 1 .. Len(events) : events'[i] = events[i]
  BY <1>2, <1>3, <1>4
<1>6. DOMAIN events = 1 .. Len(events) /\ DOMAIN events' = 1 .. Len(events) + 1 /\ Len(events) \in Nat
  BY <1>3, <1>5
<1>7. \A i \in DOMAIN events' \ DOMAIN events : i = Len(events) + 1
  BY <1>6
<1> QED
  BY <1>1, <1>2, <1>3, <1>5, <1>6, <1>7 DEF Tells

LEMMA TellTwo ==
  ASSUME TypeInv, NEW s \in Sub,
         Tell(s, "active", <<Told("created", s, "active"), Told("checkout", s, "active")>>)
  PROVE  /\ Tells(s, "active", 2)
         /\ events'[Len(events) + 1].kind = "created"
         /\ events'[Len(events) + 2].kind = "checkout"
<1> DEFINE f == Told("created", s, "active")
           g == Told("checkout", s, "active")
<1>1. /\ f \in Fact /\ f.kind = "created" /\ f.sub = s /\ f.status = "active"
      /\ g \in Fact /\ g.kind = "checkout" /\ g.sub = s /\ g.status = "active"
  BY DEF Told, Fact, Status
<1> HIDE DEF f, g
<1>2. events' = events \o <<f, g>> /\ stripe' = [stripe EXCEPT ![s] = "active"] /\ UNCHANGED <<tables, cookie, run>>
  BY DEF Tell, f, g
<1>3. events \in Seq(Fact)
  BY DEF TypeInv
<1>4. <<f, g>> \in Seq(Fact) /\ Len(<<f, g>>) = 2 /\ <<f, g>>[1] = f /\ <<f, g>>[2] = g
  BY <1>1
<1>5. events' \in Seq(Fact) /\ Len(events') = Len(events) + 2
      /\ events'[Len(events) + 1] = f /\ events'[Len(events) + 2] = g
      /\ \A i \in 1 .. Len(events) : events'[i] = events[i]
  BY <1>2, <1>3, <1>4
<1>6. DOMAIN events = 1 .. Len(events) /\ DOMAIN events' = 1 .. Len(events) + 2 /\ Len(events) \in Nat
  BY <1>3, <1>5
<1>7. \A i \in DOMAIN events' \ DOMAIN events : i = Len(events) + 1 \/ i = Len(events) + 2
  BY <1>6
<1>8. "active" \in Status \ {"none"}
  BY DEF Status
<1> QED
  BY <1>1, <1>2, <1>3, <1>5, <1>6, <1>7, <1>8 DEF Tells

LEMMA StripeEffects ==
  ASSUME TypeInv, NEW s \in Sub
  PROVE  /\ Buy(s) => /\ stripe[s] = "none" /\ Tells(s, "active", 2)
                      /\ events'[Len(events) + 1].kind = "created"
                      /\ events'[Len(events) + 2].kind = "checkout"
         /\ \A st \in {"active", "past_due"} : Change(s, st) =>
               stripe[s] # "none" /\ Tells(s, st, 1) /\ events'[Len(events) + 1].kind = "updated"
         /\ Bill(s) =>
               stripe[s] # "none" /\ Tells(s, stripe[s], 1) /\ events'[Len(events) + 1].kind = "invoice"
         /\ End(s) =>
               stripe[s] # "none" /\ Tells(s, "canceled", 1) /\ events'[Len(events) + 1].kind = "deleted"
<1>0. /\ stripe[s] \in Status
      /\ {"active", "past_due", "canceled"} \subseteq Status \ {"none"}
  BY DEF TypeInv, PaywallTypeOK, Status
<1>1. ASSUME Buy(s)
      PROVE  /\ stripe[s] = "none" /\ Tells(s, "active", 2)
                      /\ events'[Len(events) + 1].kind = "created"
                      /\ events'[Len(events) + 2].kind = "checkout"
  BY <1>1, TellTwo DEF Buy
<1>2. ASSUME NEW st \in {"active", "past_due"}, Change(s, st)
      PROVE  stripe[s] # "none" /\ Tells(s, st, 1) /\ events'[Len(events) + 1].kind = "updated"
  <2>1. st \in Status \ {"none"}
    BY <1>0
  <2>2. <<stripe[s], st>> \in {<<"active", "past_due">>, <<"past_due", "active">>}
        /\ Tell(s, st, <<Told("updated", s, st)>>)
    BY <1>2 DEF Change
  <2>3. stripe[s] # "none"
    BY <2>2
  <2> QED
    BY <2>1, <2>2, <2>3, TellOne
<1>3. ASSUME Bill(s)
      PROVE  stripe[s] # "none" /\ Tells(s, stripe[s], 1) /\ events'[Len(events) + 1].kind = "invoice"
  <2>1. PICK st \in Status \ {"none"} : st = stripe[s]
    BY <1>0, <1>3 DEF Bill
  <2>2. Tell(s, st, <<Told("invoice", s, st)>>)
    BY <1>3, <2>1 DEF Bill
  <2>3. Tells(s, st, 1) /\ events'[Len(events) + 1].kind = "invoice"
    BY <2>2, TellOne
  <2> QED
    BY <2>1, <2>3
<1>4. ASSUME End(s)
      PROVE  stripe[s] # "none" /\ Tells(s, "canceled", 1) /\ events'[Len(events) + 1].kind = "deleted"
  BY <1>0, <1>4, TellOne DEF End
<1> QED
  BY <1>1, <1>2, <1>3, <1>4

(* What Stripe does, and what it does not: runs and tables stay.           *)
StripeActs == \E s \in Sub : Buy(s) \/ End(s) \/ Bill(s)
                               \/ \E st \in {"active", "past_due"} : Change(s, st)

LEMMA StripeTells ==
  ASSUME TypeInv, StripeActs
  PROVE  \E s \in Sub, st \in Status \ {"none"}, n \in {1, 2} :
           /\ Tells(s, st, n)
           /\ \/ n = 2 /\ stripe[s] = "none" /\ st = "active"
                 /\ events'[Len(events) + 1].kind = "created"
                 /\ events'[Len(events) + 2].kind = "checkout"
              \/ n = 1 /\ stripe[s] # "none"
                 /\ \/ events'[Len(events) + 1].kind = "invoice" /\ st = stripe[s]
                    \/ events'[Len(events) + 1].kind = "updated" /\ st \in {"active", "past_due"}
                    \/ events'[Len(events) + 1].kind = "deleted" /\ st = "canceled"
<1>1. PICK s \in Sub : Buy(s) \/ End(s) \/ Bill(s) \/ \E st \in {"active", "past_due"} : Change(s, st)
  BY DEF StripeActs
<1>2. stripe[s] \in Status /\ {"active", "past_due", "canceled"} \subseteq Status \ {"none"}
  BY DEF TypeInv, PaywallTypeOK, Status
<1> QED
  BY <1>1, <1>2, StripeEffects

-----------------------------------------------------------------------------
(* The handler's other steps *)
Ended(h) ==
  /\ Busy(h) /\ run' \in [Runner -> {Resting} \cup Running] /\ run'[h] = Resting
  /\ \A g \in Runner \ {h} : run'[g] = run[g]
  /\ UNCHANGED <<stripe, events, user, customers, subs, rows>>

LEMMA EndEffects ==
  ASSUME TypeInv, NEW h \in Runner
  PROVE  /\ Audit(h) => Ended(h) /\ audited' = audited \cup {run[h].id} /\ run[h].pc = "audit"
                        /\ UNCHANGED cookie
         /\ Invoice(h) => Ended(h) /\ audited' = audited \cup {run[h].id} /\ run[h].pc = "invoice"
                        /\ UNCHANGED cookie
         /\ LogIn(h) => Ended(h) /\ UNCHANGED audited /\ cookie' = TRUE /\ run[h].pc = "login"
         /\ Die(h) => Ended(h) /\ UNCHANGED <<audited, cookie>>
<1>1. Resting \in {Resting} \cup Running
  OBVIOUS
<1>2. (At(h, "audit") \/ At(h, "invoice") \/ At(h, "login") \/ ~At(h, "rest")) => Busy(h)
  BY RunnerBusy DEF At
<1> QED
  BY <1>1, <1>2, GoEffect DEF Audit, Invoice, Audited, LogIn, Die, At, Same, Ended, tables

Started(h, pc, told, id) ==
  /\ ~Busy(h) /\ run' \in [Runner -> {Resting} \cup Running]
  /\ run'[h] \in Running
  /\ run'[h] = [pc |-> pc, told |-> told, id |-> id, key |-> <<>>, found |-> 0, status |-> told.status]
  /\ \A g \in Runner \ {h} : run'[g] = run[g]
  /\ UNCHANGED <<stripe, events, audited, user, cookie, customers, subs, rows>>

LEMMA StartEffect ==
  ASSUME TypeInv, NEW h \in Runner, At(h, "rest"), NEW pc \in Pc, NEW told \in Fact, NEW id \in Nat,
         Start(h, pc, told, id), Same, UNCHANGED tables
  PROVE  Started(h, pc, told, id)
<1> DEFINE r == [pc |-> pc, told |-> told, id |-> id, key |-> <<>>, found |-> 0, status |-> told.status]
<1>1. r \in Running
  BY DEF Running, Fact, Pc
<1>2. Go(h, r)
  BY DEF Start
<1>3. ~Busy(h)
  BY RunnerBusy
<1> HIDE DEF r
<1>4. run' \in [Runner -> {Resting} \cup Running] /\ run'[h] = r /\ \A g \in Runner \ {h} : run'[g] = run[g]
  BY <1>1, <1>2, GoEffect
<1> QED
  BY <1>1, <1>3, <1>4 DEF Started, Same, tables, r

LEMMA ReceiveEffect ==
  ASSUME TypeInv, EventsTrue, NEW h \in Runner, NEW i \in DOMAIN events, Receive(h, i)
  PROVE  Started(h, FirstStep(events[i].kind), events[i], i) /\ Due(i) /\ i \in Nat /\ events[i] \in Fact
<1>1. events[i] \in Fact /\ i \in Nat
  BY DEF TypeInv
<1>2. events[i].kind # "verify"
  BY DEF EventsTrue, EventTrue
<1>3. FirstStep(events[i].kind) \in Pc
  BY DEF FirstStep, Pc
<1> QED
  BY <1>1, <1>3, StartEffect DEF Receive

LEMMA VerifyEffect ==
  ASSUME TypeInv, NEW v \in Runner, NEW s \in Sub, Verify(v, s)
  PROVE  Started(v, "user", Told("verify", s, stripe[s]), 0) /\ stripe[s] # "none"
<1>1. Told("verify", s, stripe[s]) \in Fact
  BY DEF Told, Fact, TypeInv, PaywallTypeOK, Status
<1>2. "user" \in Pc
  BY DEF Pc
<1> QED
  BY <1>1, <1>2, StartEffect DEF Verify

-----------------------------------------------------------------------------
(* Rows of entitlements                                                    *)

Has(q) == TRUE \in Range(q)
Written(q, n, b) == IF n = 0 THEN Append(q, b) ELSE [q EXCEPT ![n] = b]

LEMMA HasAt ==
  ASSUME NEW q \in Seq(BOOLEAN)
  PROVE  Has(q) <=> \E i \in 1 .. Len(q) : q[i] = TRUE
<1>1. DOMAIN q = 1 .. Len(q)
  OBVIOUS
<1> QED
  BY <1>1, Zenon DEF Has, Range

LEMMA WrittenType ==
  ASSUME NEW q \in Seq(BOOLEAN), NEW n \in {0, 1}, NEW b \in BOOLEAN
  PROVE  /\ Written(q, n, b) \in Seq(BOOLEAN)
         /\ q # <<>> \/ n = 0 => Written(q, n, b) # <<>>
<1>1. CASE n = 0
  <2>1. Written(q, n, b) = Append(q, b)
    BY <1>1 DEF Written
  <2> QED
    BY <1>1, <2>1
<1>2. CASE n = 1
  <2>1. Written(q, n, b) = [q EXCEPT ![1] = b]
    BY <1>2 DEF Written
  <2> QED
    BY <1>2, <2>1
<1> QED
  BY <1>1, <1>2

LEMMA WrittenHas ==
  ASSUME NEW q \in Seq(BOOLEAN), NEW n \in {0, 1}, NEW b \in BOOLEAN
  PROVE  /\ b = TRUE /\ (n = 0 \/ q # <<>>) => Has(Written(q, n, b))
         /\ b = FALSE /\ Has(Written(q, n, b)) => Has(q)
<1> DEFINE w == Written(q, n, b)
<1>0. w \in Seq(BOOLEAN)
  BY WrittenType
<1>1. CASE n = 0
  <2>1. w = Append(q, b)
    BY <1>1 DEF Written
  <2>2. Len(w) = Len(q) + 1 /\ w[Len(q) + 1] = b /\ \A i \in 1 .. Len(q) : w[i] = q[i]
    BY <2>1
  <2>3. Len(q) \in Nat
    OBVIOUS
  <2> HIDE DEF w
  <2>4. ASSUME b = TRUE
        PROVE  Has(w)
    <3>1. Len(q) + 1 \in 1 .. Len(w) /\ w[Len(q) + 1] = TRUE
      BY <2>2, <2>3, <2>4
    <3> QED
      BY <1>0, <3>1, HasAt, Zenon
  <2>5. ASSUME b = FALSE, Has(w)
        PROVE  Has(q)
    <3>1. PICK i \in 1 .. Len(w) : w[i] = TRUE
      BY <1>0, <2>5, HasAt
    <3>2. i # Len(q) + 1
      BY <2>2, <2>5, <3>1
    <3>3. i \in 1 .. Len(q)
      BY <2>2, <2>3, <3>1, <3>2
    <3> QED
      BY <2>2, <3>1, <3>3, HasAt
  <2> QED
    BY <2>4, <2>5, Zenon DEF w
<1>2. CASE n = 1
  <2>1. w = [q EXCEPT ![1] = b]
    BY <1>2 DEF Written
  <2>2. Len(w) = Len(q) /\ \A i \in 1 .. Len(q) : w[i] = (IF i = 1 THEN b ELSE q[i])
    BY <2>1
  <2>3. Len(q) \in Nat /\ (q # <<>> => Len(q) > 0)
    OBVIOUS
  <2> HIDE DEF w
  <2>4. ASSUME b = TRUE, q # <<>>
        PROVE  Has(w)
    <3>1. 1 \in 1 .. Len(q)
      BY <2>3, <2>4
    <3>2. w[1] = b
      BY <2>2, <3>1
    <3>3. 1 \in 1 .. Len(w) /\ w[1] = TRUE
      BY <2>2, <2>4, <3>1, <3>2
    <3> QED
      BY <1>0, <3>3, HasAt, Zenon
  <2>5. ASSUME b = FALSE, Has(w)
        PROVE  Has(q)
    <3>1. PICK i \in 1 .. Len(w) : w[i] = TRUE
      BY <1>0, <2>5, HasAt
    <3>2. i # 1
      BY <2>2, <2>5, <3>1
    <3>3. i \in 1 .. Len(q) /\ q[i] = TRUE
      BY <2>2, <2>3, <3>1, <3>2
    <3> QED
      BY <3>3, HasAt
  <2>6. n # 0
    BY <1>2
  <2> QED
    BY <2>4, <2>5, <2>6, Zenon DEF w
<1> QED
  BY <1>1, <1>2

LEMMA OffHas ==
  ASSUME NEW q \in Seq(BOOLEAN)
  PROVE  Off(q) \in Seq(BOOLEAN) /\ ~Has(Off(q))
<1>1. Off(q) = [i \in 1 .. Len(q) |-> FALSE] /\ Len(q) \in Nat
  BY DEF Off
<1>2. Off(q) \in Seq(BOOLEAN)
  BY <1>1
<1>3. \A i \in 1 .. Len(q) : Off(q)[i] = FALSE
  BY <1>1
<1>4. Len(Off(q)) = Len(q)
  BY <1>1
<1> QED
  BY <1>2, <1>3, <1>4, HasAt

LEMMA OpenHas == \A p, source : Open(p, source) <=> Has(rows[<<p, source>>])
  BY DEF Open, Has

(* The row an entitlement is written to *)
LEMMA KeyHeld ==
  ASSUME TypeInv, EventsTrue, Runs, NEW h \in Runner, Busy(h), run[h].pc \in {"seek", "entitle"}
  PROVE  /\ run[h].key \in Key2 /\ run[h].key \in {Key(h, Provisional), Key(h, Paid)}
         /\ h \in Visitor => run[h].key = Key(h, Provisional)
<1>1. {Provisional, Paid} \subseteq Source
  BY DEF Source
<1>2. Key(h, Provisional) \in Key2 /\ Key(h, Paid) \in Key2
  BY <1>1, KeyType
<1>3. CASE h \in Visitor
  BY <1>2, <1>3 DEF Runs, VisitorRuns
<1>4. CASE h \in Handler
  <2>1. HandlerRuns(h)
    BY <1>4 DEF Runs
  <2>2. run[h].id \in DOMAIN events /\ run[h].told = events[run[h].id]
    BY <2>1 DEF HandlerRuns
  <2>3. run[h].told.kind \in {"created", "checkout", "updated", "deleted", "invoice", "verify"}
    BY RunnerBusy DEF Running, Fact
  <2>4. run[h].told.kind = "checkout" => run[h].key \in {Key(h, Provisional), Key(h, Paid)}
    BY <2>1 DEF HandlerRuns
  <2>5. run[h].told.kind \in {"created", "updated", "deleted"} => run[h].key = Key(h, Paid)
    BY <2>1, <2>2 DEF HandlerRuns, IsChange
  <2>6. run[h].told.kind # "invoice"
    BY <2>1 DEF HandlerRuns
  <2>7. run[h].told.kind # "verify"
    BY <2>2 DEF EventsTrue, EventTrue
  <2> QED
    BY <1>2, <1>4, <2>3, <2>4, <2>5, <2>6, <2>7, PaywallAssumption
<1> QED
  BY <1>3, <1>4 DEF Runner

-----------------------------------------------------------------------------
(* The effects on the tables                                               *)

TypeParts ==
  /\ stripe \in [Sub -> Status] /\ subs \in [Sub -> Status]
  /\ events \in Seq(Fact) /\ rows \in [Key2 -> Seq(BOOLEAN)]
  /\ run \in [Runner -> {Resting} \cup Running]
  /\ user \in BOOLEAN /\ cookie \in BOOLEAN
  /\ audited \subseteq DOMAIN events /\ customers \subseteq Sub

LEMMA TypeIsParts == TypeInv <=> TypeParts
<1>1. ASSUME TypeParts
      PROVE  TypeInv
  BY <1>1 DEF TypeParts, TypeInv, PaywallTypeOK, Status, Key2, Runner
<1>2. ASSUME TypeInv
      PROVE  TypeParts
  BY <1>2 DEF TypeParts, TypeInv, PaywallTypeOK, Status, Key2, Runner
<1> QED
  BY <1>1, <1>2

LEMMA WriteEffect ==
  ASSUME TypeInv, EventsTrue, Runs, NEW h \in Runner, WriteEntitlement(h)
  PROVE  /\ Busy(h) /\ run[h].pc = "entitle" /\ run[h].key \in Key2 /\ run[h].found \in {0, 1}
         /\ Granted(h) \in BOOLEAN
         /\ rows[run[h].key] \in Seq(BOOLEAN)
         /\ rows' = [rows EXCEPT ![run[h].key] = Written(rows[run[h].key], run[h].found, Granted(h))]
         /\ UNCHANGED <<user, customers, subs>>
<1>1. Worked(h, AfterEntitlement(h), run[h].key, run[h].status)
  BY WorkEffects
<1>2. Busy(h) /\ run[h].pc = "entitle" /\ run[h] \in Running
  BY <1>1 DEF WriteEntitlement, At, Worked
<1>3. run[h].key \in Key2 /\ run[h].found \in {0, 1}
  BY <1>2, KeyHeld DEF Running
<1>4. Granted(h) \in BOOLEAN
  BY DEF Granted
<1>5. rows[run[h].key] \in Seq(BOOLEAN)
  BY <1>3 DEF TypeInv
<1>6. rows' = [rows EXCEPT ![run[h].key] = Written(rows[run[h].key], run[h].found, Granted(h))]
  <2>1. run[h].found = 0 => Written(rows[run[h].key], run[h].found, Granted(h))
                              = Append(rows[run[h].key], Granted(h))
    BY DEF Written
  <2>2. run[h].found # 0 => Written(rows[run[h].key], run[h].found, Granted(h))
                              = [rows[run[h].key] EXCEPT ![run[h].found] = Granted(h)]
    BY DEF Written
  <2> QED
    BY <2>1, <2>2, Zenon DEF WriteEntitlement
<1> QED
  BY <1>2, <1>3, <1>4, <1>5, <1>6 DEF WriteEntitlement

LEMMA DeactivateEffect ==
  ASSUME TypeInv, NEW h \in Runner, Deactivate(h)
  PROVE  /\ run[h].pc \in {"retire", "revoke"}
         /\ rows' \in [Key2 -> Seq(BOOLEAN)]
         /\ \A k \in Key2 :
              \/ rows'[k] = rows[k] /\ k # Key(h, Provisional)
                 /\ (run[h].pc = "revoke" => k # Key(h, Paid))
              \/ ~Has(rows'[k]) /\ (k = Key(h, Provisional) \/ (run[h].pc = "revoke" /\ k = Key(h, Paid)))
         /\ UNCHANGED <<user, customers, subs>>
<1> DEFINE off(k) == k = Key(h, Provisional) \/ (At(h, "revoke") /\ k = Key(h, Paid))
<1>0. rows \in [Key2 -> Seq(BOOLEAN)]
  BY DEF TypeInv
<1>1. rows' = [k \in Key2 |-> IF off(k) THEN Off(rows[k]) ELSE rows[k]]
  BY <1>0 DEF Deactivate
<1>2. At(h, "revoke") <=> run[h].pc = "revoke"
  BY DEF At
<1>3. \A k \in Key2 : Off(rows[k]) \in Seq(BOOLEAN) /\ ~Has(Off(rows[k]))
  BY <1>0, OffHas
<1>4. rows' \in [Key2 -> Seq(BOOLEAN)]
  BY <1>0, <1>1, <1>3
<1>5. ASSUME NEW k \in Key2
      PROVE  \/ rows'[k] = rows[k] /\ ~off(k)
             \/ ~Has(rows'[k]) /\ off(k)
  BY <1>1, <1>3
<1>6. run[h].pc \in {"retire", "revoke"} /\ UNCHANGED <<user, customers, subs>>
  BY DEF Deactivate, At
<1> QED
  BY <1>2, <1>4, <1>5, <1>6

LEMMA TypeStep ==
  ASSUME TypeInv, EventsTrue, Runs, Next
  PROVE  TypeInv'
<1>0. TypeParts
  BY TypeIsParts
<1> SUFFICES TypeParts'
  BY TypeIsParts, PTL
<1>1. ASSUME StripeActs
      PROVE  TypeParts'
  <2>1. PICK s \in Sub, st \in Status \ {"none"}, n \in {1, 2} : Tells(s, st, n)
    BY <1>1, StripeTells
  <2> QED
    BY <1>0, <2>1 DEF Tells, TypeParts, tables
<1>2. ASSUME NEW h \in Handler, NEW i \in DOMAIN events, Receive(h, i)
      PROVE  TypeParts'
  BY <1>0, <1>2, ReceiveEffect DEF Started, TypeParts, Runner
<1>3. ASSUME NEW v \in Visitor, NEW s \in Sub, Verify(v, s)
      PROVE  TypeParts'
  BY <1>0, <1>3, VerifyEffect DEF Started, TypeParts, Runner
<1>4. ASSUME NEW h \in Runner, \/ UpsertUser(h) \/ Lookup(h) \/ SelectEntitlement(h) \/ Retrieve(h)
                               \/ SyncFails(h)
      PROVE  TypeParts'
  <2>1. \E pc, key, status : Worked(h, pc, key, status)
    BY <1>4, WorkEffects, Zenon
  <2> QED
    BY <1>0, <1>4, <2>1 DEF Worked, TypeParts, UpsertUser, Lookup, SelectEntitlement, Retrieve,
         SyncFails, tables
<1>5. ASSUME NEW h \in Runner, UpsertCustomer(h)
      PROVE  TypeParts'
  <2>1. Worked(h, "seek", Key(h, Provisional), run[h].status)
    BY <1>5, WorkEffects
  <2>2. run[h].told.sub \in Sub
    BY <2>1 DEF Worked, Running, Fact
  <2> QED
    BY <1>0, <1>5, <2>1, <2>2 DEF Worked, TypeParts, UpsertCustomer
<1>6. ASSUME NEW h \in Runner, WriteEntitlement(h)
      PROVE  TypeParts'
  <2>1. Worked(h, AfterEntitlement(h), run[h].key, run[h].status)
    BY <1>6, WorkEffects
  <2>2. rows' \in [Key2 -> Seq(BOOLEAN)]
    <3> DEFINE w == Written(rows[run[h].key], run[h].found, Granted(h))
    <3>1. w \in Seq(BOOLEAN)
      BY <1>6, WriteEffect, WrittenType
    <3>2. rows' = [rows EXCEPT ![run[h].key] = w] /\ rows \in [Key2 -> Seq(BOOLEAN)]
      BY <1>0, <1>6, WriteEffect DEF TypeParts
    <3> HIDE DEF w
    <3> QED
      BY <3>1, <3>2
  <2> QED
    BY <1>0, <1>6, <2>1, <2>2, WriteEffect DEF Worked, TypeParts
<1>7. ASSUME NEW h \in Runner, UpsertSubscription(h)
      PROVE  TypeParts'
  <2>1. Worked(h, "seek", Key(h, Paid), run[h].status)
    BY <1>7, WorkEffects
  <2>2. run[h].status \in Status
    BY <2>1 DEF Worked, Running
  <2> QED
    BY <1>0, <1>7, <2>1, <2>2 DEF Worked, TypeParts, UpsertSubscription
<1>8. ASSUME NEW h \in Runner, Deactivate(h)
      PROVE  TypeParts'
  <2>1. Worked(h, "audit", run[h].key, run[h].status)
    BY <1>8, WorkEffects
  <2> QED
    BY <1>0, <1>8, <2>1, DeactivateEffect DEF Worked, TypeParts
<1>9. ASSUME NEW h \in Runner, Audit(h) \/ Invoice(h)
      PROVE  TypeParts'
  <2>1. Ended(h) /\ audited' = audited \cup {run[h].id} /\ UNCHANGED cookie /\ run[h].pc \in {"audit", "invoice"}
    BY <1>9, EndEffects
  <2>2. run[h].id \in DOMAIN events
    BY <2>1 DEF Ended, Runs, VisitorRuns, HandlerRuns, Runner
  <2> QED
    BY <1>0, <2>1, <2>2 DEF Ended, TypeParts
<1>10. ASSUME NEW h \in Runner, LogIn(h) \/ Die(h)
       PROVE  TypeParts'
  <2>1. Ended(h) /\ UNCHANGED audited /\ cookie' \in BOOLEAN
    BY <1>0, <1>10, EndEffects DEF TypeParts
  <2> QED
    BY <1>0, <2>1 DEF Ended, TypeParts
<1>11. ASSUME CookieLapses
       PROVE  TypeParts'
  BY <1>0, <1>11 DEF CookieLapses, TypeParts, tables
<1> QED
  BY <1>1, <1>2, <1>3, <1>4, <1>5, <1>6, <1>7, <1>8, <1>9, <1>10, <1>11
     DEF Next, StripeActs, Runner

-----------------------------------------------------------------------------
(* Only Stripe changes what has been told. *)
LEMMA OnlyStripe ==
  ASSUME TypeInv, EventsTrue, Next, ~StripeActs
  PROVE  UNCHANGED <<stripe, events>>
<1>2. ASSUME NEW h \in Handler, NEW i \in DOMAIN events, Receive(h, i)
      PROVE  UNCHANGED <<stripe, events>>
  BY <1>2 DEF Receive, Same
<1>3. ASSUME NEW v \in Visitor, NEW s \in Sub, Verify(v, s)
      PROVE  UNCHANGED <<stripe, events>>
  BY <1>3 DEF Verify, Same
<1>4. ASSUME NEW h \in Runner, \/ UpsertUser(h) \/ Lookup(h) \/ SelectEntitlement(h) \/ Retrieve(h)
                               \/ SyncFails(h) \/ UpsertCustomer(h) \/ WriteEntitlement(h)
                               \/ UpsertSubscription(h) \/ Deactivate(h) \/ Audit(h) \/ Invoice(h)
                               \/ LogIn(h) \/ Die(h)
      PROVE  UNCHANGED <<stripe, events>>
  BY <1>4 DEF UpsertUser, Lookup, SelectEntitlement, Retrieve, SyncFails, UpsertCustomer,
       WriteEntitlement, UpsertSubscription, Deactivate, Audit, Invoice, Audited, LogIn, Die, Same
<1>5. ASSUME CookieLapses
      PROVE  UNCHANGED <<stripe, events>>
  BY <1>5 DEF CookieLapses
<1> QED
  BY <1>2, <1>3, <1>4, <1>5 DEF Next, StripeActs, Runner

(* A status Stripe has, or has corrected, stays so. *)
LEMMA ComingStays ==
  ASSUME TypeInv, EventsTrue, Next, NEW s \in Sub, NEW i \in DOMAIN events,
         NEW st \in Status \ {"none"}, stripe[s] # "none", st = stripe[s] \/ Coming(s, i)
  PROVE  st = stripe'[s] \/ Coming(s, i)'
<1>1. CASE ~StripeActs
  BY <1>1, OnlyStripe DEF Coming, News, IsChange
<1>2. CASE StripeActs
  <2>1. PICK z \in Sub, new \in Status \ {"none"}, n \in {1, 2} :
           /\ Tells(z, new, n)
           /\ \/ stripe[z] = "none"
              \/ n = 1 /\ \/ events'[Len(events) + 1].kind = "invoice" /\ new = stripe[z]
                          \/ events'[Len(events) + 1].kind \in {"updated", "deleted"}
    BY <1>2, StripeTells
  <2>2. stripe \in [Sub -> Status] /\ i \in Nat /\ i <= Len(events)
    BY DEF TypeInv, PaywallTypeOK, Status
  <2>3. CASE stripe'[s] = stripe[s]
    <3>1. \A j \in DOMAIN events : News(j, s) => j \in DOMAIN events' /\ News(j, s)'
      BY <2>1, <2>3 DEF News, IsChange, Tells
    <3> QED
      BY <2>1, <2>3, <3>1 DEF Coming
  <2>4. CASE stripe'[s] # stripe[s]
    <3>1. z = s /\ stripe'[s] = new /\ new # stripe[s]
      BY <2>1, <2>2, <2>4 DEF Tells
    <3>0. PICK j \in Nat : j = Len(events) + 1
      BY <2>2
    <3>2. n = 1 /\ events'[j].kind \in {"updated", "deleted"}
      BY <2>1, <3>0, <3>1
    <3>3. j \in DOMAIN events' \ DOMAIN events
      BY <2>1, <2>2, <3>0, <3>2 DEF Tells
    <3>4. events'[j].sub = s /\ events'[j].status = new /\ j > i
      BY <2>1, <2>2, <3>0, <3>1, <3>3 DEF Tells
    <3>5. News(j, s)'
      BY <3>1, <3>2, <3>4 DEF News, IsChange
    <3> QED
      BY <3>3, <3>4, <3>5 DEF Coming
  <2> QED
    BY <2>3, <2>4
<1> QED
  BY <1>1, <1>2

-----------------------------------------------------------------------------
(* Events                                                                  *)

LEMMA StripeStays ==
  ASSUME TypeInv, EventsTrue, Next, NEW s \in Sub, stripe[s] # "none"
  PROVE  stripe'[s] # "none"
<1>1. CASE ~StripeActs
  BY <1>1, OnlyStripe
<1>2. CASE StripeActs
  <2>1. PICK z \in Sub, new \in Status \ {"none"}, n \in {1, 2} : Tells(z, new, n)
    BY <1>2, StripeTells
  <2> QED
    BY <2>1 DEF Tells, TypeInv, PaywallTypeOK
<1> QED
  BY <1>1, <1>2

LEMMA EventsStep ==
  ASSUME TypeInv, EventsTrue, Next
  PROVE  EventsTrue'
<1>0. \A i \in DOMAIN events : i \in Nat /\ i <= Len(events) /\ events[i] \in Fact /\ events[i].sub \in Sub
                                 /\ events[i].status \in Status
  <2>1. \A i \in DOMAIN events : i \in Nat /\ i <= Len(events) /\ events[i] \in Fact
    BY DEF TypeInv
  <2>2. \A f \in Fact : f.sub \in Sub /\ f.status \in Status
    BY DEF Fact
  <2> QED
    BY <2>1, <2>2
<1>t. stripe \in [Sub -> Status]
  BY DEF TypeInv, PaywallTypeOK, Status
<1>1. CASE ~StripeActs
  BY <1>1, OnlyStripe DEF EventsTrue, EventTrue, Coming, News, IsChange
<1>2. CASE StripeActs
  <2>1. PICK z \in Sub, new \in Status \ {"none"}, n \in {1, 2} :
           /\ Tells(z, new, n)
           /\ \/ n = 2 /\ stripe[z] = "none" /\ new = "active"
                 /\ events'[Len(events) + 1].kind = "created"
                 /\ events'[Len(events) + 2].kind = "checkout"
              \/ n = 1 /\ stripe[z] # "none"
                 /\ \/ events'[Len(events) + 1].kind = "invoice" /\ new = stripe[z]
                    \/ events'[Len(events) + 1].kind = "updated" /\ new \in {"active", "past_due"}
                    \/ events'[Len(events) + 1].kind = "deleted" /\ new = "canceled"
    BY <1>2, StripeTells
  <2>2. /\ \A i \in DOMAIN events : i \in DOMAIN events' /\ events'[i] = events[i]
        /\ \A i \in DOMAIN events' \ DOMAIN events :
             i > Len(events) /\ events'[i].sub = z /\ events'[i].status = new
        /\ stripe'[z] = new
        /\ Len(events) \in Nat /\ Len(events') = Len(events) + n
        /\ DOMAIN events' = 1 .. Len(events')
    BY <2>1, <1>t DEF Tells
  <2>3. ASSUME NEW i \in DOMAIN events
        PROVE  EventTrue(i)'
    <3> DEFINE s == events[i].sub
    <3>1. EventTrue(i) /\ s \in Sub /\ events'[i] = events[i]
      BY <1>0, <2>2 DEF EventsTrue
    <3>2. stripe'[events[i].sub] # "none"
      BY <3>1, StripeStays DEF EventTrue
    <3>3. events[i].kind = "created" \/ IsChange(i) =>
            events[i].status = stripe'[events[i].sub] \/ Coming(events[i].sub, i)'
      <4>1. PICK z0 \in Sub : z0 = events[i].sub
        BY <3>1
      <4>2. PICK st \in Status \ {"none"} : st = events[i].status
        BY <1>0, <3>1 DEF EventTrue
      <4>3. events[i].kind = "created" \/ IsChange(i) => st = stripe[z0] \/ Coming(z0, i)
        BY <3>1, <4>1, <4>2 DEF EventTrue
      <4>4. stripe[z0] # "none"
        BY <3>1, <4>1 DEF EventTrue
      <4>5. events[i].kind = "created" \/ IsChange(i) => st = stripe'[z0] \/ Coming(z0, i)'
        BY <4>3, <4>4, ComingStays
      <4> QED
        BY <3>1, <4>1, <4>2, <4>5 DEF Coming, News
    <3>4. IsChange(i) => \E j \in DOMAIN events' :
            j < i /\ events'[j].sub = events[i].sub /\ events'[j].kind = "checkout"
      BY <2>2, <3>1 DEF EventTrue
    <3>5. events[i].kind = "created" => \E j \in DOMAIN events' :
            j > i /\ events'[j].sub = events[i].sub /\ events'[j].kind = "checkout"
      BY <2>2, <3>1 DEF EventTrue
    <3>6. PICK f : f = events[i] /\ f = events'[i]
      BY <3>1
    <3>7. /\ f.kind # "verify" /\ f.status # "none"
          /\ f.kind \in {"created", "checkout"} => f.status = "active"
          /\ f.kind = "deleted" => f.status = "canceled"
      BY <3>1, <3>6 DEF EventTrue
    <3>8. PICK zz \in Sub : zz = f.sub
      BY <3>1, <3>6
    <3>9. Coming(events[i].sub, i)' => Coming(zz, i)'
      BY <3>6, <3>8 DEF Coming, News
    <3> QED
      BY <3>2, <3>3, <3>4, <3>5, <3>6, <3>7, <3>8, <3>9 DEF EventTrue, IsChange, Coming, News
  <2>4. ASSUME NEW i \in DOMAIN events' \ DOMAIN events
        PROVE  EventTrue(i)'
    <3>1. events'[i].sub = z /\ events'[i].status = new /\ stripe'[z] = new /\ new # "none"
          /\ i > Len(events) /\ i \in 1 .. Len(events) + n
      BY <2>2
    <3>2. /\ events'[i].kind # "verify"
          /\ events'[i].kind \in {"created", "checkout"} => new = "active"
          /\ events'[i].kind = "deleted" => new = "canceled"
          /\ events'[i].kind \in {"updated", "deleted"} => stripe[z] # "none"
          /\ events'[i].kind = "created" => n = 2 /\ i = Len(events) + 1
      <4>1. i = Len(events) + 1 \/ (n = 2 /\ i = Len(events) + 2)
        BY <2>2, <3>1
      <4> QED
        BY <2>1, <2>2, <4>1
    <3>3. events'[i].kind \in {"updated", "deleted"} => \E j \in DOMAIN events' :
            j < i /\ events'[j].sub = z /\ events'[j].kind = "checkout"
      BY <1>0, <2>2, <3>1, <3>2 DEF EventsTrue
    <3>4. events'[i].kind = "created" => \E j \in DOMAIN events' :
            j > i /\ events'[j].sub = z /\ events'[j].kind = "checkout"
      <4>1. SUFFICES ASSUME events'[i].kind = "created"
                     PROVE  \E j \in DOMAIN events' :
                              j > i /\ events'[j].sub = z /\ events'[j].kind = "checkout"
        OBVIOUS
      <4>2. n = 2 /\ i = Len(events) + 1
        BY <3>2, <4>1
      <4>3. i + 1 = Len(events) + 2 /\ events'[i + 1].kind = "checkout"
        BY <2>1, <2>2, <4>2
      <4>4. i + 1 \in DOMAIN events' \ DOMAIN events
        BY <1>0, <2>2, <4>2, <4>3
      <4> QED
        BY <2>2, <3>1, <4>3, <4>4
    <3> QED
      BY <3>1, <3>2, <3>3, <3>4 DEF EventTrue, IsChange
  <2>5. ASSUME NEW s \in Sub, stripe'[s] # "none"
        PROVE  \E j \in DOMAIN events' : events'[j].sub = s /\ events'[j].kind = "checkout"
    <3>1. CASE stripe[s] # "none"
      BY <2>2, <3>1 DEF EventsTrue
    <3>2. CASE stripe[s] = "none"
      <4>1. s = z /\ n = 2
        BY <1>t, <2>1, <2>5, <3>2 DEF Tells
      <4>2. Len(events) + 2 \in DOMAIN events' \ DOMAIN events
        BY <1>0, <2>2, <4>1
      <4> QED
        BY <2>1, <2>2, <4>1, <4>2
    <3> QED
      BY <3>1, <3>2
  <2> QED
    BY <2>3, <2>4, <2>5 DEF EventsTrue
<1> QED
  BY <1>1, <1>2

-----------------------------------------------------------------------------
(* Runs                                                                    *)

LEMMA SubEverBought ==
  ASSUME TypeInv, EventsTrue, Runs, Next, NEW h \in Runner, Busy(h)
  PROVE  stripe'[run[h].told.sub] # "none"
<1>1. run[h].told.sub \in Sub
  BY RunnerBusy DEF Running, Fact
<1>2. stripe[run[h].told.sub] # "none"
  BY DEF Runs
<1> QED
  BY <1>1, <1>2, StripeStays

(* Whose steps leave the others' runs what they were *)
LEMMA OthersRun ==
  ASSUME TypeInv, EventsTrue, Runs, Next, NEW h \in Runner,
         UNCHANGED <<stripe, events, audited>>, user => user', customers \subseteq customers',
         \A g \in Runner \ {h} : run'[g] = run[g],
         Busy(h)' => stripe[run'[h].told.sub] # "none",
         h \in Visitor /\ Busy(h)' => VisitorRuns(h)',
         h \in Handler /\ Busy(h)' => HandlerRuns(h)'
  PROVE  Runs'
<1>1. ASSUME NEW g \in Runner, Busy(g)'
      PROVE  stripe'[run'[g].told.sub] # "none"
  BY <1>1 DEF Runs, Busy
<1>2. ASSUME NEW v \in Visitor, Busy(v)'
      PROVE  VisitorRuns(v)'
  BY <1>2 DEF Runs, Busy, VisitorRuns, Key, Runner
<1>3. ASSUME NEW g \in Handler, Busy(g)'
      PROVE  HandlerRuns(g)'
  <2>1. CASE g = h
    BY <1>3, <2>1
  <2>2. CASE g # h
    BY <1>3, <2>2 DEF Runs, Busy, HandlerRuns, Key, Runner, IsChange
  <2> QED
    BY <2>1, <2>2
<1>4. \A i \in audited' : events'[i].kind = "checkout" => events'[i].sub \in customers'
  BY DEF Runs
<1> QED
  BY <1>1, <1>2, <1>3, <1>4 DEF Runs

LEMMA WorkedRuns ==
  ASSUME TypeInv, EventsTrue, Runs, Next, NEW h \in Runner, NEW pc, NEW key, NEW status,
         Worked(h, pc, key, status), user => user', customers \subseteq customers',
         h \in Visitor => VisitorRuns(h)', h \in Handler => HandlerRuns(h)'
  PROVE  Runs'
<1>1. UNCHANGED <<stripe, events, audited>> /\ Busy(h) /\ run'[h].told = run[h].told
      /\ \A g \in Runner \ {h} : run'[g] = run[g]
  BY DEF Worked
<1>2. Busy(h)' => stripe[run'[h].told.sub] # "none"
  BY <1>1 DEF Runs
<1> QED
  BY <1>1, <1>2, OthersRun

(* A handler goes on with an event it has. *)
LEMMA HandlerGoes ==
  ASSUME NEW h, NEW pc, NEW key, NEW status, HandlerRuns(h), Worked(h, pc, key, status),
         run[h].told.kind = "checkout" =>
            /\ pc \in {"user", "customer", "seek", "entitle", "retrieve", "subscription", "retire", "audit"}
            /\ pc \in {"seek", "entitle"} => key \in {Key(h, Provisional), Key(h, Paid)}
            /\ pc \in {"user", "customer"} => key = <<>>
            /\ pc \in {"retrieve", "subscription"} => key = Key(h, Provisional)
            /\ pc = "retire" => key = Key(h, Paid)
            /\ pc \notin {"user", "customer"} => run[h].told.sub \in customers'
            /\ pc # "user" => user',
         run[h].told.kind # "invoice",
         run[h].told.kind = "created" \/ IsChange(run[h].id) =>
            /\ pc \in {"lookup", "subscription", "seek", "entitle", "revoke", "audit"}
            /\ pc \in {"seek", "entitle", "revoke"} => key = Key(h, Paid)
            /\ status = run[h].status
            /\ pc = "revoke" => IsChange(run[h].id)
  PROVE  HandlerRuns(h)'
<1>1. /\ run'[h].pc = pc /\ run'[h].key = key /\ run'[h].status = status
      /\ run'[h].told = run[h].told /\ run'[h].id = run[h].id
      /\ UNCHANGED <<events, audited>>
  BY DEF Worked
<1>2. Key(h, Provisional)' = Key(h, Provisional) /\ Key(h, Paid)' = Key(h, Paid)
  BY <1>1 DEF Key
<1>3. IsChange(run[h].id)' <=> IsChange(run[h].id)
  BY <1>1 DEF IsChange
<1> QED
  BY <1>1, <1>2, <1>3 DEF HandlerRuns, IsChange

LEMMA KeyNotEmpty == \A h, source : Key(h, source) # <<>>
  BY DEF Key

(* Which events bring a handler where *)
LEMMA HandlerAt ==
  ASSUME TypeInv, EventsTrue, Runs, NEW h \in Handler, Busy(h)
  PROVE  /\ HandlerRuns(h) /\ run[h].id \in DOMAIN events /\ run[h].told = events[run[h].id]
         /\ run[h].told.kind \in {"created", "checkout", "updated", "deleted", "invoice"}
         /\ IsChange(run[h].id) <=> run[h].told.kind \in {"updated", "deleted"}
         /\ run[h].pc \in {"user", "customer", "retrieve", "retire"} => run[h].told.kind = "checkout"
         /\ run[h].pc = "lookup" => run[h].told.kind \in {"created", "updated", "deleted"}
         /\ run[h].pc = "revoke" => run[h].told.kind \in {"updated", "deleted"}
         /\ run[h].pc \in {"subscription", "seek", "entitle", "audit"} =>
              run[h].told.kind \in {"created", "checkout", "updated", "deleted"}
         /\ run[h].pc = "invoice" => run[h].told.kind = "invoice"
         /\ run[h].pc # "login"
<1>1. h \in Runner
  BY DEF Runner
<1>2. HandlerRuns(h)
  BY DEF Runs
<1>3. run[h].id \in DOMAIN events /\ run[h].told = events[run[h].id]
  BY <1>2 DEF HandlerRuns
<1>4. run[h].told.kind \in {"created", "checkout", "updated", "deleted", "invoice", "verify"}
  BY <1>1, RunnerBusy DEF Running, Fact
<1>5. run[h].told.kind # "verify"
  BY <1>3 DEF EventsTrue, EventTrue
<1>6. IsChange(run[h].id) <=> run[h].told.kind \in {"updated", "deleted"}
  BY <1>3 DEF IsChange
<1>7. /\ run[h].told.kind = "checkout" =>
       run[h].pc \in {"user", "customer", "seek", "entitle", "retrieve", "subscription", "retire", "audit"}
      /\ run[h].told.kind = "invoice" => run[h].pc = "invoice"
      /\ run[h].told.kind \in {"created", "updated", "deleted"} =>
         run[h].pc \in {"lookup", "subscription", "seek", "entitle", "revoke", "audit"}
      /\ run[h].told.kind = "created" => run[h].pc # "revoke"
  BY <1>2, <1>6 DEF HandlerRuns
<1> QED
  BY <1>2, <1>3, <1>4, <1>5, <1>6, <1>7

LEMMA VisitorGoes ==
  ASSUME NEW h, NEW pc, NEW key, NEW status, VisitorRuns(h), Worked(h, pc, key, status),
         pc \in {"customer", "seek", "entitle", "login"},
         pc \in {"seek", "entitle"} => key = Key(h, Provisional), user'
  PROVE  VisitorRuns(h)'
<1>1. /\ run'[h].pc = pc /\ run'[h].key = key /\ run'[h].told = run[h].told
  BY DEF Worked
<1>2. Key(h, Provisional)' = Key(h, Provisional)
  BY <1>1 DEF Key
<1> QED
  BY <1>1, <1>2 DEF VisitorRuns

LEMMA VisitorAt ==
  ASSUME Runs, NEW h \in Visitor, Busy(h)
  PROVE  /\ VisitorRuns(h) /\ run[h].told.kind = "verify"
         /\ run[h].pc \in {"user", "customer", "seek", "entitle", "login"}
         /\ run[h].pc # "user" => user
  BY DEF Runs, VisitorRuns

LEMMA WorkRunsStep ==
  ASSUME TypeInv, EventsTrue, Runs, Next, NEW h \in Runner,
         \/ UpsertUser(h) \/ UpsertCustomer(h) \/ Lookup(h) \/ SelectEntitlement(h) \/ WriteEntitlement(h)
         \/ Retrieve(h) \/ UpsertSubscription(h) \/ Deactivate(h) \/ SyncFails(h)
  PROVE  Runs'
<1>h. (h \in Handler => h \notin Visitor) /\ user \in BOOLEAN
  BY PaywallAssumption DEF TypeInv, PaywallTypeOK
<1>k. Key(h, Provisional) # Key(h, Paid) /\ Provisional # Paid
      /\ Key(h, Provisional)[2] = Provisional /\ Key(h, Paid)[2] = Paid
  BY DEF Key, Provisional, Paid
<1>1. ASSUME UpsertUser(h)
      PROVE  Runs'
  <2>1. Worked(h, "customer", run[h].key, run[h].status) /\ run[h].pc = "user" /\ user' = TRUE
        /\ customers' = customers
    BY <1>1, WorkEffects DEF UpsertUser, At
  <2>2. Busy(h)
    BY <2>1 DEF Worked
  <2>3. h \in Visitor => VisitorRuns(h)'
    BY <2>1, <2>2, VisitorAt, VisitorGoes
  <2>4. h \in Handler => HandlerRuns(h)'
    <3>1. SUFFICES ASSUME h \in Handler PROVE HandlerRuns(h)'
      OBVIOUS
    <3>2. HandlerRuns(h) /\ run[h].told.kind = "checkout" /\ ~IsChange(run[h].id)
      BY <2>1, <2>2, <3>1, HandlerAt
    <3>3. run[h].key = <<>>
      BY <2>1, <3>2 DEF HandlerRuns
    <3> QED
      BY <2>1, <3>2, <3>3, HandlerGoes
  <2> QED
    BY <2>1, <2>3, <2>4, WorkedRuns
<1>2. ASSUME UpsertCustomer(h)
      PROVE  Runs'
  <2>1. Worked(h, "seek", Key(h, Provisional), run[h].status) /\ run[h].pc = "customer" /\ user' = user
        /\ customers' = customers \cup {run[h].told.sub}
    BY <1>2, WorkEffects DEF UpsertCustomer, At
  <2>2. Busy(h)
    BY <2>1 DEF Worked
  <2>3. h \in Visitor => VisitorRuns(h)'
    BY <2>1, <2>2, VisitorAt, VisitorGoes
  <2>4. h \in Handler => HandlerRuns(h)'
    <3>1. SUFFICES ASSUME h \in Handler PROVE HandlerRuns(h)'
      OBVIOUS
    <3>2. HandlerRuns(h) /\ run[h].told.kind = "checkout" /\ ~IsChange(run[h].id)
      BY <2>1, <2>2, <3>1, HandlerAt
    <3>3. user
      BY <2>1, <3>2 DEF HandlerRuns
    <3> QED
      BY <2>1, <3>2, <3>3, HandlerGoes
  <2> QED
    BY <2>1, <2>3, <2>4, WorkedRuns
<1>3. ASSUME Lookup(h)
      PROVE  Runs'
  <2> DEFINE to == IF run[h].told.sub \in customers THEN "subscription" ELSE "audit"
  <2>1. Worked(h, to, run[h].key, run[h].status) /\ run[h].pc = "lookup" /\ user' = user
        /\ customers' = customers
    BY <1>3, WorkEffects DEF Lookup, At, tables
  <2>2. Busy(h) /\ h \notin Visitor
    BY <2>1, VisitorAt DEF Worked
  <2>3. to \in {"subscription", "audit"}
    OBVIOUS
  <2> HIDE DEF to
  <2>4. h \in Handler => HandlerRuns(h)'
    BY <2>1, <2>2, <2>3, HandlerAt, HandlerGoes
  <2> QED
    BY <2>1, <2>2, <2>4, WorkedRuns
<1>4. ASSUME SelectEntitlement(h)
      PROVE  Runs'
  <2>1. Worked(h, "entitle", run[h].key, run[h].status) /\ run[h].pc = "seek" /\ user' = user
        /\ customers' = customers
    BY <1>4, WorkEffects DEF SelectEntitlement, At, tables
  <2>2. Busy(h)
    BY <2>1 DEF Worked
  <2>3. h \in Visitor => VisitorRuns(h)'
    BY <2>1, <2>2, VisitorAt, VisitorGoes DEF VisitorRuns
  <2>4. h \in Handler => HandlerRuns(h)'
    <3>1. SUFFICES ASSUME h \in Handler PROVE HandlerRuns(h)'
      OBVIOUS
    <3>2. HandlerRuns(h) /\ run[h].told.kind # "invoice"
      BY <2>1, <2>2, <3>1, HandlerAt
    <3>3. run[h].told.kind = "checkout" =>
            run[h].key \in {Key(h, Provisional), Key(h, Paid)} /\ run[h].told.sub \in customers /\ user
      BY <2>1, <3>2 DEF HandlerRuns
    <3>4. run[h].told.kind = "created" \/ IsChange(run[h].id) => run[h].key = Key(h, Paid)
      BY <2>1, <3>2 DEF HandlerRuns
    <3> QED
      BY <2>1, <3>2, <3>3, <3>4, HandlerGoes
  <2> QED
    BY <2>1, <2>3, <2>4, WorkedRuns
<1>5. ASSUME WriteEntitlement(h)
      PROVE  Runs'
  <2>0. PICK to \in Pc : to = AfterEntitlement(h)
    BY AfterType
  <2>1. Worked(h, to, run[h].key, run[h].status) /\ run[h].pc = "entitle" /\ user' = user
        /\ customers' = customers
    BY <1>5, <2>0, WorkEffects DEF WriteEntitlement, At
  <2>2. Busy(h)
    BY <2>1 DEF Worked
  <2>3. h \in Visitor => VisitorRuns(h)'
    BY <2>0, <2>1, <2>2, VisitorAt, VisitorGoes DEF AfterEntitlement
  <2>4. h \in Handler => HandlerRuns(h)'
    <3>1. SUFFICES ASSUME h \in Handler PROVE HandlerRuns(h)'
      OBVIOUS
    <3>2. HandlerRuns(h) /\ run[h].told.kind \in {"created", "checkout", "updated", "deleted"}
          /\ (IsChange(run[h].id) <=> run[h].told.kind \in {"updated", "deleted"})
      BY <2>1, <2>2, <3>1, HandlerAt
    <3>3. CASE run[h].told.kind = "checkout"
      <4>1. run[h].key \in {Key(h, Provisional), Key(h, Paid)} /\ run[h].told.sub \in customers /\ user
        BY <2>1, <3>2, <3>3 DEF HandlerRuns
      <4>2. \/ to = "retrieve" /\ run[h].key = Key(h, Provisional)
            \/ to = "retire" /\ run[h].key = Key(h, Paid)
        BY <1>k, <2>0, <3>3, <4>1 DEF AfterEntitlement
      <4> QED
        BY <2>1, <3>2, <3>3, <4>1, <4>2, HandlerGoes
    <3>4. CASE run[h].told.kind # "checkout"
      <4>1. run[h].key = Key(h, Paid)
        BY <2>1, <3>2, <3>4 DEF HandlerRuns
      <4>2. \/ to = "audit"
            \/ to = "revoke" /\ IsChange(run[h].id)
        BY <1>k, <2>0, <3>2, <3>4, <4>1 DEF AfterEntitlement
      <4> QED
        BY <2>1, <3>2, <3>4, <4>1, <4>2, HandlerGoes
    <3> QED
      BY <3>3, <3>4
  <2> QED
    BY <2>1, <2>3, <2>4, WorkedRuns
<1>6. ASSUME Retrieve(h)
      PROVE  Runs'
  <2>0. PICK status : status = stripe[run[h].told.sub]
    OBVIOUS
  <2>1. Worked(h, "subscription", run[h].key, status) /\ run[h].pc = "retrieve" /\ user' = user
        /\ customers' = customers
    BY <1>6, <2>0, WorkEffects DEF Retrieve, At, tables
  <2>2. Busy(h) /\ h \notin Visitor
    BY <2>1, VisitorAt DEF Worked
  <2>3. h \in Handler => HandlerRuns(h)'
    <3>1. SUFFICES ASSUME h \in Handler PROVE HandlerRuns(h)'
      OBVIOUS
    <3>2. HandlerRuns(h) /\ run[h].told.kind = "checkout" /\ ~IsChange(run[h].id)
      BY <2>1, <2>2, <3>1, HandlerAt
    <3>3. user /\ run[h].told.sub \in customers /\ run[h].key = Key(h, Provisional)
      BY <2>1, <3>2 DEF HandlerRuns
    <3> QED
      BY <2>1, <3>2, <3>3, HandlerGoes
  <2> QED
    BY <2>1, <2>2, <2>3, WorkedRuns
<1>7. ASSUME UpsertSubscription(h)
      PROVE  Runs'
  <2>1. Worked(h, "seek", Key(h, Paid), run[h].status) /\ run[h].pc = "subscription" /\ user' = user
        /\ customers' = customers
    BY <1>7, WorkEffects DEF UpsertSubscription, At
  <2>2. Busy(h) /\ h \notin Visitor
    BY <2>1, VisitorAt DEF Worked
  <2>3. h \in Handler => HandlerRuns(h)'
    <3>1. SUFFICES ASSUME h \in Handler PROVE HandlerRuns(h)'
      OBVIOUS
    <3>2. HandlerRuns(h) /\ run[h].told.kind # "invoice"
      BY <2>1, <2>2, <3>1, HandlerAt
    <3>3. run[h].told.kind = "checkout" => user /\ run[h].told.sub \in customers
      BY <2>1, <3>2 DEF HandlerRuns
    <3> QED
      BY <2>1, <3>2, <3>3, HandlerGoes
  <2> QED
    BY <2>1, <2>2, <2>3, WorkedRuns
<1>8. ASSUME Deactivate(h)
      PROVE  Runs'
  <2>1. Worked(h, "audit", run[h].key, run[h].status) /\ run[h].pc \in {"retire", "revoke"} /\ user' = user
        /\ customers' = customers
    BY <1>8, WorkEffects DEF Deactivate, At
  <2>2. Busy(h) /\ h \notin Visitor
    BY <2>1, VisitorAt DEF Worked
  <2>3. h \in Handler => HandlerRuns(h)'
    <3>1. SUFFICES ASSUME h \in Handler PROVE HandlerRuns(h)'
      OBVIOUS
    <3>2. HandlerRuns(h) /\ run[h].told.kind # "invoice"
      BY <2>1, <2>2, <3>1, HandlerAt
    <3>3. run[h].told.kind = "checkout" => user /\ run[h].told.sub \in customers
      BY <2>1, <3>2 DEF HandlerRuns
    <3> QED
      BY <2>1, <3>2, <3>3, HandlerGoes
  <2> QED
    BY <2>1, <2>2, <2>3, WorkedRuns
<1>9. ASSUME SyncFails(h)
      PROVE  Runs'
  <2>1. Worked(h, "audit", run[h].key, run[h].status) /\ run[h].told.kind = "checkout" /\ user' = user
        /\ customers' = customers
    BY <1>9, WorkEffects DEF SyncFails, tables
  <2>2. Busy(h) /\ h \notin Visitor
    BY <2>1, VisitorAt DEF Worked
  <2>3. h \in Handler => HandlerRuns(h)'
    <3>1. SUFFICES ASSUME h \in Handler PROVE HandlerRuns(h)'
      OBVIOUS
    <3>2. HandlerRuns(h) /\ ~IsChange(run[h].id)
      BY <2>1, <2>2, <3>1, HandlerAt
    <3>3. run[h].pc \notin {"user", "customer"}
      <4>1. run[h].key = Key(h, Paid) \/ run[h].pc \in {"retrieve", "subscription", "retire"}
        BY <1>9 DEF SyncFails, At
      <4>2. run[h].pc \in {"user", "customer"} => run[h].key = <<>>
        BY <2>1, <3>2 DEF HandlerRuns
      <4> QED
        BY <4>1, <4>2, KeyNotEmpty
    <3>4. user /\ run[h].told.sub \in customers
      BY <2>1, <3>2, <3>3 DEF HandlerRuns
    <3> QED
      BY <2>1, <3>2, <3>4, HandlerGoes
  <2> QED
    BY <2>1, <2>2, <2>3, WorkedRuns
<1> QED
  BY <1>1, <1>2, <1>3, <1>4, <1>5, <1>6, <1>7, <1>8, <1>9

LEMMA ReceiveRuns ==
  ASSUME TypeInv, EventsTrue, Runs, Next, NEW h \in Handler, NEW i \in DOMAIN events,
         Receive(h, i)
  PROVE  Runs'
<1>h. h \in Runner /\ h \notin Visitor
  BY PaywallAssumption DEF Runner
<1>1. Started(h, FirstStep(events[i].kind), events[i], i) /\ Due(i) /\ i \in Nat /\ events[i] \in Fact
  BY <1>h, ReceiveEffect
<1>2. /\ run'[h].pc = FirstStep(events[i].kind) /\ run'[h].told = events[i] /\ run'[h].id = i
      /\ run'[h].key = <<>> /\ run'[h].status = events[i].status
      /\ \A g \in Runner \ {h} : run'[g] = run[g]
      /\ UNCHANGED <<stripe, events, audited, user, customers>>
  BY <1>1 DEF Started
<1>4. EventTrue(i)
  BY DEF EventsTrue
<1>5. events[i].kind \in {"created", "checkout", "updated", "deleted", "invoice"}
  BY <1>1, <1>4 DEF Fact, EventTrue
<1>6. /\ events[i].kind = "checkout" => FirstStep(events[i].kind) = "user"
      /\ events[i].kind = "invoice" => FirstStep(events[i].kind) = "invoice"
      /\ events[i].kind \in {"created", "updated", "deleted"} => FirstStep(events[i].kind) = "lookup"
  BY DEF FirstStep
<1>7. HandlerRuns(h)'
  BY <1>2, <1>5, <1>6 DEF HandlerRuns, IsChange
<1>8. stripe[run'[h].told.sub] # "none"
  BY <1>2, <1>4 DEF EventTrue
<1> QED
  BY <1>h, <1>2, <1>7, <1>8, OthersRun

LEMMA VerifyRuns ==
  ASSUME TypeInv, EventsTrue, Runs, Next, NEW v \in Visitor, NEW s \in Sub,
         Verify(v, s)
  PROVE  Runs'
<1>h. v \in Runner /\ v \notin Handler
  BY PaywallAssumption DEF Runner
<1>1. Started(v, "user", Told("verify", s, stripe[s]), 0) /\ stripe[s] # "none"
  BY <1>h, VerifyEffect
<1>2. /\ run'[v].pc = "user" /\ run'[v].told = Told("verify", s, stripe[s])
      /\ \A g \in Runner \ {v} : run'[g] = run[g]
      /\ UNCHANGED <<stripe, events, audited, user, customers>>
  BY <1>1 DEF Started
<1>3. run'[v].told.kind = "verify" /\ run'[v].told.sub = s
  BY <1>2 DEF Told
<1>4. VisitorRuns(v)'
  BY <1>2, <1>3 DEF VisitorRuns
<1> QED
  BY <1>h, <1>1, <1>2, <1>3, <1>4, OthersRun

LEMMA EndRuns ==
  ASSUME TypeInv, EventsTrue, Runs, Next, NEW h \in Runner,
         Audit(h) \/ Invoice(h) \/ LogIn(h) \/ Die(h)
  PROVE  Runs'
<1>1. CASE LogIn(h) \/ Die(h)
  <2>1. Ended(h) /\ UNCHANGED audited
    BY <1>1, EndEffects
  <2> QED
    BY <2>1, OthersRun DEF Ended, Busy
<1>2. CASE Audit(h) \/ Invoice(h)
  <2>1. Ended(h) /\ audited' = audited \cup {run[h].id} /\ run[h].pc \in {"audit", "invoice"}
    BY <1>2, EndEffects
  <2>2. Busy(h) /\ run'[h] = Resting /\ \A g \in Runner \ {h} : run'[g] = run[g]
    BY <2>1 DEF Ended
  <2>u. UNCHANGED <<stripe, events, user, customers>>
    BY <2>1 DEF Ended
  <2>3. h \in Handler
    BY <2>1, <2>2, VisitorAt DEF Runner
  <2>4. HandlerRuns(h) /\ run[h].told = events[run[h].id]
        /\ (run[h].told.kind = "checkout" => run[h].told.sub \in customers)
    BY <2>1, <2>2, <2>3, HandlerAt DEF HandlerRuns
  <2>5. ASSUME NEW g \in Runner, Busy(g)'
        PROVE  g # h /\ Busy(g) /\ run'[g] = run[g]
    BY <2>2, <2>5 DEF Busy
  <2>6. ASSUME NEW g \in Runner, Busy(g)'
        PROVE  stripe'[run'[g].told.sub] # "none"
    BY <2>5, <2>6, <2>u DEF Runs
  <2>7. ASSUME NEW v \in Visitor, Busy(v)'
        PROVE  VisitorRuns(v)'
    BY <2>5, <2>7, <2>u DEF Runs, VisitorRuns, Key, Runner
  <2>8. ASSUME NEW g \in Handler, Busy(g)'
        PROVE  HandlerRuns(g)'
    <3>1. g # h /\ Busy(g) /\ run'[g] = run[g] /\ HandlerRuns(g)
      BY <2>5, <2>8 DEF Runs, Runner
    <3> QED
      BY <2>u, <3>1 DEF HandlerRuns, Key, IsChange
  <2>9. \A i \in audited' : events'[i].kind = "checkout" => events'[i].sub \in customers'
    BY <2>1, <2>4, <2>u DEF Runs
  <2> QED
    BY <2>6, <2>7, <2>8, <2>9 DEF Runs
<1> QED
  BY <1>1, <1>2

LEMMA StripeRuns ==
  ASSUME TypeInv, EventsTrue, Runs, Next, StripeActs
  PROVE  Runs'
<1>1. PICK z \in Sub, new \in Status \ {"none"}, n \in {1, 2} : Tells(z, new, n)
  BY StripeTells
<1>2. /\ \A i \in DOMAIN events : i \in DOMAIN events' /\ events'[i] = events[i]
      /\ \A i \in DOMAIN events' \ DOMAIN events : i > Len(events)
      /\ UNCHANGED <<run, user, customers, audited>>
      /\ DOMAIN events' \subseteq Nat /\ DOMAIN events = 1 .. Len(events) /\ Len(events) \in Nat
  BY <1>1 DEF Tells, tables
<1>a. audited \subseteq DOMAIN events
  BY DEF TypeInv, PaywallTypeOK
<1>3. ASSUME NEW h \in Runner, Busy(h)'
      PROVE  stripe'[run'[h].told.sub] # "none"
  BY <1>2, <1>3, SubEverBought DEF Busy
<1>4. ASSUME NEW v \in Visitor, Busy(v)'
      PROVE  VisitorRuns(v)'
  BY <1>2, <1>4 DEF Runs, VisitorRuns, Key, Busy
<1>5. ASSUME NEW h \in Handler, Busy(h)'
      PROVE  HandlerRuns(h)'
  <2>1. Busy(h) /\ HandlerRuns(h)
    BY <1>2, <1>5 DEF Runs, Busy
  <2>2. run[h].id \in DOMAIN events' /\ run[h].told = events'[run[h].id]
    BY <1>2, <2>1 DEF HandlerRuns
  <2>3. IsChange(run[h].id)' <=> IsChange(run[h].id)
    BY <1>2, <2>1 DEF HandlerRuns, IsChange
  <2>4. Key(h, Paid)' = Key(h, Paid) /\ Key(h, Provisional)' = Key(h, Provisional)
    BY <1>2 DEF Key
  <2> QED
    BY <1>2, <2>1, <2>2, <2>3, <2>4 DEF HandlerRuns, IsChange
<1>6. \A i \in audited' : events'[i].kind = "checkout" => events'[i].sub \in customers'
  BY <1>2, <1>a DEF Runs
<1> QED
  BY <1>3, <1>4, <1>5, <1>6 DEF Runs

LEMMA RunsStep ==
  ASSUME TypeInv, EventsTrue, Runs, Next
  PROVE  Runs'
<1>1. ASSUME CookieLapses
      PROVE  Runs'
  <2>1. UNCHANGED <<stripe, events, audited, user, customers, run>>
    BY <1>1 DEF CookieLapses, tables
  <2> QED
    BY <2>1 DEF Runs, Busy, VisitorRuns, HandlerRuns, Key, IsChange
<1> QED
  BY <1>1, ReceiveRuns, VerifyRuns, EndRuns, StripeRuns, WorkRunsStep DEF Next, StripeActs, Runner

-----------------------------------------------------------------------------
(* The kinds of steps                                                      *)

Unordered == TypeInv /\ EventsTrue /\ Runs
Basics == TypeInv /\ EventsTrue /\ Runs /\ AuditedInOrder /\ InOrder

Works(h) == \/ UpsertUser(h) \/ UpsertCustomer(h) \/ Lookup(h) \/ SelectEntitlement(h)
            \/ WriteEntitlement(h) \/ Retrieve(h) \/ UpsertSubscription(h) \/ Deactivate(h)
            \/ SyncFails(h)

LEMMA WorksWorked ==
  ASSUME TypeInv, NEW h \in Runner, Works(h)
  PROVE  \E pc, key, status : Worked(h, pc, key, status)
BY WorkEffects, Zenon DEF Works

(* The kinds of steps there are *)
LEMMA StepKinds ==
  ASSUME Next
  PROVE  \/ StripeActs
         \/ \E h \in Handler, i \in DOMAIN events : Receive(h, i)
         \/ \E v \in Visitor, s \in Sub : Verify(v, s)
         \/ \E h \in Runner : Works(h) \/ Audit(h) \/ Invoice(h) \/ LogIn(h) \/ Die(h)
         \/ CookieLapses
BY DEF Next, StripeActs, Works, Runner

LEMMA UnorderedStep ==
  ASSUME Unordered, Next
  PROVE  Unordered'
BY TypeStep, EventsStep, RunsStep DEF Unordered

-----------------------------------------------------------------------------
(* Events told in order                                                    *)

LEMMA AuditedOrderStep ==
  ASSUME Basics, Next
  PROVE  AuditedInOrder'
<1> USE DEF Basics
<1>0. audited \subseteq DOMAIN events /\ DOMAIN events = 1 .. Len(events) /\ Len(events) \in Nat
  BY DEF TypeInv, PaywallTypeOK
<1>1. CASE StripeActs
  <2>1. PICK z \in Sub, new \in Status \ {"none"}, n \in {1, 2} : Tells(z, new, n)
    BY <1>1, StripeTells
  <2>2. /\ \A i \in DOMAIN events : i \in DOMAIN events' /\ events'[i] = events[i]
        /\ \A i \in DOMAIN events' \ DOMAIN events : i > Len(events)
        /\ audited' = audited
        /\ DOMAIN events' \subseteq Nat
    BY <2>1 DEF Tells, tables
  <2>3. ASSUME NEW i \in audited, NEW j \in DOMAIN events', j < i
        PROVE  j \in DOMAIN events
    BY <1>0, <2>2, <2>3
  <2> QED
    BY <1>0, <2>2, <2>3 DEF AuditedInOrder
<1>2. ASSUME NEW h \in Runner, Audit(h) \/ Invoice(h)
      PROVE  AuditedInOrder'
  <2>1. Ended(h) /\ audited' = audited \cup {run[h].id} /\ run[h].pc \in {"audit", "invoice"}
    BY <1>2, EndEffects
  <2>2. h \in Handler /\ HandlerRuns(h)
    BY <2>1 DEF Ended, Runs, VisitorRuns, Runner
  <2>3. run[h].told = events[run[h].id]
        /\ \A j \in DOMAIN events : j < run[h].id /\ events[j].sub = run[h].told.sub => j \in audited
    BY <2>1, <2>2 DEF HandlerRuns, InOrder, Ended
  <2> QED
    BY <2>1, <2>3 DEF AuditedInOrder, Ended
<1>3. ASSUME ~StripeActs, \A h \in Runner : ~(Audit(h) \/ Invoice(h))
      PROVE  AuditedInOrder'
  <2>1. UNCHANGED audited
    <3>1. ASSUME NEW h \in Handler, NEW i \in DOMAIN events, Receive(h, i)
          PROVE  UNCHANGED audited
      BY <3>1 DEF Receive, tables
    <3>2. ASSUME NEW v \in Visitor, NEW s \in Sub, Verify(v, s)
          PROVE  UNCHANGED audited
      BY <3>2 DEF Verify, tables
    <3>3. ASSUME NEW h \in Runner, \/ UpsertUser(h) \/ Lookup(h) \/ SelectEntitlement(h) \/ Retrieve(h)
                               \/ SyncFails(h) \/ UpsertCustomer(h) \/ WriteEntitlement(h)
                               \/ UpsertSubscription(h) \/ Deactivate(h) \/ LogIn(h) \/ Die(h)
          PROVE  UNCHANGED audited
      BY <3>3 DEF UpsertUser, Lookup, SelectEntitlement, Retrieve, SyncFails, UpsertCustomer,
       WriteEntitlement, UpsertSubscription, Deactivate, LogIn, Die, tables
    <3>4. ASSUME CookieLapses
          PROVE  UNCHANGED audited
      BY <3>4 DEF CookieLapses, tables
    <3> QED
      BY <1>3, <3>1, <3>2, <3>3, <3>4 DEF Next, StripeActs, Runner
  <2> QED
    BY <1>3, <2>1, OnlyStripe DEF AuditedInOrder
<1> QED
  BY <1>1, <1>2, <1>3

LEMMA InOrderStep ==
  ASSUME ToldInOrder, Basics, Next
  PROVE  InOrder'
<1> USE DEF Basics
<1>0. DOMAIN events = 1 .. Len(events) /\ Len(events) \in Nat /\ Handler \subseteq Runner
  BY DEF TypeInv, Runner
<1>1. CASE StripeActs
  <2>1. PICK z \in Sub, new \in Status \ {"none"}, n \in {1, 2} : Tells(z, new, n)
    BY <1>1, StripeTells
  <2>2. /\ \A i \in DOMAIN events : i \in DOMAIN events' /\ events'[i] = events[i]
        /\ \A i \in DOMAIN events' \ DOMAIN events : i > Len(events)
        /\ UNCHANGED <<run, audited>>
        /\ DOMAIN events' \subseteq Nat
    BY <2>1 DEF Tells, tables
  <2>3. ASSUME NEW h \in Handler, Busy(h)
        PROVE  \A j \in DOMAIN events' : j < run[h].id /\ events'[j].sub = run[h].told.sub => j \in audited
    <3>1. run[h].id \in DOMAIN events
      BY <2>3, HandlerAt
    <3>2. \A j \in DOMAIN events' : j < run[h].id => j \in DOMAIN events
      BY <1>0, <2>2, <3>1
    <3> QED
      BY <2>2, <2>3, <3>2 DEF InOrder
  <2> QED
    BY <2>2, <2>3 DEF InOrder, Busy
<1>2. ASSUME NEW h \in Handler, NEW i \in DOMAIN events, Receive(h, i)
      PROVE  InOrder'
  <2>1. Started(h, FirstStep(events[i].kind), events[i], i) /\ Due(i)
    BY <1>0, <1>2, ReceiveEffect
  <2>2. /\ run'[h].told = events[i] /\ run'[h].id = i /\ ~Busy(h)
        /\ \A g \in Handler \ {h} : run'[g] = run[g]
        /\ UNCHANGED <<events, audited>>
    BY <1>0, <2>1 DEF Started
  <2>3. /\ i \notin audited
        /\ \A j \in 1 .. i - 1 : events[j].sub = events[i].sub => j \in audited
        /\ \A g \in Handler : ~At(g, "rest") => run[g].told.sub # events[i].sub
    BY <2>1 DEF Due, InTurn
  <2>4. \A j \in DOMAIN events : j < i /\ events[j].sub = events[i].sub => j \in audited
    <3>1. \A j \in DOMAIN events : j < i => j \in 1 .. i - 1
      BY <1>0
    <3> QED
      BY <2>3, <3>1
  <2>5. \A g \in Handler : Busy(g) => run[g].told.sub # events[i].sub
    BY <1>0, <2>3, RunnerBusy
  <2> QED
    BY <2>2, <2>3, <2>4, <2>5 DEF InOrder, Busy
<1>3. ASSUME NEW v \in Visitor, NEW s \in Sub, Verify(v, s)
      PROVE  InOrder'
  <2>1. v \in Runner /\ v \notin Handler
    BY PaywallAssumption DEF Runner
  <2>2. Started(v, "user", Told("verify", s, stripe[s]), 0)
    BY <1>3, <2>1, VerifyEffect
  <2>3. (\A g \in Handler : run'[g] = run[g]) /\ UNCHANGED <<events, audited>>
    BY <1>0, <2>1, <2>2 DEF Started
  <2> QED
    BY <2>3 DEF InOrder, Busy
<1>4. ASSUME NEW h \in Runner, Works(h)
      PROVE  InOrder'
  <2>1. PICK pc, key, status : Worked(h, pc, key, status)
    BY <1>4, WorksWorked
  <2>2. /\ Busy(h) /\ run'[h].told = run[h].told /\ run'[h].id = run[h].id
        /\ \A g \in Runner \ {h} : run'[g] = run[g]
        /\ UNCHANGED <<events, audited>>
    BY <2>1 DEF Worked
  <2>3. ASSUME NEW g \in Handler, Busy(g)'
        PROVE  Busy(g) /\ run'[g].told = run[g].told /\ run'[g].id = run[g].id
    BY <1>0, <2>2, <2>3 DEF Busy
  <2>4. ASSUME NEW g \in Handler, Busy(g)'
        PROVE  /\ run[g].id \notin audited
               /\ \A j \in DOMAIN events : j < run[g].id /\ events[j].sub = run[g].told.sub => j \in audited
               /\ \A f \in Handler : Busy(f) /\ run[f].told.sub = run[g].told.sub => f = g
    BY <2>3, <2>4 DEF InOrder
  <2>5. ASSUME NEW g \in Handler, Busy(g)', NEW f \in Handler, Busy(f)', run'[f].told.sub = run'[g].told.sub
        PROVE  f = g
    BY <2>3, <2>4, <2>5
  <2>6. ASSUME NEW g \in Handler, Busy(g)'
        PROVE  /\ run'[g].id \notin audited
               /\ \A j \in DOMAIN events : j < run'[g].id /\ events[j].sub = run'[g].told.sub => j \in audited
    BY <2>3, <2>4, <2>6
  <2>7. UNCHANGED <<events, audited>>
    BY <2>2
  <2> QED
    BY <2>5, <2>6, <2>7 DEF InOrder
<1>5. ASSUME NEW h \in Runner, Audit(h) \/ Invoice(h) \/ LogIn(h) \/ Die(h)
      PROVE  InOrder'
  <2>1. /\ Ended(h)
        /\ \/ audited' = audited
           \/ audited' = audited \cup {run[h].id} /\ run[h].pc \in {"audit", "invoice"}
    BY <1>5, EndEffects
  <2>2. /\ Busy(h) /\ run'[h] = Resting /\ events' = events
        /\ \A g \in Runner \ {h} : run'[g] = run[g]
    BY <2>1 DEF Ended
  <2>3. ASSUME NEW g \in Handler, Busy(g)'
        PROVE  g # h /\ Busy(g) /\ run'[g] = run[g]
    BY <1>0, <2>2, <2>3 DEF Busy
  <2>4. ASSUME NEW g \in Handler, Busy(g)'
        PROVE  run[g].id \notin audited'
    <3>1. CASE audited' = audited
      BY <2>3, <2>4, <3>1 DEF InOrder
    <3>2. CASE audited' = audited \cup {run[h].id} /\ run[h].pc \in {"audit", "invoice"}
      <4>1. h \in Handler
        BY <2>2, <3>2, VisitorAt DEF Runner
      <4>2. run[g].told.sub # run[h].told.sub
        BY <2>2, <2>3, <2>4, <4>1 DEF InOrder
      <4>3. run[g].told = events[run[g].id] /\ run[h].told = events[run[h].id]
        BY <2>2, <2>3, <2>4, <4>1, HandlerAt
      <4> QED
        BY <2>3, <2>4, <3>2, <4>2, <4>3 DEF InOrder
    <3> QED
      BY <2>1, <3>1, <3>2
  <2>5. audited \subseteq audited'
    BY <2>1
  <2> QED
    BY <2>2, <2>3, <2>4, <2>5 DEF InOrder
<1>6. ASSUME CookieLapses
      PROVE  InOrder'
  BY <1>6 DEF CookieLapses, tables, InOrder, Busy
<1> QED
  BY <1>1, <1>2, <1>3, <1>4, <1>5, <1>6, StepKinds

LEMMA BasicsStep ==
  ASSUME ToldInOrder, Basics, Next
  PROVE  Basics'
BY UnorderedStep, AuditedOrderStep, InOrderStep DEF Basics, Unordered

-----------------------------------------------------------------------------
(* What is read of a subscription                                          *)

LEMMA StatusOwn ==
  ASSUME Basics, NEW h \in Handler, Busy(h), StatusTrue(h), Works(h)
  PROVE  StatusTrue(h)'
<1>h. h \in Runner /\ TypeInv /\ EventsTrue /\ Runs
  BY DEF Runner, Basics
<1>k. Key(h, Provisional) # Key(h, Paid)
  BY DEF Key, Provisional, Paid
<1>e. run[h].id \in DOMAIN events /\ run[h].told = events[run[h].id] /\ HandlerRuns(h)
  BY <1>h, HandlerAt
<1>1. ASSUME NEW pc, NEW key, Worked(h, pc, key, run[h].status),
             pc = "subscription" => Read(h), key = Key(h, Paid) => Read(h)
      PROVE  StatusTrue(h)'
  <2>1. /\ run'[h].pc = pc /\ run'[h].key = key /\ run'[h].status = run[h].status
        /\ run'[h].told = run[h].told /\ run'[h].id = run[h].id
        /\ UNCHANGED <<events, stripe>>
    BY <1>1 DEF Worked
  <2>2. Key(h, Paid)' = Key(h, Paid)
    BY <2>1 DEF Key
  <2>3. Read(h)' => Read(h)
    BY <1>1, <2>1, <2>2 DEF Read, IsChange
  <2>4. Coming(run[h].told.sub, run[h].id) => Coming(run[h].told.sub, run[h].id)'
    BY <2>1 DEF Coming, News, IsChange
  <2>5. Coming(run[h].told.sub, run[h].id)' <=> Coming(run'[h].told.sub, run'[h].id)
    BY <2>1 DEF Coming, News, IsChange
  <2> QED
    BY <2>1, <2>3, <2>5 DEF StatusTrue, Coming, News, IsChange
<1>2. CASE UpsertUser(h)
  <2>1. Worked(h, "customer", run[h].key, run[h].status) /\ run[h].pc = "user"
    BY <1>h, <1>2, WorkEffects DEF UpsertUser, At
  <2>2. run[h].key = Key(h, Paid) => Read(h)
    BY DEF Read
  <2> QED
    BY <1>1, <2>1, <2>2
<1>3. CASE UpsertCustomer(h)
  BY <1>1, <1>h, <1>k, <1>3, WorkEffects
<1>4. CASE Lookup(h)
  <2> DEFINE to == IF run[h].told.sub \in customers THEN "subscription" ELSE "audit"
  <2>1. Worked(h, to, run[h].key, run[h].status) /\ run[h].pc = "lookup"
    BY <1>h, <1>4, WorkEffects DEF Lookup, At
  <2>2. Read(h)
    BY <1>h, <2>1, HandlerAt DEF Read
  <2> HIDE DEF to
  <2> QED
    BY <1>1, <2>1, <2>2
<1>5. CASE SelectEntitlement(h)
  <2>1. Worked(h, "entitle", run[h].key, run[h].status)
    BY <1>h, <1>5, WorkEffects
  <2>2. run[h].key = Key(h, Paid) => Read(h)
    BY DEF Read
  <2> QED
    BY <1>1, <2>1, <2>2
<1>6. CASE WriteEntitlement(h)
  <2>0. PICK to \in Pc : to = AfterEntitlement(h)
    BY <1>h, AfterType
  <2>1. Worked(h, to, run[h].key, run[h].status) /\ to # "subscription"
    BY <1>h, <1>6, <2>0, WorkEffects DEF AfterEntitlement
  <2>2. run[h].key = Key(h, Paid) => Read(h)
    BY DEF Read
  <2> QED
    BY <1>1, <2>1, <2>2
<1>7. CASE Retrieve(h)
  <2>0. PICK st \in Status : st = stripe[run[h].told.sub]
    BY <1>h, <1>7, WorkEffects DEF TypeInv, PaywallTypeOK, Status
  <2>1. Worked(h, "subscription", run[h].key, st)
    BY <1>h, <1>7, <2>0, WorkEffects
  <2>2. st # "none"
    BY <1>h, <2>0 DEF Runs
  <2>3. run'[h].status = st /\ run'[h].told = run[h].told /\ stripe' = stripe
    BY <2>1 DEF Worked
  <2> QED
    BY <2>0, <2>2, <2>3 DEF StatusTrue
<1>8. CASE UpsertSubscription(h)
  <2>1. Worked(h, "seek", Key(h, Paid), run[h].status) /\ run[h].pc = "subscription"
    BY <1>h, <1>8, WorkEffects DEF UpsertSubscription, At
  <2>2. Read(h)
    BY <2>1 DEF Read
  <2> QED
    BY <1>1, <2>1, <2>2
<1>9. CASE Deactivate(h) \/ SyncFails(h)
  <2>1. Worked(h, "audit", run[h].key, run[h].status)
    BY <1>h, <1>9, WorkEffects
  <2>2. run[h].key = Key(h, Paid) => Read(h)
    BY DEF Read
  <2> QED
    BY <1>1, <2>1, <2>2
<1> QED
  BY <1>2, <1>3, <1>4, <1>5, <1>6, <1>7, <1>8, <1>9 DEF Works

LEMMA StatusKept ==
  ASSUME Basics, Next, NEW h \in Handler, run'[h] = run[h], StatusTrue(h)
  PROVE  StatusTrue(h)'
<1>h. h \in Runner /\ TypeInv /\ EventsTrue /\ Runs
  BY DEF Runner, Basics
<1>1. SUFFICES ASSUME Busy(h), Read(h)'
               PROVE  run'[h].status # "none" /\
                      (run'[h].status = stripe'[run'[h].told.sub] \/ Coming(run[h].told.sub, run[h].id)')
  BY DEF StatusTrue, Busy, Coming, News
<1>2. /\ run[h].id \in DOMAIN events /\ run[h].told = events[run[h].id]
      /\ run[h] \in Running /\ run[h].told.sub \in Sub /\ run[h].status \in Status
      /\ stripe[run[h].told.sub] # "none"
  BY <1>h, <1>1, HandlerAt, RunnerBusy DEF Running, Fact, Runs
<1>3. PICK s \in Sub, i \in DOMAIN events, st \in Status :
        s = run[h].told.sub /\ i = run[h].id /\ st = run[h].status
  BY <1>2
<1>4. IsChange(i)' <=> IsChange(i)
  <2>1. CASE ~StripeActs
    BY <1>h, <2>1, OnlyStripe DEF IsChange
  <2>2. CASE StripeActs
    BY <1>h, <2>2, StripeTells DEF IsChange, Tells
  <2> QED
    BY <2>1, <2>2
<1>5. Read(h)
  BY <1>1, <1>3, <1>4 DEF Read, Key, IsChange
<1>6. st # "none" /\ (st = stripe[s] \/ Coming(s, i))
  BY <1>1, <1>3, <1>5 DEF StatusTrue
<1>7. st = stripe'[s] \/ Coming(s, i)'
  BY <1>h, <1>2, <1>3, <1>6, ComingStays
<1> QED
  BY <1>3, <1>6, <1>7 DEF Coming, News

LEMMA StatusStep ==
  ASSUME Basics, Next, NEW h \in Handler, StatusTrue(h)
  PROVE  StatusTrue(h)'
<1>h. h \in Runner /\ TypeInv /\ EventsTrue /\ Runs /\ h \notin Visitor
  BY PaywallAssumption DEF Runner, Basics
<1>1. CASE StripeActs
  BY <1>h, <1>1, StripeTells, StatusKept DEF Tells
<1>2. ASSUME NEW g \in Handler, NEW i \in DOMAIN events, Receive(g, i)
      PROVE  StatusTrue(h)'
  <2>1. Started(g, FirstStep(events[i].kind), events[i], i) /\ g \in Runner
    BY <1>h, <1>2, ReceiveEffect DEF Runner
  <2>2. CASE g # h
    BY <1>h, <2>1, <2>2, StatusKept DEF Started
  <2>3. CASE g = h
    <3>1. /\ run'[h].pc = FirstStep(events[i].kind) /\ run'[h].told = events[i] /\ run'[h].id = i
          /\ run'[h].key = <<>> /\ run'[h].status = events[i].status
          /\ UNCHANGED <<stripe, events>>
      BY <2>1, <2>3 DEF Started
    <3>2. EventTrue(i)
      BY <1>h DEF EventsTrue
    <3>3. run'[h].pc # "subscription"
      BY <3>1 DEF FirstStep
    <3>4. Key(h, Paid)' # <<>>
      BY DEF Key
    <3>5. Read(h)' => events[i].kind = "created" \/ IsChange(i)
      BY <3>1, <3>3, <3>4 DEF Read, IsChange
    <3>6. Read(h)' => /\ events[i].status # "none"
                      /\ events[i].status = stripe[events[i].sub] \/ Coming(events[i].sub, i)
      BY <3>2, <3>5 DEF EventTrue
    <3> QED
      BY <3>1, <3>6 DEF StatusTrue, Coming, News, IsChange
  <2> QED
    BY <2>2, <2>3
<1>3. ASSUME NEW v \in Visitor, NEW s \in Sub, Verify(v, s)
      PROVE  StatusTrue(h)'
  BY <1>h, <1>3, VerifyEffect, StatusKept DEF Started, Runner
<1>4. ASSUME NEW g \in Runner, Works(g)
      PROVE  StatusTrue(h)'
  <2>1. /\ Busy(g) /\ \A x \in Runner \ {g} : run'[x] = run[x]
    BY <1>h, <1>4, WorksWorked DEF Worked
  <2> QED
    BY <1>h, <1>4, <2>1, StatusOwn, StatusKept
<1>5. ASSUME NEW g \in Runner, Audit(g) \/ Invoice(g) \/ LogIn(g) \/ Die(g)
      PROVE  StatusTrue(h)'
  <2>1. Ended(g)
    BY <1>h, <1>5, EndEffects
  <2>2. CASE g = h
    BY <2>1, <2>2 DEF Ended, StatusTrue, Busy
  <2> QED
    BY <1>h, <2>1, <2>2, StatusKept DEF Ended
<1>6. CASE CookieLapses
  BY <1>6, StatusKept DEF CookieLapses
<1> QED
  BY <1>1, <1>2, <1>3, <1>4, <1>5, <1>6, StepKinds

-----------------------------------------------------------------------------
(* News ahead                                                              *)

Free(j) == \A h \in Handler : Busy(h) => run[h].id # j

LEMMA ComingFree ==
  ASSUME Basics, NEW h \in Handler, Busy(h), Coming(run[h].told.sub, run[h].id)
  PROVE  \E j \in DOMAIN events \ audited :
           News(j, run[h].told.sub) /\ j # run[h].id /\ Free(j)
<1>0. TypeInv /\ EventsTrue /\ Runs /\ AuditedInOrder /\ InOrder
  BY DEF Basics
<1>1. run[h].id \in DOMAIN events \ audited /\ run[h].told = events[run[h].id]
  BY <1>0, HandlerAt DEF InOrder
<1>2. PICK j \in DOMAIN events : j > run[h].id /\ News(j, run[h].told.sub)
  BY DEF Coming
<1>3. DOMAIN events \subseteq Nat
  BY <1>0 DEF TypeInv
<1>4. j # run[h].id /\ run[h].id < j
  BY <1>1, <1>2, <1>3
<1>5. j \notin audited
  BY <1>0, <1>1, <1>2, <1>4 DEF AuditedInOrder, News
<1>6. ASSUME NEW g \in Handler, Busy(g), run[g].id = j
      PROVE  FALSE
  <2>1. run[g].told = events[j]
    BY <1>0, <1>6, HandlerAt
  <2>2. run[g].told.sub = run[h].told.sub
    BY <1>2, <2>1 DEF News
  <2>3. g = h
    BY <1>0, <1>6, <2>2 DEF InOrder
  <2> QED
    BY <1>4, <1>6, <2>3
<1> QED
  BY <1>2, <1>4, <1>5, <1>6 DEF Free

(* What Stripe tells of a change is ahead of every handler. *)
LEMMA ChangeAhead ==
  ASSUME Basics, Next, NEW s \in Sub, stripe[s] # "none", stripe'[s] # stripe[s], NEW pcs
  PROVE  Ahead(s, pcs)'
<1>0. TypeInv /\ EventsTrue /\ Runs
  BY DEF Basics
<1>1. StripeActs
  BY <1>0, OnlyStripe
<1>2. PICK z \in Sub, new \in Status \ {"none"}, n \in {1, 2} :
           /\ Tells(z, new, n)
           /\ \/ stripe[z] = "none"
              \/ n = 1 /\ \/ events'[Len(events) + 1].kind = "invoice" /\ new = stripe[z]
                          \/ events'[Len(events) + 1].kind \in {"updated", "deleted"}
  BY <1>0, <1>1, StripeTells
<1>3. stripe \in [Sub -> Status] /\ Len(events) \in Nat /\ DOMAIN events = 1 .. Len(events)
      /\ audited \subseteq DOMAIN events
  BY <1>0 DEF TypeInv, PaywallTypeOK, Status
<1>4. z = s /\ stripe'[s] = new /\ new # stripe[s]
  BY <1>2, <1>3 DEF Tells
<1>5. PICK j \in Nat : j = Len(events) + 1
  BY <1>3
<1>6. n = 1 /\ events'[j].kind \in {"updated", "deleted"}
  BY <1>2, <1>4, <1>5
<1>7. j \in DOMAIN events' \ DOMAIN events
  BY <1>2, <1>3, <1>5, <1>6 DEF Tells
<1>8. events'[j].sub = s /\ events'[j].status = new
  BY <1>2, <1>4, <1>7 DEF Tells
<1>9. News(j, s)'
  BY <1>4, <1>6, <1>8 DEF News, IsChange
<1>10. UNCHANGED <<run, audited>>
  BY <1>2 DEF Tells, tables
<1>11. \A h \in Handler : Busy(h) => run[h].id # j
  BY <1>0, <1>7, HandlerAt
<1>12. j \notin audited
  BY <1>3, <1>7
<1> QED
  BY <1>7, <1>9, <1>10, <1>11, <1>12 DEF Ahead, Busy

(* News ahead stays ahead while its own handler does. *)
LEMMA AheadStep ==
  ASSUME Basics, Next, NEW s \in Sub, NEW pcs, "lookup" \in pcs, "audit" \notin pcs, "invoice" \notin pcs,
         Ahead(s, pcs),
         \A h \in Handler : Busy(h) /\ Works(h) /\ run[h].told.sub = s /\ News(run[h].id, s)
                              /\ run[h].pc \in pcs => run'[h].pc \in pcs
  PROVE  Ahead(s, pcs)'
<1>0. TypeInv /\ EventsTrue /\ Runs
  BY DEF Basics
<1>1. PICK j \in DOMAIN events \ audited :
         News(j, s) /\ \A h \in Handler : Busy(h) /\ run[h].id = j => run[h].pc \in pcs
  BY DEF Ahead
<1>2. CASE StripeActs
  <2>1. CASE stripe'[s] = stripe[s]
    <3>1. PICK z \in Sub, new \in Status \ {"none"}, n \in {1, 2} : Tells(z, new, n)
      BY <1>0, <1>2, StripeTells
    <3>2. j \in DOMAIN events' /\ events'[j] = events[j] /\ UNCHANGED <<run, audited>>
      BY <3>1 DEF Tells, tables
    <3>3. News(j, s)'
      BY <1>1, <2>1, <3>2 DEF News, IsChange
    <3> QED
      BY <1>1, <3>2, <3>3 DEF Ahead, Busy
  <2>2. CASE stripe'[s] # stripe[s]
    <3>1. stripe[s] # "none"
      BY <1>0, <1>1 DEF News, EventsTrue, EventTrue
    <3> QED
      BY <2>2, <3>1, ChangeAhead
  <2> QED
    BY <2>1, <2>2
<1>3. CASE ~StripeActs
  <2>1. UNCHANGED <<stripe, events>>
    BY <1>0, <1>3, OnlyStripe
  <2>2. News(j, s)'
    BY <1>1, <2>1 DEF News, IsChange
  <2>s. SUFFICES /\ j \notin audited'
                 /\ \A h \in Handler : Busy(h)' /\ run'[h].id = j => run'[h].pc \in pcs
    BY <1>1, <2>1, <2>2 DEF Ahead
  <2>3. ASSUME NEW g \in Handler, NEW i \in DOMAIN events, Receive(g, i)
        PROVE  /\ j \notin audited'
               /\ \A h \in Handler : Busy(h)' /\ run'[h].id = j => run'[h].pc \in pcs
    <3>1. Started(g, FirstStep(events[i].kind), events[i], i) /\ g \in Runner
      BY <1>0, <2>3, ReceiveEffect DEF Runner
    <3>2. j = i => FirstStep(events[i].kind) = "lookup"
      BY <1>1 DEF News, IsChange, FirstStep
    <3> QED
      BY <1>1, <3>1, <3>2 DEF Started, Busy, Runner
  <2>4. ASSUME NEW v \in Visitor, NEW z \in Sub, Verify(v, z)
        PROVE  /\ j \notin audited'
               /\ \A h \in Handler : Busy(h)' /\ run'[h].id = j => run'[h].pc \in pcs
    <3>1. Started(v, "user", Told("verify", z, stripe[z]), 0) /\ v \in Runner /\ v \notin Handler
      BY <1>0, <2>4, VerifyEffect, PaywallAssumption DEF Runner
    <3> QED
      BY <1>1, <3>1 DEF Started, Busy, Runner
  <2>5. ASSUME NEW g \in Runner, Works(g)
        PROVE  /\ j \notin audited'
               /\ \A h \in Handler : Busy(h)' /\ run'[h].id = j => run'[h].pc \in pcs
    <3>1. /\ Busy(g) /\ run'[g].id = run[g].id /\ run'[g].told = run[g].told
          /\ audited' = audited /\ \A x \in Runner \ {g} : run'[x] = run[x]
      BY <1>0, <2>5, WorksWorked DEF Worked
    <3>2. g \in Handler /\ run[g].id = j => run'[g].pc \in pcs
      <4>1. SUFFICES ASSUME g \in Handler, run[g].id = j
                     PROVE  run'[g].pc \in pcs
        OBVIOUS
      <4>2. run[g].told = events[j]
        BY <1>0, <3>1, <4>1, HandlerAt
      <4>3. run[g].told.sub = s
        BY <1>1, <4>2 DEF News
      <4> QED
        BY <1>1, <2>5, <3>1, <4>1, <4>3
    <3> QED
      BY <1>1, <3>1, <3>2 DEF Busy, Runner
  <2>6. ASSUME NEW g \in Runner, Audit(g) \/ Invoice(g) \/ LogIn(g) \/ Die(g)
        PROVE  /\ j \notin audited'
               /\ \A h \in Handler : Busy(h)' /\ run'[h].id = j => run'[h].pc \in pcs
    <3>1. Ended(g)
      BY <1>0, <2>6, EndEffects
    <3>2. j \notin audited'
      <4>1. CASE LogIn(g) \/ Die(g)
        BY <1>0, <1>1, <4>1, EndEffects
      <4>2. CASE Audit(g) \/ Invoice(g)
        <5>1. audited' = audited \cup {run[g].id} /\ run[g].pc \in {"audit", "invoice"}
          BY <1>0, <4>2, EndEffects
        <5>2. g \in Handler
          BY <1>0, <3>1, <5>1, VisitorAt DEF Runner, Ended
        <5>3. run[g].id # j
          BY <1>1, <3>1, <5>1, <5>2 DEF Ended
        <5> QED
          BY <1>1, <5>1, <5>3
      <4> QED
        BY <2>6, <4>1, <4>2
    <3> QED
      BY <1>1, <3>1, <3>2 DEF Ended, Busy, Runner
  <2>7. ASSUME CookieLapses
        PROVE  /\ j \notin audited'
               /\ \A h \in Handler : Busy(h)' /\ run'[h].id = j => run'[h].pc \in pcs
    BY <1>1, <2>7 DEF CookieLapses, Busy, tables
  <2> QED
    BY <1>3, <2>3, <2>4, <2>5, <2>6, <2>7, StepKinds
<1> QED
  BY <1>2, <1>3

(* A change is looked up by a handler that finds the customer. *)
LEMMA ChangeFound ==
  ASSUME Basics, NEW h \in Handler, Busy(h), IsChange(run[h].id)
  PROVE  run[h].told.sub \in customers
<1>0. TypeInv /\ EventsTrue /\ Runs
  BY DEF Basics
<1>1. HandlerRuns(h) /\ run[h].id \in DOMAIN events /\ run[h].told = events[run[h].id]
  BY <1>0, HandlerAt
<1>2. PICK j \in DOMAIN events :
        j < run[h].id /\ events[j].sub = run[h].told.sub /\ events[j].kind = "checkout"
  BY <1>0, <1>1 DEF EventsTrue, EventTrue
<1>3. j \in audited
  BY <1>1, <1>2 DEF Basics, InOrder
<1> QED
  BY <1>0, <1>2, <1>3 DEF Runs

-----------------------------------------------------------------------------
(* What is kept of a subscription, and what it opens                       *)

LEMMA SubsKept ==
  ASSUME Basics, Next, NEW s \in Sub,
         \A h \in Handler : UpsertSubscription(h) => run[h].told.sub # s
  PROVE  subs'[s] = subs[s]
<1>0. TypeInv /\ EventsTrue /\ Runs /\ subs \in [Sub -> Status]
  BY DEF Basics, TypeInv, PaywallTypeOK, Status
<1>1. CASE StripeActs
  BY <1>0, <1>1, StripeTells DEF Tells, tables
<1>2. ASSUME NEW g \in Handler, NEW i \in DOMAIN events, Receive(g, i)
      PROVE  subs' = subs
  BY <1>2 DEF Receive, tables
<1>3. ASSUME NEW v \in Visitor, NEW z \in Sub, Verify(v, z)
      PROVE  subs' = subs
  BY <1>3 DEF Verify, tables
<1>4. ASSUME NEW h \in Runner, Works(h)
      PROVE  subs'[s] = subs[s]
  <2>1. CASE UpsertSubscription(h)
    <3>1. Busy(h) /\ run[h].pc = "subscription"
      BY <1>0, <2>1, WorkEffects DEF Worked, UpsertSubscription, At
    <3>2. h \in Handler
      BY <1>0, <3>1, VisitorAt DEF Runner
    <3> QED
      BY <1>0, <2>1, <3>2 DEF UpsertSubscription
  <2>2. CASE ~UpsertSubscription(h)
    BY <1>4, <2>2 DEF Works, UpsertUser, UpsertCustomer, Lookup, SelectEntitlement,
       WriteEntitlement, Retrieve, Deactivate, SyncFails, tables
  <2> QED
    BY <2>1, <2>2
<1>5. ASSUME NEW h \in Runner, Audit(h) \/ Invoice(h) \/ LogIn(h) \/ Die(h)
      PROVE  subs' = subs
  BY <1>0, <1>5, EndEffects DEF Ended
<1>6. CookieLapses => subs' = subs
  BY DEF CookieLapses, tables
<1> QED
  BY <1>1, <1>2, <1>3, <1>4, <1>5, <1>6, StepKinds

LEMMA SubsStep ==
  ASSUME Basics, Next, \A h \in Handler : StatusTrue(h), NEW s \in Sub, SubsTrue(s)
  PROVE  SubsTrue(s)'
<1>0. TypeInv /\ EventsTrue /\ Runs /\ subs \in [Sub -> Status] /\ stripe \in [Sub -> Status]
  BY DEF Basics, TypeInv, PaywallTypeOK, Status
<1> DEFINE pcs == {"lookup", "subscription"}
<1>1. ASSUME NEW h \in Handler, UpsertSubscription(h), run[h].told.sub = s
      PROVE  SubsTrue(s)'
  <2>1. Worked(h, "seek", Key(h, Paid), run[h].status) /\ run[h].pc = "subscription" /\ h \in Runner
    BY <1>0, <1>1, WorkEffects DEF UpsertSubscription, At, Runner
  <2>2. subs'[s] = run[h].status /\ stripe' = stripe /\ events' = events /\ audited' = audited
        /\ run'[h].id = run[h].id /\ \A g \in Runner \ {h} : run'[g] = run[g]
    BY <1>0, <1>1, <2>1 DEF UpsertSubscription, Worked
  <2>3. Busy(h) /\ Read(h)
    BY <2>1 DEF Read, Worked
  <2>4. CASE run[h].status = stripe[s]
    BY <2>2, <2>4 DEF SubsTrue
  <2>5. CASE Coming(s, run[h].id)
    <3>1. PICK j \in DOMAIN events \ audited : News(j, s) /\ j # run[h].id /\ Free(j)
      BY <1>1, <2>3, <2>5, ComingFree
    <3>2. News(j, s)'
      BY <2>2, <3>1 DEF News, IsChange
    <3>3. ASSUME NEW g \in Handler, Busy(g)'
          PROVE  run'[g].id # j
      BY <2>2, <3>1, <3>3 DEF Free, Busy, Runner
    <3> QED
      BY <2>2, <3>1, <3>2, <3>3 DEF SubsTrue, Ahead
  <2> QED
    BY <1>1, <2>3, <2>4, <2>5 DEF StatusTrue
<1>2. ASSUME \A h \in Handler : UpsertSubscription(h) => run[h].told.sub # s
      PROVE  SubsTrue(s)'
  <2>1. subs'[s] = subs[s]
    BY <1>2, SubsKept
  <2>2. CASE subs[s] = "none"
    BY <2>1, <2>2 DEF SubsTrue
  <2>3. CASE subs[s] = stripe[s] /\ subs[s] # "none"
    <3>1. CASE stripe'[s] = stripe[s]
      BY <2>1, <2>3, <3>1 DEF SubsTrue
    <3>2. CASE stripe'[s] # stripe[s]
      BY <2>3, <3>2, ChangeAhead DEF SubsTrue
    <3> QED
      BY <3>1, <3>2
  <2>4. CASE Ahead(s, pcs)
    <3>1. ASSUME NEW h \in Handler, Busy(h), Works(h), run[h].told.sub = s, News(run[h].id, s),
                 run[h].pc \in pcs
          PROVE  run'[h].pc \in pcs
      <4>1. h \in Runner /\ ~UpsertSubscription(h) /\ run[h].told.sub \in customers
        BY <1>2, <3>1, ChangeFound DEF Runner, News
      <4>2. Lookup(h)
        <5>1. run[h].pc = "lookup" \/ run[h].pc = "subscription"
          BY <3>1
        <5>2. run[h].told.kind # "checkout"
          BY <1>0, <3>1, HandlerAt DEF News
        <5> QED
          BY <3>1, <4>1, <5>1, <5>2 DEF Works, At, UpsertUser, UpsertCustomer, SelectEntitlement,
             WriteEntitlement, Retrieve, UpsertSubscription, Deactivate, SyncFails
      <4>3. Worked(h, "subscription", run[h].key, run[h].status)
        BY <1>0, <4>1, <4>2, WorkEffects
      <4> QED
        BY <4>3 DEF Worked
    <3>2. Ahead(s, pcs)'
      BY <2>4, <3>1, AheadStep
    <3> QED
      BY <3>2 DEF SubsTrue, Ahead
  <2> QED
    BY <2>2, <2>3, <2>4 DEF SubsTrue
<1> QED
  BY <1>1, <1>2

-----------------------------------------------------------------------------
(* An entitlement is opened by the writing of it. *)
LEMMA OpenedBy ==
  ASSUME Basics, Next, NEW k \in Key2, Has(rows'[k]), ~Has(rows[k])
  PROVE  \E h \in Runner : WriteEntitlement(h) /\ run[h].key = k /\ Granted(h) = TRUE
<1>0. TypeInv /\ EventsTrue /\ Runs /\ rows \in [Key2 -> Seq(BOOLEAN)]
  BY DEF Basics, TypeInv
<1>1. CASE StripeActs
  <2>1. rows' = rows
    BY <1>0, <1>1, StripeTells DEF Tells, tables
  <2> QED
    BY <2>1
<1>2. ASSUME NEW g \in Handler, NEW i \in DOMAIN events, Receive(g, i)
      PROVE  FALSE
  BY <1>2 DEF Receive, tables
<1>3. ASSUME NEW v \in Visitor, NEW z \in Sub, Verify(v, z)
      PROVE  FALSE
  BY <1>3 DEF Verify, tables
<1>4. ASSUME NEW h \in Runner, Works(h)
      PROVE  WriteEntitlement(h) /\ run[h].key = k /\ Granted(h) = TRUE
  <2>1. CASE WriteEntitlement(h)
    <3> DEFINE w == Written(rows[run[h].key], run[h].found, Granted(h))
    <3>1. /\ run[h].key \in Key2 /\ run[h].found \in {0, 1} /\ Granted(h) \in BOOLEAN
          /\ rows[run[h].key] \in Seq(BOOLEAN) /\ rows' = [rows EXCEPT ![run[h].key] = w]
      BY <1>0, <2>1, WriteEffect
    <3>2. Granted(h) = FALSE /\ Has(w) => Has(rows[run[h].key])
      BY <3>1, WrittenHas
    <3> HIDE DEF w
    <3>3. rows'[k] = (IF k = run[h].key THEN w ELSE rows[k])
      BY <1>0, <3>1
    <3>4. k = run[h].key
      BY <3>3
    <3>5. Has(w) /\ ~Has(rows[run[h].key])
      BY <3>3, <3>4
    <3>6. Granted(h) = TRUE
      BY <3>1, <3>2, <3>5, Zenon
    <3> QED
      BY <2>1, <3>4, <3>6
  <2>2. CASE Deactivate(h)
    <3>1. rows'[k] = rows[k] \/ ~Has(rows'[k])
      BY <1>0, <2>2, DeactivateEffect
    <3> QED
      BY <3>1
  <2>3. ASSUME ~WriteEntitlement(h), ~Deactivate(h)
        PROVE  FALSE
    <3>1. rows' = rows
      BY <1>4, <2>3 DEF Works, UpsertUser, UpsertCustomer, Lookup, SelectEntitlement,
         UpsertSubscription, Retrieve, SyncFails, tables
    <3> QED
      BY <3>1
  <2> QED
    BY <2>1, <2>2, <2>3
<1>5. ASSUME NEW h \in Runner, Audit(h) \/ Invoice(h) \/ LogIn(h) \/ Die(h)
      PROVE  FALSE
  BY <1>0, <1>5, EndEffects DEF Ended
<1>6. CookieLapses => FALSE
  BY DEF CookieLapses, tables
<1> QED
  BY <1>1, <1>2, <1>3, <1>4, <1>5, <1>6, StepKinds

LEMMA PaidStep ==
  ASSUME Basics, Next, \A h \in Handler : StatusTrue(h), NEW p \in Product, PaidTrue(p)
  PROVE  PaidTrue(p)'
<1>0. TypeInv /\ EventsTrue /\ Runs /\ stripe \in [Sub -> Status]
  BY DEF Basics, TypeInv, PaywallTypeOK, Status
<1> DEFINE pcs == {"lookup", "subscription", "seek", "entitle", "revoke"}
<1>k. PICK k \in Key2 : k = <<p, Paid>>
  BY DEF Key2, Source
<1>o. /\ Open(p, Paid) <=> Has(rows[k])
      /\ Open(p, Paid)' <=> Has(rows'[k])
  BY <1>k, Zenon DEF Open, Has
<1> SUFFICES ASSUME Has(rows'[k])
             PROVE  \E s \in Sub : /\ ProductOf[s] = p
                                   /\ \/ stripe'[s] = "active" \/ Ahead(s, pcs)'
  BY <1>o DEF PaidTrue, Ahead
<1>1. CASE Has(rows[k])
  <2>1. PICK s \in Sub : ProductOf[s] = p /\ (stripe[s] = "active" \/ Ahead(s, pcs))
    BY <1>1, <1>o DEF PaidTrue
  <2>2. CASE stripe[s] = "active"
    <3>1. stripe'[s] = "active" \/ Ahead(s, pcs)'
      BY <2>2, ChangeAhead
    <3> QED
      BY <2>1, <3>1
  <2>3. CASE stripe[s] # "active" /\ Ahead(s, pcs)
    <3>1. ASSUME NEW h \in Handler, Busy(h), Works(h), run[h].told.sub = s, News(run[h].id, s),
                 run[h].pc \in pcs
          PROVE  run'[h].pc \in pcs
      <4>1. h \in Runner /\ run[h].told.sub \in customers
        BY <3>1, ChangeFound DEF Runner, News
      <4>2. /\ run[h].told.kind \in {"updated", "deleted"} /\ HandlerRuns(h)
            /\ run[h].told = events[run[h].id] /\ IsChange(run[h].id)
        BY <1>0, <3>1, HandlerAt DEF News
      <4>3. run[h].status # "active"
        BY <2>3, <3>1, <4>2 DEF HandlerRuns, News
      <4>4. CASE Lookup(h)
        BY <1>0, <4>1, <4>4, WorkEffects DEF Worked
      <4>5. CASE UpsertSubscription(h) \/ SelectEntitlement(h)
        BY <1>0, <4>1, <4>5, WorkEffects DEF Worked
      <4>6. CASE WriteEntitlement(h)
        <5>1. run[h].key = Key(h, Paid)
          BY <4>2, <4>6 DEF HandlerRuns, WriteEntitlement, At
        <5>2. AfterEntitlement(h) = "revoke"
          BY <4>2, <4>3, <5>1 DEF AfterEntitlement, Key, Paid, Provisional
        <5> QED
          BY <1>0, <4>1, <4>6, <5>2, WorkEffects DEF Worked
      <4>7. CASE Deactivate(h)
        <5>1. run[h].pc = "revoke"
          BY <1>0, <3>1, <4>1, <4>2, <4>7, DeactivateEffect
        <5>2. k = Key(h, Paid)
          BY <1>k, <2>1, <3>1 DEF Key
        <5>3. ~Has(rows'[k])
          BY <1>0, <4>1, <4>7, <5>1, <5>2, DeactivateEffect
        <5> QED
          BY <5>3
      <4> QED
        BY <3>1, <4>2, <4>4, <4>5, <4>6, <4>7
           DEF Works, At, UpsertUser, UpsertCustomer, Retrieve, SyncFails
    <3>2. Ahead(s, pcs)'
      BY <2>3, <3>1, AheadStep
    <3> QED
      BY <2>1, <3>2
  <2> QED
    BY <2>1, <2>2, <2>3
<1>2. CASE ~Has(rows[k])
  <2>1. PICK h \in Runner : WriteEntitlement(h) /\ run[h].key = k /\ Granted(h) = TRUE
    BY <1>2, OpenedBy
  <2>2. Worked(h, AfterEntitlement(h), run[h].key, run[h].status) /\ run[h].pc = "entitle"
    BY <1>0, <2>1, WorkEffects DEF WriteEntitlement, At
  <2>3. Busy(h) /\ run[h].key[2] = Paid /\ Paid # Provisional
    BY <1>k, <2>1, <2>2 DEF Worked, Paid, Provisional
  <2>4. run[h].key = Key(h, Paid) /\ h \in Handler
    BY <1>0, <2>2, <2>3, KeyHeld DEF Key, Runner
  <2>5. Read(h) /\ run[h].status = "active"
    BY <2>1, <2>3, <2>4 DEF Read, Granted
  <2>6. PICK s \in Sub : s = run[h].told.sub
    BY <1>0, <2>3, KeyType DEF Source
  <2>7. ProductOf[s] = p
    BY <1>k, <2>1, <2>4, <2>6 DEF Key
  <2>8. stripe' = stripe /\ events' = events /\ audited' = audited
        /\ run'[h].id = run[h].id /\ \A g \in Runner \ {h} : run'[g] = run[g]
    BY <2>2 DEF Worked
  <2>9. CASE stripe[s] = "active"
    BY <2>7, <2>8, <2>9
  <2>10. CASE Coming(s, run[h].id)
    <3>1. PICK j \in DOMAIN events \ audited : News(j, s) /\ j # run[h].id /\ Free(j)
      BY <2>3, <2>4, <2>6, <2>10, ComingFree
    <3>2. News(j, s)'
      BY <2>8, <3>1 DEF News, IsChange
    <3>3. ASSUME NEW g \in Handler, Busy(g)'
          PROVE  run'[g].id # j
      BY <2>8, <3>1, <3>3 DEF Free, Busy, Runner
    <3>4. Ahead(s, pcs)'
      BY <2>8, <3>1, <3>2, <3>3 DEF Ahead
    <3> QED
      BY <2>7, <3>4
  <2> QED
    BY <2>3, <2>4, <2>5, <2>6, <2>9, <2>10 DEF StatusTrue
<1> QED
  BY <1>1, <1>2

-----------------------------------------------------------------------------
(* Access is paid for                                                      *)

LEMMA AccessInit == Init => AccessInv
<1> SUFFICES ASSUME Init
             PROVE  AccessInv
  OBVIOUS
<1>1. \A h \in Runner : run[h] = Resting
  BY DEF Init, Runner
<1>2. TypeInv
  <2>1. TypeParts
    <3>1. run \in [Runner -> {Resting} \cup Running]
      BY DEF Init, Runner
    <3>2. rows \in [Key2 -> Seq(BOOLEAN)]
      <4>1. <<>> \in Seq(BOOLEAN)
        OBVIOUS
      <4> QED
        BY <4>1 DEF Init, Key2
    <3>3. events \in Seq(Fact)
      BY DEF Init
    <3> QED
      BY <3>1, <3>2, <3>3 DEF Init, TypeParts, Status
  <2> QED
    BY <2>1, TypeIsParts
<1>3. EventsTrue /\ AuditedInOrder /\ InOrder
  BY <1>1 DEF Init, EventsTrue, AuditedInOrder, InOrder, Busy, Runner
<1>4. Runs
  BY <1>1 DEF Init, Runs, Busy, Runner
<1>5. \A h \in Handler : StatusTrue(h)
  BY <1>1 DEF StatusTrue, Busy, Runner
<1>6. \A s \in Sub : SubsTrue(s)
  BY DEF Init, SubsTrue
<1>7. ASSUME NEW p \in Product
      PROVE  PaidTrue(p)
  <2>1. PICK k \in Key2 : k = <<p, Paid>>
    BY DEF Key2, Source
  <2>2. rows[k] = <<>>
    BY DEF Init, Key2
  <2>3. ~Has(rows[k])
    <3>0. <<>> \in Seq(BOOLEAN)
      OBVIOUS
    <3>1. PICK q \in Seq(BOOLEAN) : q = <<>>
      BY <3>0, Zenon
    <3>2. 1 .. Len(q) = {}
      BY <3>1
    <3>3. ~Has(q)
      BY <3>2, HasAt
    <3> QED
      BY <2>2, <3>1, <3>3
  <2>4. ~Open(p, Paid)
    BY <2>1, <2>3, OpenHas
  <2> QED
    BY <2>4 DEF PaidTrue
<1> QED
  BY <1>2, <1>3, <1>4, <1>5, <1>6, <1>7 DEF AccessInv

LEMMA AccessStep ==
  ASSUME ToldInOrder, AccessInv, [Next]_vars
  PROVE  AccessInv'
<1>1. CASE UNCHANGED vars
  <2>1. UNCHANGED <<stripe, events, audited, user, cookie, customers, subs, rows, run>>
    BY <1>1 DEF vars
  <2>2. TypeInv'
    BY <2>1 DEF AccessInv, TypeInv, PaywallTypeOK
  <2>3. EventsTrue'
    BY <2>1 DEF AccessInv, EventsTrue, EventTrue, Coming, News, IsChange
  <2>4. AuditedInOrder' /\ InOrder'
    BY <2>1 DEF AccessInv, AuditedInOrder, InOrder, Busy
  <2>5. Runs'
    BY <2>1 DEF AccessInv, Runs, Busy, VisitorRuns, HandlerRuns, Key, IsChange
  <2>6. \A h \in Handler : StatusTrue(h)'
    BY <2>1 DEF AccessInv, StatusTrue, Busy, Read, Key, Coming, News, IsChange
  <2>7. \A s \in Sub : SubsTrue(s)'
    BY <2>1 DEF AccessInv, SubsTrue, Ahead, Busy, News, IsChange
  <2>8. \A p \in Product : PaidTrue(p)'
    <3>1. ASSUME NEW p \in Product
          PROVE  Open(p, Paid)' <=> Open(p, Paid)
      BY <2>1, Zenon DEF Open
    <3>2. ASSUME NEW s \in Sub, NEW pcs
          PROVE  Ahead(s, pcs) => Ahead(s, pcs)'
      BY <2>1 DEF Ahead, Busy, News, IsChange
    <3>3. ASSUME NEW p \in Product
          PROVE  PaidTrue(p)'
      <4>1. PaidTrue(p) /\ (Open(p, Paid)' <=> Open(p, Paid))
        BY <3>1 DEF AccessInv
      <4>2. CASE ~Open(p, Paid)
        BY <4>1, <4>2 DEF PaidTrue
      <4>3. CASE Open(p, Paid)
        <5> DEFINE pcs == {"lookup", "subscription", "seek", "entitle", "revoke"}
        <5>1. PICK s \in Sub : ProductOf[s] = p /\ (stripe[s] = "active" \/ Ahead(s, pcs))
          BY <4>1, <4>3 DEF PaidTrue
        <5>2. ProductOf[s] = p /\ (stripe'[s] = "active" \/ Ahead(s, pcs)')
          BY <2>1, <3>2, <5>1
        <5>3. \E z \in Sub : ProductOf[z] = p /\ (stripe'[z] = "active" \/ Ahead(z, pcs)')
          BY <5>2
        <5> QED
          BY <5>3 DEF PaidTrue, Ahead
      <4> QED
        BY <4>2, <4>3
    <3> QED
      BY <3>3
  <2> QED
    BY <2>2, <2>3, <2>4, <2>5, <2>6, <2>7, <2>8 DEF AccessInv
<1>2. CASE Next
  <2>1. Basics
    BY DEF AccessInv, Basics
  <2>2. Basics'
    BY <1>2, <2>1, BasicsStep
  <2>3. \A h \in Handler : StatusTrue(h)'
    BY <1>2, <2>1, StatusStep DEF AccessInv
  <2>4. \A s \in Sub : SubsTrue(s)'
    BY <1>2, <2>1, SubsStep DEF AccessInv
  <2>5. \A p \in Product : PaidTrue(p)'
    BY <1>2, <2>1, PaidStep DEF AccessInv
  <2> QED
    BY <2>2, <2>3, <2>4, <2>5 DEF AccessInv, Basics
<1> QED
  BY <1>1, <1>2

LEMMA UnorderedStutter ==
  ASSUME Unordered, UNCHANGED vars
  PROVE  Unordered'
BY DEF vars, Unordered, TypeInv, PaywallTypeOK, EventsTrue, EventTrue, Coming, News, IsChange,
       Runs, Busy, VisitorRuns, HandlerRuns, Key

LEMMA UnorderedInvariant == Spec => []Unordered
<1>1. Init => Unordered
  BY AccessInit DEF AccessInv, Unordered
<1>2. Unordered /\ [Next]_vars => Unordered'
  BY UnorderedStep, UnorderedStutter
<1> QED
  BY <1>1, <1>2, PTL DEF Spec

LEMMA AccessInvariant ==
  ASSUME ToldInOrder
  PROVE  Spec => []AccessInv
<1>1. AccessInv /\ [Next]_vars => AccessInv'
  BY AccessStep
<1> QED
  BY <1>1, AccessInit, PTL DEF Spec

(* Every reachable state is well-typed.                                    *)
THEOREM PaywallTypeCorrect == Spec => []PaywallTypeOK
<1>1. Unordered => PaywallTypeOK
  BY DEF Unordered, TypeInv
<1> QED
  BY <1>1, UnorderedInvariant, PTL

(* If Stripe tells a subscription's events in their order, each until it   *)
(* is answered, then once every event has its audit row, whatever died on  *)
(* the way and however many return pages wrote their own rows besides,     *)
(* hasActiveEntitlement() opens a lesson only to a user who pays.          *)
THEOREM AccessAlwaysPaid ==
  ASSUME ToldInOrder
  PROVE  Spec => []AccessIsPaid
<1>1. ASSUME AccessInv, Settled, LessonShown
      PROVE  \E s \in Sub : stripe[s] = "active"
  <2>1. \A s \in Sub : \A pcs : ~Ahead(s, pcs)
    BY <1>1 DEF Settled, Ahead
  <2>2. Access("academy")
    BY <1>1 DEF LessonShown, AccessInfo
  <2>3. PICK source \in Source : /\ Open("academy", source)
                                 /\ source = Paid \/ \E s \in Sub : subs[s] = "active"
    BY <2>2 DEF Access, Open
  <2>4. CASE source = Paid
    <3>1. PaidTrue("academy")
      BY <1>1, PaywallAssumption DEF AccessInv
    <3> QED
      BY <2>1, <2>3, <2>4, <3>1 DEF PaidTrue
  <2>5. CASE \E s \in Sub : subs[s] = "active"
    <3>1. PICK s \in Sub : subs[s] = "active"
      BY <2>5
    <3>2. SubsTrue(s)
      BY <1>1 DEF AccessInv
    <3> QED
      BY <2>1, <3>1, <3>2 DEF SubsTrue
  <2> QED
    BY <2>3, <2>4, <2>5
<1>2. AccessInv => AccessIsPaid
  BY <1>1 DEF AccessIsPaid
<1> QED
  BY <1>2, AccessInvariant, PTL

-----------------------------------------------------------------------------
(* What an entitlement found stays, and who is logged in                   *)

(* A row of entitlements is never emptied. *)
LEMMA RowsStay ==
  ASSUME Unordered, Next, NEW k \in Key2, rows[k] # <<>>
  PROVE  rows'[k] # <<>>
<1>0. TypeInv /\ EventsTrue /\ Runs /\ rows \in [Key2 -> Seq(BOOLEAN)]
  BY DEF Unordered, TypeInv
<1>1. ASSUME rows' = rows
      PROVE  rows'[k] # <<>>
  BY <1>1
<1>2. CASE StripeActs
  BY <1>0, <1>1, <1>2, StripeTells DEF Tells, tables
<1>3. ASSUME NEW g \in Handler, NEW i \in DOMAIN events, Receive(g, i)
      PROVE  rows' = rows
  BY <1>3 DEF Receive, tables
<1>4. ASSUME NEW v \in Visitor, NEW z \in Sub, Verify(v, z)
      PROVE  rows' = rows
  BY <1>4 DEF Verify, tables
<1>5. ASSUME NEW h \in Runner, Works(h)
      PROVE  rows'[k] # <<>>
  <2>1. CASE WriteEntitlement(h)
    <3> DEFINE w == Written(rows[run[h].key], run[h].found, Granted(h))
    <3>1. /\ run[h].key \in Key2 /\ run[h].found \in {0, 1} /\ Granted(h) \in BOOLEAN
          /\ rows[run[h].key] \in Seq(BOOLEAN) /\ rows' = [rows EXCEPT ![run[h].key] = w]
      BY <1>0, <2>1, WriteEffect
    <3>2. rows[run[h].key] # <<>> => w # <<>>
      BY <3>1, WrittenType
    <3> HIDE DEF w
    <3>3. rows'[k] = (IF k = run[h].key THEN w ELSE rows[k])
      BY <1>0, <3>1
    <3> QED
      BY <3>2, <3>3
  <2>2. CASE Deactivate(h)
    <3>1. rows'[k] = Off(rows[k]) \/ rows'[k] = rows[k]
      BY <1>0, <2>2 DEF Deactivate
    <3>2. rows[k] \in Seq(BOOLEAN) /\ Len(rows[k]) > 0
      BY <1>0
    <3>3. Off(rows[k]) = [i \in 1 .. Len(rows[k]) |-> FALSE]
      BY <3>2 DEF Off
    <3>4. Off(rows[k]) \in Seq(BOOLEAN)
      BY <3>2, OffHas
    <3>5. Len(Off(rows[k])) = Len(rows[k])
      BY <3>2, <3>3
    <3>6. Off(rows[k]) # <<>>
      BY <3>2, <3>4, <3>5
    <3> QED
      BY <3>1, <3>6
  <2>3. ASSUME ~WriteEntitlement(h), ~Deactivate(h)
        PROVE  rows' = rows
    BY <1>5, <2>3 DEF Works, UpsertUser, UpsertCustomer, Lookup, SelectEntitlement,
         UpsertSubscription, Retrieve, SyncFails, tables
  <2> QED
    BY <1>1, <2>1, <2>2, <2>3
<1>6. ASSUME NEW h \in Runner, Audit(h) \/ Invoice(h) \/ LogIn(h) \/ Die(h)
      PROVE  rows' = rows
  BY <1>0, <1>6, EndEffects DEF Ended
<1>7. CookieLapses => rows' = rows
  BY DEF CookieLapses, tables
<1> QED
  BY <1>1, <1>2, <1>3, <1>4, <1>5, <1>6, <1>7, StepKinds

LEMMA FoundStep ==
  ASSUME Unordered, Next, NEW h \in Runner, FoundTrue(h)
  PROVE  FoundTrue(h)'
<1>0. TypeInv /\ EventsTrue /\ Runs
  BY DEF Unordered
<1>1. ASSUME run'[h] = run[h]
      PROVE  FoundTrue(h)'
  <2>1. SUFFICES ASSUME Busy(h), run[h].pc = "entitle", run[h].found = 1
                 PROVE  rows'[run[h].key] # <<>>
    BY <1>1 DEF FoundTrue, Busy
  <2>2. PICK k \in Key2 : k = run[h].key
    BY <1>0, <2>1, KeyHeld
  <2>3. rows'[k] # <<>>
    BY <2>1, <2>2, RowsStay DEF FoundTrue
  <2> QED
    BY <2>2, <2>3
<1>2. ASSUME Busy(h)' => run'[h].pc # "entitle"
      PROVE  FoundTrue(h)'
  BY <1>2 DEF FoundTrue
<1>3. CASE StripeActs
  BY <1>0, <1>1, <1>3, StripeTells DEF Tells
<1>4. ASSUME NEW g \in Handler, NEW i \in DOMAIN events, Receive(g, i)
      PROVE  FoundTrue(h)'
  <2>1. Started(g, FirstStep(events[i].kind), events[i], i)
    BY <1>0, <1>4, ReceiveEffect DEF Runner
  <2>2. run'[g].pc # "entitle"
    BY <2>1 DEF Started, FirstStep
  <2> QED
    BY <1>1, <1>2, <2>1, <2>2 DEF Started
<1>5. ASSUME NEW v \in Visitor, NEW z \in Sub, Verify(v, z)
      PROVE  FoundTrue(h)'
  <2>1. Started(v, "user", Told("verify", z, stripe[z]), 0)
    BY <1>0, <1>5, VerifyEffect DEF Runner
  <2>2. run'[v].pc # "entitle"
    BY <2>1 DEF Started
  <2> QED
    BY <1>1, <1>2, <2>1, <2>2 DEF Started
<1>6. ASSUME NEW g \in Runner, Works(g)
      PROVE  FoundTrue(h)'
  <2>1. CASE g # h
    BY <1>0, <1>1, <1>6, <2>1, WorksWorked DEF Worked
  <2>2. CASE g = h /\ SelectEntitlement(h)
    <3>1. /\ run'[h].key = run[h].key
          /\ run'[h].found = (IF rows[run[h].key] = <<>> THEN 0 ELSE 1)
          /\ rows' = rows
      BY <1>0, <2>2, WorkEffects DEF Worked, SelectEntitlement, tables
    <3> QED
      BY <3>1 DEF FoundTrue
  <2>3. CASE g = h /\ ~SelectEntitlement(h)
    <3>1. AfterEntitlement(h) # "entitle"
      BY DEF AfterEntitlement
    <3>2. run'[h].pc # "entitle"
      BY <1>0, <1>6, <2>3, <3>1, WorkEffects DEF Works, Worked
    <3> QED
      BY <1>2, <3>2
  <2> QED
    BY <2>1, <2>2, <2>3
<1>7. ASSUME NEW g \in Runner, Audit(g) \/ Invoice(g) \/ LogIn(g) \/ Die(g)
      PROVE  FoundTrue(h)'
  <2>1. Ended(g)
    BY <1>0, <1>7, EndEffects
  <2> QED
    BY <1>1, <1>2, <2>1 DEF Ended, Busy
<1>8. CookieLapses => FoundTrue(h)'
  BY <1>1 DEF CookieLapses
<1> QED
  BY <1>3, <1>4, <1>5, <1>6, <1>7, <1>8, StepKinds

LEMMA CookieStep ==
  ASSUME Unordered, Next, cookie => user
  PROVE  cookie' => user'
<1>0. TypeInv /\ EventsTrue /\ Runs /\ user \in BOOLEAN /\ cookie \in BOOLEAN
  BY DEF Unordered, TypeInv, PaywallTypeOK
<1>1. CASE StripeActs
  BY <1>0, <1>1, StripeTells DEF Tells, tables
<1>2. ASSUME NEW g \in Handler, NEW i \in DOMAIN events, Receive(g, i)
      PROVE  cookie' => user'
  BY <1>2 DEF Receive, Same, tables
<1>3. ASSUME NEW v \in Visitor, NEW z \in Sub, Verify(v, z)
      PROVE  cookie' => user'
  BY <1>3 DEF Verify, Same, tables
<1>4. ASSUME NEW h \in Runner, Works(h)
      PROVE  cookie' => user'
  <2>1. cookie' = cookie
    BY <1>0, <1>4, WorksWorked DEF Worked
  <2>2. user => user'
    BY <1>4 DEF Works, UpsertUser, UpsertCustomer, Lookup, SelectEntitlement, WriteEntitlement,
         UpsertSubscription, Retrieve, Deactivate, SyncFails, tables
  <2> QED
    BY <2>1, <2>2
<1>5. ASSUME NEW h \in Runner, Audit(h) \/ Invoice(h) \/ LogIn(h) \/ Die(h)
      PROVE  cookie' => user'
  <2>1. Ended(h)
    BY <1>0, <1>5, EndEffects
  <2>2. CASE LogIn(h)
    <3>1. run[h].pc = "login"
      BY <1>0, <2>2, EndEffects
    <3>2. user
      BY <1>0, <2>1, <3>1, HandlerAt, VisitorAt DEF Ended, Runner
    <3> QED
      BY <2>1, <3>2 DEF Ended
  <2>3. CASE ~LogIn(h)
    BY <1>0, <1>5, <2>1, <2>3, EndEffects DEF Ended
  <2> QED
    BY <2>2, <2>3
<1>6. CookieLapses => (cookie' => user')
  BY DEF CookieLapses
<1> QED
  BY <1>1, <1>2, <1>3, <1>4, <1>5, <1>6, StepKinds

-----------------------------------------------------------------------------
(* The steps beside a handler                                              *)

LEMMA AloneStays ==
  ASSUME Unordered, Next, NEW s \in Sub, Alone(s)'
  PROVE  Alone(s)
<1>1. ASSUME NEW t \in Sub \ {s}, stripe[t] # "none"
      PROVE  FALSE
  BY <1>1, StripeStays DEF Unordered, Alone
<1> QED
  BY <1>1 DEF Alone

LEMMA AloneRuns ==
  ASSUME Unordered, NEW s \in Sub, Alone(s), NEW h \in Runner, Busy(h)
  PROVE  run[h].told.sub = s
<1>1. run[h].told.sub \in Sub /\ stripe[run[h].told.sub] # "none"
  BY RunnerBusy DEF Unordered, Running, Fact, Runs
<1> QED
  BY <1>1 DEF Alone

KeyOf(s, source) == <<ProductOf[s], source>>

LEMMA KeyOfs ==
  ASSUME NEW s \in Sub, NEW source \in Source
  PROVE  /\ KeyOf(s, source) \in Key2
         /\ Open(ProductOf[s], source) <=> Has(rows[KeyOf(s, source)])
         /\ Open(ProductOf[s], source)' <=> Has(rows'[KeyOf(s, source)])
<1>1. ProductOf[s] \in Product
  BY PaywallAssumption
<1>2. KeyOf(s, source) \in Key2
  BY <1>1 DEF KeyOf, Key2
<1>3. Open(ProductOf[s], source) <=> Has(rows[KeyOf(s, source)])
  BY Zenon DEF Open, Has, KeyOf
<1>4. Open(ProductOf[s], source)' <=> Has(rows'[KeyOf(s, source)])
  BY Zenon DEF Open, Has, KeyOf
<1> QED
  BY <1>2, <1>3, <1>4

(* What the step of another than a handler leaves open, and what it says   *)
(* of the subscription                                                     *)
Undisturbed(s) ==
  /\ \A source \in Source : Open(ProductOf[s], source) => Open(ProductOf[s], source)'
  /\ subs'[s] = subs[s]

LEMMA UndisturbedRows ==
  ASSUME NEW s \in Sub, rows' = rows, subs' = subs
  PROVE  Undisturbed(s)
BY KeyOfs DEF Undisturbed

LEMMA WriteOpens ==
  ASSUME Unordered, NEW h \in Runner, FoundTrue(h), WriteEntitlement(h), Granted(h) = TRUE, NEW k \in Key2
  PROVE  /\ Has(rows'[run[h].key])
         /\ Has(rows[k]) => Has(rows'[k])
<1> DEFINE w == Written(rows[run[h].key], run[h].found, Granted(h))
<1>1. /\ run[h].key \in Key2 /\ run[h].found \in {0, 1} /\ Granted(h) \in BOOLEAN
      /\ rows[run[h].key] \in Seq(BOOLEAN) /\ rows' = [rows EXCEPT ![run[h].key] = w]
      /\ Busy(h) /\ run[h].pc = "entitle" /\ rows \in [Key2 -> Seq(BOOLEAN)]
  BY WriteEffect DEF Unordered, TypeInv
<1>2. run[h].found = 0 \/ rows[run[h].key] # <<>>
  BY <1>1 DEF FoundTrue
<1>3. Has(w)
  BY <1>1, <1>2, WrittenHas
<1> HIDE DEF w
<1>4. rows'[k] = (IF k = run[h].key THEN w ELSE rows[k]) /\ rows'[run[h].key] = w
  BY <1>1
<1> QED
  BY <1>3, <1>4

LEMMA VisitorUndisturbs ==
  ASSUME Unordered, NEW s \in Sub, NEW v \in Visitor, FoundTrue(v), Works(v)
  PROVE  Undisturbed(s)
<1>0. TypeInv /\ EventsTrue /\ Runs /\ v \in Runner
  BY DEF Unordered, Runner
<1>1. Busy(v)
  BY <1>0, WorksWorked DEF Worked
<1>2. /\ VisitorRuns(v) /\ run[v].told.kind = "verify"
      /\ run[v].pc \in {"user", "customer", "seek", "entitle", "login"}
  BY <1>0, <1>1, VisitorAt
<1>3. CASE WriteEntitlement(v)
  <2>1. run[v].pc = "entitle"
    BY <1>3 DEF WriteEntitlement, At
  <2>2. run[v].key = Key(v, Provisional)
    BY <1>0, <1>1, <2>1, KeyHeld
  <2>3. Granted(v) = TRUE
    BY <2>2 DEF Granted, Key
  <2>4. \A k \in Key2 : Has(rows[k]) => Has(rows'[k])
    BY <1>0, <1>3, <2>3, WriteOpens
  <2>5. subs' = subs
    BY <1>3 DEF WriteEntitlement
  <2> QED
    BY <2>4, <2>5, KeyOfs DEF Undisturbed
<1>4. CASE ~WriteEntitlement(v)
  <2>1. UNCHANGED <<rows, subs>>
    BY <1>2, <1>4 DEF Works, At, UpsertUser, UpsertCustomer, Lookup, SelectEntitlement, Retrieve,
       UpsertSubscription, Deactivate, SyncFails, tables
  <2> QED
    BY <2>1, UndisturbedRows
<1> QED
  BY <1>3, <1>4

(* No step but those of the handler at work disturbs what is open.         *)
LEMMA OthersUndisturb ==
  ASSUME Unordered, Next, \A x \in Runner : FoundTrue(x), NEW s \in Sub,
         \A h \in Handler : ~Works(h)
  PROVE  Undisturbed(s)
<1>0. TypeInv /\ EventsTrue /\ Runs
  BY DEF Unordered
<1>1. CASE StripeActs
  BY <1>0, <1>1, StripeTells, UndisturbedRows DEF Tells, tables
<1>2. ASSUME NEW g \in Handler, NEW i \in DOMAIN events, Receive(g, i)
      PROVE  Undisturbed(s)
  BY <1>2, UndisturbedRows DEF Receive, tables
<1>3. ASSUME NEW v \in Visitor, NEW z \in Sub, Verify(v, z)
      PROVE  Undisturbed(s)
  BY <1>3, UndisturbedRows DEF Verify, tables
<1>4. ASSUME NEW h \in Runner, Works(h)
      PROVE  Undisturbed(s)
  BY <1>0, <1>4, VisitorUndisturbs DEF Runner
<1>5. ASSUME NEW h \in Runner, Audit(h) \/ Invoice(h) \/ LogIn(h) \/ Die(h)
      PROVE  Undisturbed(s)
  BY <1>0, <1>5, EndEffects, UndisturbedRows DEF Ended
<1>6. CookieLapses => Undisturbed(s)
  BY UndisturbedRows DEF CookieLapses, tables
<1> QED
  BY <1>1, <1>2, <1>3, <1>4, <1>5, <1>6, StepKinds

LEMMA ServedStays ==
  ASSUME NEW s \in Sub, Undisturbed(s), Served(s)
  PROVE  Served(s)'
<1>1. {Provisional, Paid} \subseteq Source
  BY DEF Source
<1> QED
  BY <1>1 DEF Undisturbed, Served

(* A correction that is to come, comes. *)
LEMMA ActiveComing ==
  ASSUME Basics, Next, NEW s \in Sub, NEW i \in DOMAIN events, stripe[s] # "none",
         stripe'[s] = "active", stripe[s] # "active" \/ Coming(s, i)
  PROVE  Coming(s, i)'
<1>0. TypeInv /\ EventsTrue /\ stripe \in [Sub -> Status]
  BY DEF Basics, TypeInv, PaywallTypeOK, Status
<1>1. PICK st \in Status \ {"none"} : st # "active" /\ (st = stripe[s] \/ Coming(s, i))
  <2>1. CASE stripe[s] # "active"
    BY <1>0, <2>1
  <2>2. CASE Coming(s, i)
    BY <2>2 DEF Status
  <2> QED
    BY <2>1, <2>2
<1>2. st = stripe'[s] \/ Coming(s, i)'
  BY <1>0, <1>1, ComingStays
<1> QED
  BY <1>1, <1>2

LEMMA ServesKept ==
  ASSUME Basics, Next, NEW s \in Sub, Undisturbed(s), NEW h \in Handler, Busy(h), run[h].told.sub = s,
         run'[h] = run[h], Serves(h)
  PROVE  Serves(h)'
<1>0. Unordered /\ TypeInv /\ EventsTrue /\ Runs /\ h \in Runner
  BY DEF Basics, Unordered, Runner
<1>1. PICK i \in DOMAIN events : i = run[h].id
  BY <1>0, HandlerAt
<1>2. IsChange(i)' <=> IsChange(i)
  <2>1. CASE ~StripeActs
    BY <1>0, <2>1, OnlyStripe DEF IsChange
  <2>2. CASE StripeActs
    BY <1>0, <2>2, StripeTells DEF IsChange, Tells
  <2> QED
    BY <2>1, <2>2
<1>3. /\ Open(ProductOf[s], Paid) => Open(ProductOf[s], Paid)'
      /\ Open(ProductOf[s], Provisional) => Open(ProductOf[s], Provisional)'
  BY DEF Undisturbed, Source
<1>4. run[h].told.kind = "checkout" /\ run[h].pc = "audit" /\ stripe'[s] = "active" =>
        Served(s)' \/ Coming(s, i)'
  <2>1. SUFFICES ASSUME run[h].told.kind = "checkout", run[h].pc = "audit", stripe'[s] = "active"
                 PROVE  Served(s)' \/ Coming(s, i)'
    OBVIOUS
  <2>2. stripe[s] # "none"
    BY <1>0 DEF Runs
  <2>3. stripe[s] # "active" \/ Served(s) \/ Coming(s, i)
    BY <1>1, <2>1 DEF Serves
  <2> QED
    BY <2>1, <2>2, <2>3, ActiveComing, ServedStays
<1> QED
  BY <1>1, <1>2, <1>3, <1>4 DEF Serves, Key, IsChange, Served, Open, Coming, News

-----------------------------------------------------------------------------
(* The steps of a handler                                                  *)

(* A handler at work of the only subscription, and what it leaves open *)
LEMMA ServesOwn ==
  ASSUME Basics, Next, NEW s \in Sub, SubsTrue(s), NEW h \in Handler, FoundTrue(h), StatusTrue(h),
         Busy(h), run[h].told.sub = s, Works(h), Serves(h)
  PROVE  Serves(h)'
<1>0. TypeInv /\ EventsTrue /\ Runs /\ h \in Runner
  BY DEF Basics, Runner
<1>u. Unordered
  BY DEF Basics, Unordered
<1>p. {Provisional, Paid} \subseteq Source /\ Provisional # Paid
  BY DEF Source, Provisional, Paid
<1>e. /\ HandlerRuns(h) /\ run[h].id \in DOMAIN events \ audited /\ run[h].told = events[run[h].id]
      /\ IsChange(run[h].id) <=> run[h].told.kind \in {"updated", "deleted"}
  BY <1>0, HandlerAt DEF Basics, InOrder
<1>i. PICK i \in DOMAIN events : i = run[h].id
  BY <1>e
<1>a. PICK paid \in Key2 : paid = KeyOf(s, Paid)
  BY <1>p, KeyOfs
<1>b. PICK prov \in Key2 : prov = KeyOf(s, Provisional)
  BY <1>p, KeyOfs
<1>k. paid = Key(h, Paid) /\ prov = Key(h, Provisional) /\ paid # prov
      /\ paid[2] = Paid /\ prov[2] = Provisional
  BY <1>p, <1>a, <1>b DEF Key, KeyOf
<1>o. /\ Open(ProductOf[s], Paid) <=> Has(rows[paid])
      /\ Open(ProductOf[s], Provisional) <=> Has(rows[prov])
      /\ Open(ProductOf[s], Paid)' <=> Has(rows'[paid])
      /\ Open(ProductOf[s], Provisional)' <=> Has(rows'[prov])
  BY <1>p, <1>a, <1>b, KeyOfs
<1>w. /\ run'[h].told = run[h].told /\ run'[h].id = run[h].id /\ UNCHANGED <<stripe, events, audited>>
  BY <1>0, WorksWorked DEF Worked
<1>s. /\ run[h].told.kind = "checkout" =>
           /\ run[h].pc \in {"retrieve", "subscription"} => Has(rows[prov])
           /\ run[h].pc \in {"seek", "entitle"} /\ run[h].key = paid => Has(rows[prov])
           /\ run[h].pc = "retire" /\ run[h].status = "active" => Has(rows[paid])
      /\ IsChange(i) /\ run[h].pc = "revoke" => run[h].status # "active"
  BY <1>i, <1>k, <1>o DEF Serves
<1>c. Coming(s, i)' <=> Coming(s, i)
  BY <1>w DEF Coming, News, IsChange
(* It is enough to say it of where the handler is now. *)
<1>g. SUFFICES
        /\ run[h].told.kind = "checkout" =>
             /\ run'[h].pc \in {"retrieve", "subscription"} => Has(rows'[prov])
             /\ run'[h].pc \in {"seek", "entitle"} /\ run'[h].key = paid => Has(rows'[prov])
             /\ run'[h].pc = "retire" /\ run'[h].status = "active" => Has(rows'[paid])
             /\ run'[h].pc = "audit" /\ stripe[s] = "active" => Served(s)' \/ Coming(s, i)
        /\ IsChange(i) =>
             /\ run'[h].pc = "audit" /\ run'[h].status = "active" => Has(rows'[paid])
             /\ run'[h].pc = "revoke" => run'[h].status # "active"
  <2>1. Key(h, Paid)' = paid
    BY <1>k, <1>w DEF Key
  <2>2. IsChange(i)' <=> IsChange(i)
    BY <1>w DEF IsChange
  <2> QED
    BY <1>i, <1>o, <1>w, <1>c, <2>1, <2>2 DEF Serves, IsChange, Served, Open, Coming, News
<1>1. CASE UpsertUser(h)
  BY <1>0, <1>e, <1>i, <1>1, WorkEffects, HandlerAt DEF Worked, UpsertUser, At
<1>2. CASE UpsertCustomer(h)
  <2>1. run'[h].pc = "seek" /\ run'[h].key = prov /\ run[h].told.kind = "checkout"
    BY <1>0, <1>k, <1>2, WorkEffects, HandlerAt DEF Worked, UpsertCustomer, At
  <2> QED
    BY <1>e, <1>i, <1>k, <2>1
<1>3. CASE Lookup(h)
  <2>1. run[h].pc = "lookup" /\ run[h].told.kind # "checkout"
    BY <1>0, <1>3, HandlerAt DEF Lookup, At
  <2>2. IsChange(i) => run'[h].pc = "subscription"
    BY <1>0, <1>i, <1>3, ChangeFound, WorkEffects DEF Worked
  <2> QED
    BY <2>1, <2>2
<1>4. CASE SelectEntitlement(h)
  <2>1. /\ run[h].pc = "seek" /\ run'[h].pc = "entitle" /\ run'[h].key = run[h].key
        /\ rows' = rows
    BY <1>0, <1>4, WorkEffects DEF Worked, SelectEntitlement, At, tables
  <2> QED
    BY <1>s, <2>1
<1>5. CASE WriteEntitlement(h)
  <2>0. /\ run[h].pc = "entitle" /\ run'[h].pc = AfterEntitlement(h) /\ run'[h].key = run[h].key
        /\ run'[h].status = run[h].status
    BY <1>0, <1>5, WorkEffects DEF Worked, WriteEntitlement, At
  <2>1. run[h].key \in {paid, prov}
    BY <1>0, <1>k, <2>0, KeyHeld
  <2>2. /\ run[h].key = prov => Granted(h) = TRUE
        /\ run[h].key = paid => (Granted(h) <=> run[h].status = "active")
    BY <1>p, <1>k DEF Granted
  <2>3. Granted(h) = TRUE => Has(rows'[run[h].key])
    BY <1>0, <1>u, <1>5, WriteOpens
  <2>4. CASE run[h].told.kind = "checkout"
    <3>1. CASE run[h].key = prov
      <4>1. run'[h].pc = "retrieve"
        BY <1>p, <1>k, <2>0, <2>4, <3>1 DEF AfterEntitlement
      <4> QED
        BY <1>e, <1>i, <2>2, <2>3, <2>4, <3>1, <4>1
    <3>2. CASE run[h].key = paid
      <4>1. run'[h].pc = "retire"
        BY <1>p, <1>k, <2>0, <2>4, <3>2 DEF AfterEntitlement
      <4>2. run[h].status = "active" => Granted(h) = TRUE
        <5>1. Granted(h) \in BOOLEAN
          BY DEF Granted
        <5> QED
          BY <2>2, <3>2, <5>1
      <4> QED
        BY <1>e, <1>i, <2>0, <2>3, <2>4, <3>2, <4>1, <4>2
    <3> QED
      BY <2>1, <3>1, <3>2
  <2>5. CASE run[h].told.kind # "checkout"
    <3>1. SUFFICES ASSUME IsChange(i)
                   PROVE  /\ run'[h].pc = "audit" /\ run'[h].status = "active" => Has(rows'[paid])
                          /\ run'[h].pc = "revoke" => run'[h].status # "active"
      BY <2>5
    <3>2. run[h].key = paid /\ run[h].status = events[i].status /\ run[h].told.kind \in {"updated", "deleted"}
      BY <1>e, <1>i, <1>k, <2>0, <3>1 DEF HandlerRuns
    <3>3. run[h].told.kind = "deleted" => run[h].status # "active"
      BY <1>0, <1>e, <1>i, <3>2 DEF EventsTrue, EventTrue
    <3>4. AfterEntitlement(h) = "revoke" => run[h].status # "active"
      BY <1>p, <1>k, <3>2, <3>3 DEF AfterEntitlement
    <3>5. run[h].status = "active" => Granted(h) = TRUE
      <4>1. Granted(h) \in BOOLEAN
        BY DEF Granted
      <4> QED
        BY <2>2, <3>2, <4>1
    <3> QED
      BY <2>0, <2>3, <3>2, <3>4, <3>5
  <2> QED
    BY <2>4, <2>5
<1>6. CASE Retrieve(h)
  <2>1. /\ run[h].pc = "retrieve" /\ run'[h].pc = "subscription" /\ rows' = rows
        /\ run[h].told.kind = "checkout"
    BY <1>0, <1>6, WorkEffects, HandlerAt DEF Worked, Retrieve, At, tables
  <2> QED
    BY <1>e, <1>i, <1>s, <2>1
<1>7. CASE UpsertSubscription(h)
  <2>1. /\ run[h].pc = "subscription" /\ run'[h].pc = "seek" /\ rows' = rows
    BY <1>0, <1>7, WorkEffects DEF Worked, UpsertSubscription, At
  <2> QED
    BY <1>s, <2>1
<1>8. CASE Deactivate(h)
  <2>1. /\ run[h].pc \in {"retire", "revoke"} /\ run'[h].pc = "audit" /\ run'[h].status = run[h].status
        /\ run'[h].key = run[h].key
    BY <1>0, <1>8, WorkEffects, DeactivateEffect DEF Worked
  <2>2. CASE run[h].pc = "retire"
    <3>1. run[h].told.kind = "checkout" /\ ~IsChange(i) /\ run[h].key = paid
      BY <1>0, <1>e, <1>i, <1>k, <2>2, HandlerAt DEF HandlerRuns
    <3>2. rows'[paid] = rows[paid]
      BY <1>0, <1>k, <1>8, <2>2, DeactivateEffect
    <3>3. stripe[s] = "active" => Served(s)' \/ Coming(s, i)
      <4>1. CASE run[h].status = "active"
        <5>1. Has(rows'[paid])
          BY <1>s, <2>2, <3>1, <3>2, <4>1
        <5>2. Open(ProductOf[s], Paid)'
          BY <1>o, <5>1
        <5> QED
          BY <5>2 DEF Served
      <4>2. CASE run[h].status # "active"
        <5>1. Read(h)
          BY <1>k, <3>1 DEF Read
        <5> QED
          BY <1>i, <4>2, <5>1 DEF StatusTrue
      <4> QED
        BY <4>1, <4>2
    <3> QED
      BY <2>1, <3>1, <3>3
  <2>3. CASE run[h].pc = "revoke"
    <3>1. run[h].told.kind # "checkout" /\ IsChange(i)
      BY <1>0, <1>e, <1>i, <2>3, HandlerAt
    <3> QED
      BY <1>s, <2>1, <2>3, <3>1
  <2> QED
    BY <2>1, <2>2, <2>3
<1>9. CASE SyncFails(h)
  <2>1. /\ run'[h].pc = "audit" /\ run[h].told.kind = "checkout" /\ rows' = rows /\ subs' = subs
        /\ ~IsChange(i) /\ run[h].pc \notin {"rest", "audit"}
    BY <1>0, <1>e, <1>i, <1>9, WorkEffects DEF Worked, SyncFails, tables
  <2>2. /\ run[h].pc \in {"user", "customer", "seek", "entitle", "retrieve", "subscription", "retire"}
        /\ run[h].pc \in {"user", "customer"} => run[h].key = <<>>
        /\ run[h].pc = "retire" => run[h].key = paid
    BY <1>e, <1>k, <2>1 DEF HandlerRuns
  <2>3. run[h].key = paid \/ run[h].pc \in {"retrieve", "subscription"}
    BY <1>k, <1>9, <2>2 DEF SyncFails, At
  <2>4. Undisturbed(s)
    BY <2>1, UndisturbedRows
  <2>5. stripe[s] = "active" => Served(s) \/ Coming(s, i)
    <3>1. CASE run[h].pc = "retire"
      <4>1. CASE run[h].status = "active"
        <5>1. Open(ProductOf[s], Paid)
          BY <1>s, <1>o, <2>1, <3>1, <4>1
        <5> QED
          BY <5>1 DEF Served
      <4>2. CASE run[h].status # "active"
        <5>1. Read(h)
          BY <1>k, <2>2, <3>1 DEF Read
        <5> QED
          BY <1>i, <4>2, <5>1 DEF StatusTrue
      <4> QED
        BY <4>1, <4>2
    <3>2. CASE run[h].pc # "retire"
      <4>1. Open(ProductOf[s], Provisional)
        BY <1>k, <1>s, <1>o, <2>1, <2>2, <2>3, <3>2, KeyNotEmpty
      <4>2. CASE subs[s] = "none"
        BY <4>2 DEF Served
      <4>3. CASE subs[s] = stripe[s]
        BY <4>1, <4>3 DEF Served
      <4>4. CASE Ahead(s, {"lookup", "subscription"})
        <5>1. PICK j \in DOMAIN events \ audited : News(j, s)
          BY <4>4 DEF Ahead
        <5>2. j # i
          BY <2>1, <5>1 DEF News
        <5>3. events[j].sub = run[h].told.sub
          BY <5>1 DEF News
        <5>4. ~(j < i)
          BY <1>i, <5>1, <5>3 DEF Basics, InOrder
        <5>5. DOMAIN events \subseteq Nat
          BY <1>0 DEF TypeInv
        <5>6. j > i
          BY <5>1, <5>2, <5>4, <5>5
        <5> QED
          BY <5>1, <5>6 DEF Coming
      <4> QED
        BY <4>2, <4>3, <4>4 DEF SubsTrue
    <3> QED
      BY <3>1, <3>2
  <2> QED
    BY <2>1, <2>4, <2>5, ServedStays
<1> QED
  BY <1>1, <1>2, <1>3, <1>4, <1>5, <1>6, <1>7, <1>8, <1>9 DEF Works

-----------------------------------------------------------------------------
(* Who pays is let in                                                      *)

(* A lone subscription has one handler. *)
LEMMA OneHandler ==
  ASSUME Basics, NEW s \in Sub, Alone(s), NEW g \in Handler, NEW h \in Handler, Busy(g), Busy(h)
  PROVE  g = h
<1>1. run[g].told.sub = s /\ run[h].told.sub = s
  BY AloneRuns DEF Runner, Basics, Unordered
<1> QED
  BY <1>1 DEF Basics, InOrder

LEMMA ServesStep ==
  ASSUME Basics, Next, \A x \in Runner : FoundTrue(x), NEW s \in Sub, SubsTrue(s), Alone(s),
         NEW h \in Handler, StatusTrue(h), Busy(h) => Serves(h), Busy(h)'
  PROVE  Serves(h)'
<1>0. Unordered /\ TypeInv /\ EventsTrue /\ Runs /\ h \in Runner
  BY DEF Basics, Unordered, Runner
<1>1. CASE Works(h)
  <2>1. Busy(h)
    BY <1>0, <1>1, WorksWorked DEF Worked
  <2>2. run[h].told.sub = s
    BY <1>0, <2>1, AloneRuns
  <2> QED
    BY <1>0, <1>1, <2>1, <2>2, ServesOwn
<1>2. ASSUME run'[h] = run[h], ~Works(h)
      PROVE  Serves(h)'
  <2>1. Busy(h)
    BY <1>2 DEF Busy
  <2>2. run[h].told.sub = s
    BY <1>0, <2>1, AloneRuns
  <2>3. ASSUME NEW g \in Handler, Works(g)
        PROVE  FALSE
    <3>1. Busy(g)
      BY <1>0, <2>3, WorksWorked DEF Worked, Runner
    <3> QED
      BY <1>2, <2>1, <2>3, <3>1, OneHandler
  <2>4. Undisturbed(s)
    BY <1>0, <2>3, OthersUndisturb
  <2> QED
    BY <1>2, <2>1, <2>2, <2>4, ServesKept
<1>3. ASSUME run'[h].pc \in {"user", "lookup", "invoice"}
      PROVE  Serves(h)'
  BY <1>3 DEF Serves
<1>4. CASE ~Works(h)
  <2>1. CASE StripeActs
    BY <1>0, <1>2, <1>4, <2>1, StripeTells DEF Tells
  <2>2. ASSUME NEW g \in Handler, NEW i \in DOMAIN events, Receive(g, i)
        PROVE  Serves(h)'
    <3>1. Started(g, FirstStep(events[i].kind), events[i], i)
      BY <1>0, <2>2, ReceiveEffect DEF Runner
    <3>2. run'[g].pc \in {"user", "lookup", "invoice"}
      BY <3>1 DEF Started, FirstStep
    <3> QED
      BY <1>0, <1>2, <1>3, <1>4, <3>1, <3>2 DEF Started
  <2>3. ASSUME NEW v \in Visitor, NEW z \in Sub, Verify(v, z)
        PROVE  Serves(h)'
    <3>1. Started(v, "user", Told("verify", z, stripe[z]), 0)
      BY <1>0, <2>3, VerifyEffect DEF Runner
    <3>2. run'[v].pc = "user"
      BY <3>1 DEF Started
    <3> QED
      BY <1>0, <1>2, <1>3, <1>4, <3>1, <3>2 DEF Started
  <2>4. ASSUME NEW g \in Runner, Works(g)
        PROVE  Serves(h)'
    BY <1>0, <1>2, <1>4, <2>4, WorksWorked DEF Worked
  <2>5. ASSUME NEW g \in Runner, Audit(g) \/ Invoice(g) \/ LogIn(g) \/ Die(g)
        PROVE  Serves(h)'
    <3>1. Ended(g)
      BY <1>0, <2>5, EndEffects
    <3> QED
      BY <1>0, <1>2, <1>4, <3>1 DEF Ended, Busy
  <2>6. CookieLapses => Serves(h)'
    BY <1>2, <1>4 DEF CookieLapses
  <2> QED
    BY <2>1, <2>2, <2>3, <2>4, <2>5, <2>6, StepKinds
<1> QED
  BY <1>1, <1>4

(* What Stripe tells of an unserved subscription is news of it. *)
LEMMA StripeLetsIn ==
  ASSUME Basics, Next, StripeActs, NEW s \in Sub, LetIn(s)
  PROVE  LetIn(s)'
<1>0. TypeInv /\ EventsTrue /\ Runs /\ stripe \in [Sub -> Status] /\ audited \subseteq DOMAIN events
  BY DEF Basics, TypeInv, PaywallTypeOK, Status
<1>1. SUFFICES ASSUME stripe'[s] = "active", ~Served(s)'
               PROVE  \E i \in DOMAIN events' \ audited' : events'[i].sub = s /\ events'[i].kind # "invoice"
  BY DEF LetIn, Unheard
<1>2. /\ UNCHANGED <<rows, subs, audited>>
      /\ \A i \in DOMAIN events : i \in DOMAIN events' /\ events'[i] = events[i]
  BY <1>0, StripeTells DEF Tells, tables
<1>3. ~Served(s)
  BY <1>1, <1>2, UndisturbedRows, ServedStays
<1>4. CASE stripe[s] = "active"
  <2>1. PICK i \in DOMAIN events \ audited : events[i].sub = s /\ events[i].kind # "invoice"
    BY <1>3, <1>4 DEF LetIn, Unheard
  <2> QED
    BY <1>2, <2>1
<1>5. CASE stripe[s] = "none"
  <2>1. EventsTrue'
    BY <1>0, EventsStep
  <2>2. PICK j \in DOMAIN events' : events'[j].sub = s /\ events'[j].kind = "checkout"
    BY <1>1, <2>1 DEF EventsTrue
  <2>3. j \notin DOMAIN events
    BY <1>0, <1>2, <1>5, <2>2 DEF EventsTrue, EventTrue
  <2> QED
    BY <1>0, <1>2, <2>2, <2>3
<1>6. CASE stripe[s] \notin {"active", "none"}
  <2>1. Ahead(s, {})'
    BY <1>1, <1>6, ChangeAhead
  <2>2. PICK j \in DOMAIN events' \ audited' : News(j, s)'
    BY <2>1 DEF Ahead
  <2> QED
    BY <2>2 DEF News, IsChange
<1> QED
  BY <1>4, <1>5, <1>6

(* The event whose audit row is written has served its subscription, or    *)
(* another is to come.                                                     *)
LEMMA AuditLetsIn ==
  ASSUME Basics, NEW s \in Sub, stripe[s] = "active", ~Served(s),
         NEW h \in Handler, Busy(h), run[h].told.sub = s, run[h].pc = "audit",
         Serves(h), StatusTrue(h)
  PROVE  \E j \in DOMAIN events \ audited :
           j # run[h].id /\ events[j].sub = s /\ events[j].kind # "invoice"
<1>0. TypeInv /\ EventsTrue /\ Runs /\ DOMAIN events \subseteq Nat
  BY DEF Basics, TypeInv
<1>e. /\ run[h].id \in DOMAIN events \ audited /\ run[h].told = events[run[h].id]
      /\ run[h].told.kind \in {"created", "checkout", "updated", "deleted"}
      /\ IsChange(run[h].id) <=> run[h].told.kind \in {"updated", "deleted"}
  BY <1>0, HandlerAt DEF Basics, InOrder
<1>i. PICK i \in DOMAIN events \ audited : i = run[h].id /\ events[i].sub = s
  BY <1>e
<1>1. ASSUME NEW j \in DOMAIN events, j > i, events[j].sub = s, events[j].kind # "invoice"
      PROVE  \E k \in DOMAIN events \ audited :
               k # i /\ events[k].sub = s /\ events[k].kind # "invoice"
  <2>1. i < j /\ i # j
    BY <1>0, <1>1
  <2>2. j \notin audited
    BY <1>i, <1>1, <2>1 DEF Basics, AuditedInOrder
  <2> QED
    BY <1>1, <2>1, <2>2
<1>2. ASSUME Coming(s, i)
      PROVE  \E k \in DOMAIN events \ audited :
               k # i /\ events[k].sub = s /\ events[k].kind # "invoice"
  BY <1>1, <1>2 DEF Coming, News, IsChange
<1>3. CASE run[h].told.kind = "created"
  <2>1. EventTrue(i) /\ events[i].kind = "created"
    BY <1>0, <1>e, <1>i, <1>3 DEF EventsTrue
  <2>2. PICK j \in DOMAIN events : j > i /\ events[j].sub = events[i].sub /\ events[j].kind = "checkout"
    BY <2>1 DEF EventTrue
  <2> QED
    BY <1>i, <1>1, <2>2
<1>4. CASE run[h].told.kind = "checkout"
  <2>1. Served(s) \/ Coming(s, i)
    BY <1>i, <1>4 DEF Serves
  <2> QED
    BY <1>i, <1>2, <2>1
<1>5. CASE IsChange(run[h].id)
  <2>1. run[h].status # "active"
    <3>1. run[h].status = "active" => Open(ProductOf[s], Paid)
      BY <1>5 DEF Serves
    <3> QED
      BY <3>1 DEF Served
  <2>2. Coming(s, i)
    BY <1>i, <1>5, <2>1 DEF StatusTrue, Read
  <2> QED
    BY <1>i, <1>2, <2>2
<1> QED
  BY <1>e, <1>3, <1>4, <1>5

LEMMA LetInStep ==
  ASSUME Basics, Next, \A x \in Runner : FoundTrue(x), NEW s \in Sub, Alone(s), LetIn(s),
         \A h \in Handler : StatusTrue(h), \A h \in Handler : Busy(h) => Serves(h)
  PROVE  LetIn(s)'
<1>0. Unordered /\ TypeInv /\ EventsTrue /\ Runs
  BY DEF Basics, Unordered
<1>1. CASE StripeActs
  BY <1>1, StripeLetsIn
<1>2. CASE ~StripeActs
  <2>0. UNCHANGED <<stripe, events>>
    BY <1>0, <1>2, OnlyStripe
  <2>1. SUFFICES ASSUME stripe[s] = "active", ~Served(s)'
                 PROVE  \E i \in DOMAIN events \ audited' : events[i].sub = s /\ events[i].kind # "invoice"
    BY <2>0 DEF LetIn, Unheard
  <2>2. ASSUME NEW h \in Handler, Works(h)
        PROVE  \E i \in DOMAIN events \ audited' : events[i].sub = s /\ events[i].kind # "invoice"
    <3>1. Busy(h) /\ audited' = audited
      BY <1>0, <2>2, WorksWorked DEF Worked, Runner
    <3>2. run[h].told.sub = s
      BY <1>0, <3>1, AloneRuns DEF Runner
    <3>3. /\ run[h].id \in DOMAIN events \ audited /\ run[h].told = events[run[h].id]
          /\ run[h].told.kind = "invoice" => run[h].pc = "invoice"
      BY <1>0, <3>1, HandlerAt DEF HandlerRuns, Basics, InOrder
    <3>4. run[h].told.kind # "invoice"
      BY <2>2, <3>3 DEF Works, At, UpsertUser, UpsertCustomer, Lookup, SelectEntitlement,
         WriteEntitlement, Retrieve, UpsertSubscription, Deactivate, SyncFails
    <3> QED
      BY <3>1, <3>2, <3>3, <3>4
  <2>3. CASE \A h \in Handler : ~Works(h)
    <3>1. Undisturbed(s)
      BY <1>0, <2>3, OthersUndisturb
    <3>2. ~Served(s)
      BY <2>1, <3>1, ServedStays
    <3>3. PICK i \in DOMAIN events \ audited : events[i].sub = s /\ events[i].kind # "invoice"
      BY <2>1, <3>2 DEF LetIn, Unheard
    <3>4. ASSUME audited' = audited
          PROVE  \E k \in DOMAIN events \ audited' : events[k].sub = s /\ events[k].kind # "invoice"
      BY <3>3, <3>4
    <3>5. ASSUME NEW h \in Runner, Audit(h) \/ Invoice(h)
          PROVE  \E k \in DOMAIN events \ audited' : events[k].sub = s /\ events[k].kind # "invoice"
      <4>1. Ended(h) /\ audited' = audited \cup {run[h].id} /\ run[h].pc \in {"audit", "invoice"}
        BY <1>0, <3>5, EndEffects
      <4>2. Busy(h) /\ h \in Handler
        BY <1>0, <4>1, VisitorAt DEF Ended, Runner
      <4>3. run[h].told.sub = s
        BY <1>0, <4>2, AloneRuns
      <4>4. CASE run[h].pc = "audit"
        <5>1. Serves(h) /\ StatusTrue(h)
          BY <4>2
        <5>2. PICK j \in DOMAIN events \ audited :
                j # run[h].id /\ events[j].sub = s /\ events[j].kind # "invoice"
          BY <2>1, <3>2, <4>2, <4>3, <4>4, <5>1, AuditLetsIn
        <5> QED
          BY <4>1, <5>2
      <4>5. CASE run[h].pc = "invoice"
        <5>1. run[h].told.kind = "invoice" /\ run[h].told = events[run[h].id]
          BY <1>0, <4>2, <4>5, HandlerAt
        <5>2. i # run[h].id
          BY <3>3, <5>1
        <5> QED
          BY <3>3, <4>1, <5>2
      <4> QED
        BY <4>1, <4>4, <4>5
    <3>6. ASSUME NEW h \in Runner, Works(h) \/ LogIn(h) \/ Die(h)
          PROVE  audited' = audited
      BY <1>0, <3>6, WorksWorked, EndEffects DEF Worked
    <3>7. ASSUME NEW h \in Handler, NEW k \in DOMAIN events, Receive(h, k)
          PROVE  audited' = audited
      BY <3>7 DEF Receive, tables
    <3>8. ASSUME NEW v \in Visitor, NEW z \in Sub, Verify(v, z)
          PROVE  audited' = audited
      BY <3>8 DEF Verify, tables
    <3>9. CookieLapses => audited' = audited
      BY DEF CookieLapses, tables
    <3> QED
      BY <1>2, <3>4, <3>5, <3>6, <3>7, <3>8, <3>9, StepKinds
  <2> QED
    BY <2>2, <2>3
<1> QED
  BY <1>1, <1>2

LEMMA ServeInit == Init => ServeInv
<1> SUFFICES ASSUME Init
             PROVE  ServeInv
  OBVIOUS
<1>1. \A h \in Runner : ~Busy(h)
  BY DEF Init, Runner, Busy
<1>2. AccessInv
  BY AccessInit
<1>3. \A h \in Runner : FoundTrue(h)
  BY <1>1 DEF FoundTrue
<1>4. ASSUME NEW s \in Sub
      PROVE  LetIn(s) /\ \A h \in Handler : Busy(h) => Serves(h)
  BY <1>1 DEF Init, LetIn, Runner
<1>5. cookie => user
  BY DEF Init
<1> QED
  BY <1>2, <1>3, <1>4, <1>5 DEF ServeInv

LEMMA ServeStutter ==
  ASSUME ToldInOrder, ServeInv, UNCHANGED vars
  PROVE  ServeInv'
<1>1. UNCHANGED <<stripe, events, audited, user, cookie, customers, subs, rows, run>>
  BY DEF vars
<1>2. AccessInv'
  BY AccessStep DEF ServeInv
<1>3. cookie' => user'
  BY <1>1 DEF ServeInv
<1>4. \A h \in Runner : FoundTrue(h)'
  BY <1>1 DEF ServeInv, FoundTrue, Busy
<1>5. ASSUME NEW s \in Sub, Alone(s)'
      PROVE  LetIn(s)' /\ \A h \in Handler : Busy(h)' => Serves(h)'
  <2>1. Alone(s)
    BY <1>1, <1>5 DEF Alone
  <2>2. LetIn(s) /\ \A h \in Handler : Busy(h) => Serves(h)
    BY <2>1 DEF ServeInv
  <2>3. ASSUME NEW p, NEW source
        PROVE  Open(p, source)' <=> Open(p, source)
    BY <1>1, Zenon DEF Open
  <2>4. ASSUME NEW z \in Sub
        PROVE  Served(z)' <=> Served(z)
    BY <1>1, <2>3 DEF Served
  <2>5. LetIn(s)'
    BY <1>1, <2>2, <2>4 DEF LetIn, Unheard
  <2>6. ASSUME NEW h \in Handler, Busy(h)'
        PROVE  Serves(h)'
    <3>1. Serves(h)
      BY <1>1, <2>2, <2>6 DEF Busy
    <3>2. run[h].told.sub \in Sub
      BY <1>1, <2>6, RunnerBusy DEF ServeInv, AccessInv, Busy, Runner, Running, Fact
    <3> QED
      BY <1>1, <2>3, <2>4, <3>1, <3>2 DEF Serves, Key, IsChange, Coming, News
  <2> QED
    BY <2>5, <2>6
<1> QED
  BY <1>2, <1>3, <1>4, <1>5 DEF ServeInv

LEMMA ServeStep ==
  ASSUME ToldInOrder
  PROVE  ServeInv /\ [Next]_vars => ServeInv'
<1>1. ASSUME ServeInv, Next
      PROVE  ServeInv'
  <2>0. AccessInv /\ Basics /\ Unordered
    BY <1>1 DEF ServeInv, AccessInv, Basics, Unordered
  <2>1. AccessInv'
    BY <1>1, <2>0, AccessStep
  <2>2. cookie' => user'
    BY <1>1, <2>0, CookieStep DEF ServeInv
  <2>3. \A h \in Runner : FoundTrue(h)
    BY <1>1 DEF ServeInv
  <2>4. \A h \in Runner : FoundTrue(h)'
    BY <1>1, <2>0, <2>3, FoundStep
  <2>5. ASSUME NEW s \in Sub, Alone(s)'
        PROVE  LetIn(s)' /\ \A h \in Handler : Busy(h)' => Serves(h)'
    <3>1. Alone(s)
      BY <1>1, <2>0, <2>5, AloneStays
    <3>2. /\ LetIn(s) /\ \A h \in Handler : Busy(h) => Serves(h)
          /\ SubsTrue(s) /\ \A h \in Handler : StatusTrue(h)
      BY <1>1, <2>0, <3>1 DEF ServeInv, AccessInv
    <3>3. LetIn(s)'
      BY <1>1, <2>0, <2>3, <3>1, <3>2, LetInStep
    <3>4. ASSUME NEW h \in Handler, Busy(h)'
          PROVE  Serves(h)'
      BY <1>1, <2>0, <2>3, <3>1, <3>2, <3>4, ServesStep
    <3> QED
      BY <3>3, <3>4
  <2> QED
    BY <2>1, <2>2, <2>4, <2>5 DEF ServeInv
<1> QED
  BY <1>1, ServeStutter

LEMMA ServeInvariant ==
  ASSUME ToldInOrder
  PROVE  Spec => []ServeInv
<1>1. ServeInv /\ [Next]_vars => ServeInv'
  BY ServeStep
<1> QED
  BY <1>1, ServeInit, PTL DEF Spec

(* If Stripe tells a subscription's events in their order, each until it   *)
(* is answered, a signed-in user whose one subscription Stripe has active, *)
(* and of which the webhook has a row, is shown the academy once every     *)
(* event has its audit row, however often a handler died, a                *)
(* synchronization failed or a return page wrote its own row on the way.   *)
THEOREM PayersAlwaysLetIn ==
  ASSUME ToldInOrder
  PROVE  Spec => []PayingIsLetIn
<1>1. ASSUME ServeInv, Settled, cookie, NEW s \in Sub, stripe[s] = "active", subs[s] # "none",
             ProductOf[s] = "academy", \A t \in Sub \ {s} : stripe[t] = "none"
      PROVE  LessonShown
  <2>1. LetIn(s) /\ user
    BY <1>1 DEF ServeInv, Alone
  <2>2. ~Unheard(s)
    BY <1>1 DEF Settled, Unheard
  <2>3. \/ Open("academy", Paid)
        \/ Open("academy", Provisional) /\ subs[s] = "active"
    BY <1>1, <2>1, <2>2 DEF LetIn, Served
  <2>4. {Provisional, Paid} \subseteq Source
    BY DEF Source
  <2>5. Access("academy")
    BY <2>3, <2>4 DEF Access, Open
  <2> QED
    BY <1>1, <2>1, <2>5 DEF LessonShown, AccessInfo, CurrentUser
<1>2. ServeInv => PayingIsLetIn
  BY <1>1 DEF PayingIsLetIn
<1> QED
  BY <1>2, ServeInvariant, PTL

-----------------------------------------------------------------------------
(* A purchase whose events are told in any order                           *)

Opened(s) == Open(ProductOf[s], Paid) \/ Open(ProductOf[s], Provisional)

(* What opens a product while nothing but its purchase is told of it *)
Buys(h, s) ==
  LET r == run[h] IN
  /\ r.told.kind \in {"created", "checkout", "invoice"}
  /\ r.told.kind # "invoice" => r.status = "active"
  /\ r.told.kind = "checkout" =>
       \/ r.pc \in {"user", "customer"}
       \/ r.pc \in {"seek", "entitle"} /\ r.key = Key(h, Provisional)
       \/ Opened(s)
  /\ r.pc = "retire" => Open(ProductOf[s], Paid)

Buying(s) ==
  /\ stripe[s] \in {"none", "active"} /\ subs[s] \in {"none", stripe[s]}
  /\ \A h \in Handler : Busy(h) => Buys(h, s)
  /\ \A i \in audited : events[i].kind = "checkout" => Opened(s)

BuyInv ==
  /\ Unordered
  /\ cookie => user
  /\ \A h \in Runner : FoundTrue(h)
  /\ \A s \in Sub : Alone(s) /\ Steady(s) => Buying(s)

(* What a step leaves open *)
Holds(s) == /\ Opened(s) => Opened(s)'
            /\ Open(ProductOf[s], Paid) => Open(ProductOf[s], Paid)'

LEMMA EventsKept ==
  ASSUME Unordered, Next, NEW i \in DOMAIN events
  PROVE  i \in DOMAIN events' /\ events'[i] = events[i]
<1>1. CASE StripeActs
  BY <1>1, StripeTells DEF Unordered, Tells
<1>2. CASE ~StripeActs
  BY <1>2, OnlyStripe DEF Unordered
<1> QED
  BY <1>1, <1>2

LEMMA SteadyStays ==
  ASSUME Unordered, Next, NEW s \in Sub, Steady(s)'
  PROVE  Steady(s)
BY EventsKept DEF Steady

LEMMA EventOf ==
  ASSUME Unordered, NEW s \in Sub, Alone(s), NEW i \in DOMAIN events
  PROVE  events[i].sub = s
<1>0. events \in Seq(Fact)
  BY DEF Unordered, TypeInv
<1>1. events[i].sub \in Sub
  <2>1. events[i] \in Fact
    BY <1>0
  <2> QED
    BY <2>1 DEF Fact
<1>2. stripe[events[i].sub] # "none"
  BY DEF Unordered, EventsTrue, EventTrue
<1> QED
  BY <1>1, <1>2 DEF Alone

LEMMA HandlerHolds ==
  ASSUME Unordered, NEW s \in Sub, Alone(s), Buying(s), NEW h \in Handler, FoundTrue(h), Works(h)
  PROVE  Holds(s) /\ subs'[s] \in {"none", stripe[s]}
<1>0. /\ TypeInv /\ EventsTrue /\ Runs /\ h \in Runner
      /\ stripe \in [Sub -> Status] /\ subs \in [Sub -> Status]
  BY DEF Unordered, Runner, TypeInv, PaywallTypeOK, Status
<1>1. Busy(h)
  BY <1>0, WorksWorked DEF Worked
<1>2. Buys(h, s) /\ run[h].told.sub = s /\ stripe[s] # "none"
  BY <1>0, <1>1, AloneRuns DEF Buying, Runs
<1>3. stripe[s] = "active"
  BY <1>2 DEF Buying
<1>p. {Provisional, Paid} \subseteq Source /\ Provisional # Paid
  BY DEF Source, Provisional, Paid
<1>k. Key(h, Paid) = KeyOf(s, Paid) /\ Key(h, Provisional) = KeyOf(s, Provisional)
  BY <1>2 DEF Key, KeyOf
<1>o. ASSUME \A k \in Key2 : Has(rows[k]) => Has(rows'[k])
      PROVE  Holds(s)
  BY <1>p, <1>o, KeyOfs DEF Holds, Opened
<1>s. ASSUME rows' = rows
      PROVE  Holds(s)
  BY <1>o, <1>s
<1>4. CASE WriteEntitlement(h)
  <2>1. run[h].pc = "entitle" /\ subs' = subs
    BY <1>4 DEF WriteEntitlement, At
  <2>2. run[h].told.kind # "invoice"
    BY <1>0, <1>1, <2>1, HandlerAt
  <2>3. run[h].status = "active"
    BY <1>2, <2>2 DEF Buys
  <2>4. Granted(h) = TRUE
    BY <2>3 DEF Granted
  <2>5. \A k \in Key2 : Has(rows[k]) => Has(rows'[k])
    BY <1>0, <1>4, <2>4, WriteOpens
  <2> QED
    BY <1>o, <2>1, <2>5 DEF Buying
<1>5. CASE Deactivate(h)
  <2>1. run[h].pc \in {"retire", "revoke"} /\ subs' = subs
    BY <1>0, <1>5, DeactivateEffect
  <2>2. run[h].pc # "revoke"
    BY <1>0, <1>1, <1>2, HandlerAt DEF Buys
  <2>3. Open(ProductOf[s], Paid)
    BY <1>2, <2>1, <2>2 DEF Buys
  <2>4. KeyOf(s, Paid) \in Key2 /\ KeyOf(s, Paid) # KeyOf(s, Provisional)
    BY <1>p, KeyOfs DEF KeyOf
  <2>5. rows'[KeyOf(s, Paid)] = rows[KeyOf(s, Paid)]
    BY <1>0, <1>5, <1>k, <2>2, <2>4, DeactivateEffect
  <2>6. Open(ProductOf[s], Paid)'
    BY <1>p, <2>3, <2>5, KeyOfs
  <2> QED
    BY <2>1, <2>6 DEF Holds, Opened, Buying
<1>6. CASE UpsertSubscription(h)
  <2>1. /\ run[h].pc = "subscription" /\ rows' = rows
        /\ subs' = [subs EXCEPT ![run[h].told.sub] = run[h].status]
    BY <1>6 DEF UpsertSubscription, At
  <2>2. run[h].told.kind # "invoice"
    BY <1>0, <1>1, <2>1, HandlerAt
  <2>3. run[h].status = "active"
    BY <1>2, <2>2 DEF Buys
  <2> QED
    BY <1>0, <1>2, <1>3, <1>s, <2>1, <2>3
<1>7. CASE ~WriteEntitlement(h) /\ ~Deactivate(h) /\ ~UpsertSubscription(h)
  <2>1. rows' = rows /\ subs' = subs
    BY <1>7 DEF Works, UpsertUser, UpsertCustomer, Lookup, SelectEntitlement, Retrieve, SyncFails, tables
  <2> QED
    BY <1>s, <2>1 DEF Buying
<1> QED
  BY <1>4, <1>5, <1>6, <1>7

LEMMA HandlerBuys ==
  ASSUME Unordered, NEW s \in Sub, Alone(s), Buying(s), NEW h \in Handler, FoundTrue(h), Works(h), Holds(s)
  PROVE  Buys(h, s)'
<1>0. TypeInv /\ EventsTrue /\ Runs /\ h \in Runner
  BY DEF Unordered, Runner
<1>1. Busy(h) /\ HandlerRuns(h)
  BY <1>0, WorksWorked, HandlerAt DEF Worked
<1>2. Buys(h, s) /\ run[h].told.sub = s /\ stripe[s] = "active"
  BY <1>0, <1>1, AloneRuns DEF Buying, Runs
<1>p. {Provisional, Paid} \subseteq Source /\ Provisional # Paid
  BY DEF Source, Provisional, Paid
<1>k. /\ Key(h, Paid) = KeyOf(s, Paid) /\ Key(h, Provisional) = KeyOf(s, Provisional)
      /\ KeyOf(s, Paid) \in Key2 /\ KeyOf(s, Provisional) \in Key2
      /\ KeyOf(s, Paid)[2] = Paid /\ KeyOf(s, Provisional)[2] = Provisional
  BY <1>2, <1>p, KeyOfs DEF Key, KeyOf
<1>w. run'[h].told = run[h].told
  BY <1>0, WorksWorked DEF Worked
<1>c. SUFFICES /\ run[h].told.kind # "invoice" => run'[h].status = "active"
               /\ run[h].told.kind = "checkout" =>
                    \/ run'[h].pc \in {"user", "customer"}
                    \/ run'[h].pc \in {"seek", "entitle"} /\ run'[h].key = Key(h, Provisional)
                    \/ Opened(s)'
               /\ run'[h].pc = "retire" => Open(ProductOf[s], Paid)'
  <2>1. Key(h, Provisional)' = Key(h, Provisional)
    BY <1>w DEF Key
  <2> QED
    BY <1>2, <1>c, <1>w, <2>1 DEF Buys
<1>3. CASE UpsertUser(h)
  BY <1>0, <1>2, <1>3, WorkEffects DEF Worked, Buys
<1>4. CASE UpsertCustomer(h)
  BY <1>0, <1>2, <1>4, WorkEffects DEF Worked, Buys
<1>5. CASE Lookup(h)
  <2>1. run[h].told.kind # "checkout"
    BY <1>0, <1>1, <1>5, HandlerAt DEF Lookup, At
  <2> QED
    BY <1>0, <1>2, <1>5, <2>1, WorkEffects DEF Worked, Buys
<1>6. CASE SelectEntitlement(h)
  <2>1. run[h].pc = "seek" /\ run'[h].pc = "entitle" /\ run'[h].key = run[h].key /\ run'[h].status = run[h].status
    <3>1. Worked(h, "entitle", run[h].key, run[h].status)
      BY <1>0, <1>6, WorkEffects
    <3> QED
      BY <1>6, <3>1 DEF Worked, SelectEntitlement, At
  <2> QED
    BY <1>2, <2>1 DEF Buys, Holds
<1>7. CASE WriteEntitlement(h)
  <2>1. /\ run[h].pc = "entitle" /\ run'[h].pc = AfterEntitlement(h) /\ run'[h].key = run[h].key
        /\ run'[h].status = run[h].status
    BY <1>0, <1>7, WorkEffects DEF Worked, WriteEntitlement, At
  <2>2. run[h].told.kind # "invoice"
    BY <1>0, <1>1, <2>1, HandlerAt
  <2>3. run[h].status = "active"
    BY <1>2, <2>2 DEF Buys
  <2>4. Granted(h) = TRUE
    BY <2>3 DEF Granted
  <2>5. Has(rows'[run[h].key])
    BY <1>0, <1>7, <1>k, <2>4, WriteOpens
  <2>6. run[h].key \in {KeyOf(s, Paid), KeyOf(s, Provisional)}
    BY <1>0, <1>1, <1>k, <2>1, KeyHeld
  <2>7. Opened(s)' /\ (run[h].key = KeyOf(s, Paid) => Open(ProductOf[s], Paid)')
    BY <1>p, <2>5, <2>6, KeyOfs DEF Opened
  <2>8. AfterEntitlement(h) = "retire" => run[h].key = KeyOf(s, Paid)
    BY <1>k, <2>6 DEF AfterEntitlement
  <2> QED
    BY <2>1, <2>3, <2>7, <2>8
<1>8. CASE Retrieve(h)
  <2>1. run[h].pc = "retrieve" /\ run'[h].pc = "subscription" /\ run'[h].status = stripe[s]
    <3>1. Worked(h, "subscription", run[h].key, stripe[run[h].told.sub])
      BY <1>0, <1>8, WorkEffects
    <3> QED
      BY <1>2, <1>8, <3>1 DEF Worked, Retrieve, At
  <2> QED
    BY <1>2, <2>1 DEF Buys, Holds
<1>9. CASE UpsertSubscription(h)
  <2>1. run[h].pc = "subscription" /\ run'[h].pc = "seek" /\ run'[h].status = run[h].status
    BY <1>0, <1>9, WorkEffects DEF Worked, UpsertSubscription, At
  <2> QED
    BY <1>2, <2>1 DEF Buys, Holds
<1>10. CASE Deactivate(h)
  <2>1. run[h].pc \in {"retire", "revoke"} /\ run'[h].pc = "audit" /\ run'[h].status = run[h].status
    BY <1>0, <1>10, WorkEffects DEF Worked, Deactivate, At
  <2> QED
    BY <1>2, <2>1 DEF Buys, Holds
<1>11. CASE SyncFails(h)
  <2>1. run'[h].pc = "audit" /\ run'[h].status = run[h].status
    BY <1>0, <1>11, WorkEffects DEF Worked
  <2>2. run[h].told.kind = "checkout" =>
          /\ run[h].pc \notin {"user", "customer"}
          /\ ~(run[h].pc \in {"seek", "entitle"} /\ run[h].key = Key(h, Provisional))
    <3>1. \/ run[h].pc \in {"retrieve", "subscription", "retire"}
          \/ run[h].key = Key(h, Paid)
      BY <1>11 DEF SyncFails, At
    <3>2. Key(h, Paid) # Key(h, Provisional) /\ Key(h, Paid) # <<>>
      BY <1>k, <1>p, KeyNotEmpty
    <3>3. run[h].told.kind = "checkout" /\ run[h].pc \in {"user", "customer"} => run[h].key = <<>>
      BY <1>1 DEF HandlerRuns
    <3> QED
      BY <3>1, <3>2, <3>3
  <2> QED
    BY <1>2, <2>1, <2>2 DEF Buys, Holds
<1> QED
  BY <1>3, <1>4, <1>5, <1>6, <1>7, <1>8, <1>9, <1>10, <1>11 DEF Works

LEMMA BuysKept ==
  ASSUME NEW s \in Sub, NEW h \in Handler, Buys(h, s), run'[h] = run[h], Holds(s)
  PROVE  Buys(h, s)'
<1>1. Key(h, Provisional)' = Key(h, Provisional)
  BY DEF Key
<1> QED
  BY <1>1 DEF Buys, Holds

(* What Stripe tells of a steady subscription leaves it as it is. *)
LEMMA SteadyActive ==
  ASSUME Unordered, Next, NEW s \in Sub, stripe[s] \in {"none", "active"}, Steady(s)'
  PROVE  stripe'[s] \in {"active", stripe[s]}
<1>0. TypeInv /\ EventsTrue /\ stripe \in [Sub -> Status]
  BY DEF Unordered, TypeInv, PaywallTypeOK, Status
<1>1. CASE ~StripeActs
  BY <1>0, <1>1, OnlyStripe
<1>2. CASE StripeActs
  <2>1. PICK z \in Sub, st \in Status \ {"none"}, n \in {1, 2} :
          /\ Tells(z, st, n)
          /\ \/ n = 2 /\ stripe[z] = "none" /\ st = "active"
             \/ n = 1 /\ stripe[z] # "none"
                /\ \/ events'[Len(events) + 1].kind = "invoice" /\ st = stripe[z]
                   \/ events'[Len(events) + 1].kind \in {"updated", "deleted"}
    BY <1>0, <1>2, StripeTells
  <2>2. stripe'[s] = IF s = z THEN st ELSE stripe[s]
    BY <1>0, <2>1 DEF Tells
  <2>3. CASE n = 1 /\ events'[Len(events) + 1].kind \in {"updated", "deleted"}
    <3> DEFINE i == Len(events) + 1
    <3>1. i \in DOMAIN events' \ DOMAIN events
      BY <2>1, <2>3 DEF Tells
    <3>2. events'[i].sub = z
      BY <2>1, <3>1 DEF Tells
    <3>3. z # s
      BY <2>3, <3>1, <3>2 DEF Steady
    <3> QED
      BY <2>2, <3>3
  <2> QED
    BY <2>1, <2>2, <2>3
<1> QED
  BY <1>1, <1>2

LEMMA BuyingStep ==
  ASSUME Unordered, Next, \A x \in Runner : FoundTrue(x), NEW s \in Sub, Alone(s), Steady(s),
         Steady(s)', Buying(s)
  PROVE  Buying(s)'
<1>0. TypeInv /\ EventsTrue /\ Runs /\ audited \subseteq DOMAIN events
  BY DEF Unordered, TypeInv, PaywallTypeOK
<1>1. Holds(s) /\ subs'[s] \in {"none", stripe[s]}
  <2>1. CASE \E h \in Handler : Works(h)
    BY <1>0, <2>1, HandlerHolds DEF Runner
  <2>2. CASE \A h \in Handler : ~Works(h)
    <3>1. Undisturbed(s) /\ {Provisional, Paid} \subseteq Source
      BY <2>2, OthersUndisturb DEF Source
    <3> QED
      BY <3>1 DEF Undisturbed, Holds, Opened, Buying
  <2> QED
    BY <2>1, <2>2
<1>2. stripe'[s] \in {"none", "active"} /\ subs'[s] \in {"none", stripe'[s]}
  BY <1>1, SteadyActive DEF Buying
<1>3. ASSUME NEW h \in Handler, Busy(h)'
      PROVE  Buys(h, s)'
  <2>1. ASSUME run'[h] = run[h]
        PROVE  Buys(h, s)'
    <3>1. Busy(h)
      BY <1>3, <2>1 DEF Busy
    <3> QED
      BY <1>1, <2>1, <3>1, BuysKept DEF Buying
  <2>2. CASE StripeActs
    BY <1>0, <2>1, <2>2, StripeTells DEF Tells
  <2>3. ASSUME NEW g \in Handler, NEW i \in DOMAIN events, Receive(g, i)
        PROVE  Buys(h, s)'
    <3>1. Started(g, FirstStep(events[i].kind), events[i], i) /\ events[i] \in Fact
      BY <1>0, <2>3, ReceiveEffect DEF Runner
    <3>2. EventTrue(i) /\ events[i].sub = s
      BY <1>0, EventOf DEF EventsTrue
    <3>3. events[i].kind \in {"created", "checkout", "invoice"}
      BY <3>1, <3>2 DEF EventTrue, Fact, Steady
    <3>4. CASE g = h
      <4>1. /\ run'[h].told = events[i] /\ run'[h].status = events[i].status
            /\ run'[h].pc = FirstStep(events[i].kind)
        BY <3>1, <3>4 DEF Started
      <4>2. events[i].kind # "invoice" => events[i].status = "active"
        BY <3>2, <3>3 DEF EventTrue
      <4>3. /\ events[i].kind = "checkout" => FirstStep(events[i].kind) = "user"
            /\ FirstStep(events[i].kind) # "retire"
        BY DEF FirstStep
      <4> QED
        BY <3>3, <4>1, <4>2, <4>3 DEF Buys
    <3>5. CASE g # h
      BY <2>1, <3>1, <3>5 DEF Started, Runner
    <3> QED
      BY <3>4, <3>5
  <2>4. ASSUME NEW v \in Visitor, NEW z \in Sub, Verify(v, z)
        PROVE  Buys(h, s)'
    <3>1. Started(v, "user", Told("verify", z, stripe[z]), 0)
      BY <1>0, <2>4, VerifyEffect DEF Runner
    <3>2. h # v
      BY PaywallAssumption
    <3> QED
      BY <2>1, <3>1, <3>2 DEF Started, Runner
  <2>5. ASSUME NEW g \in Runner, Works(g)
        PROVE  Buys(h, s)'
    <3>1. CASE g = h
      BY <1>1, <2>5, <3>1, HandlerBuys
    <3>2. CASE g # h
      BY <1>0, <2>1, <2>5, <3>2, WorksWorked DEF Worked, Runner
    <3> QED
      BY <3>1, <3>2
  <2>6. ASSUME NEW g \in Runner, Audit(g) \/ Invoice(g) \/ LogIn(g) \/ Die(g)
        PROVE  Buys(h, s)'
    <3>1. Ended(g)
      BY <1>0, <2>6, EndEffects
    <3>2. g # h
      BY <1>3, <3>1 DEF Ended, Busy
    <3> QED
      BY <2>1, <3>1, <3>2 DEF Ended, Runner
  <2>7. CookieLapses => Buys(h, s)'
    BY <2>1 DEF CookieLapses
  <2> QED
    BY <2>2, <2>3, <2>4, <2>5, <2>6, <2>7, StepKinds
<1>4. ASSUME NEW i \in audited', events'[i].kind = "checkout"
      PROVE  Opened(s)'
  <2>1. CASE i \in audited
    <3>1. events'[i] = events[i]
      BY <1>0, <2>1, EventsKept
    <3> QED
      BY <1>1, <1>4, <2>1, <3>1 DEF Buying, Holds
  <2>2. CASE audited' = audited
    BY <1>4, <2>1, <2>2
  <2>3. ASSUME NEW h \in Runner, Audit(h) \/ Invoice(h)
        PROVE  Opened(s)'
    <3>1. /\ Ended(h) /\ Busy(h) /\ audited' = audited \cup {run[h].id}
          /\ run[h].pc \in {"audit", "invoice"} /\ events' = events
      BY <1>0, <2>3, EndEffects DEF Ended
    <3>2. h \in Handler
      BY <1>0, <3>1, VisitorAt DEF Runner
    <3>3. CASE i = run[h].id
      <4>1. run[h].told.kind = "checkout" /\ run[h].pc = "audit"
        BY <1>0, <1>4, <3>1, <3>2, <3>3, HandlerAt
      <4>2. Opened(s)
        BY <3>1, <3>2, <4>1 DEF Buying, Buys
      <4> QED
        BY <1>1, <4>2 DEF Holds
    <3> QED
      BY <1>4, <2>1, <3>1, <3>3
  <2>4. ASSUME NEW h \in Runner, Works(h) \/ LogIn(h) \/ Die(h)
        PROVE  audited' = audited
    BY <1>0, <2>4, WorksWorked, EndEffects DEF Worked
  <2>5. CASE StripeActs
    BY <1>0, <2>2, <2>5, StripeTells DEF Tells, tables
  <2>6. ASSUME NEW g \in Handler, NEW k \in DOMAIN events, Receive(g, k)
        PROVE  audited' = audited
    BY <2>6 DEF Receive, tables
  <2>7. ASSUME NEW v \in Visitor, NEW z \in Sub, Verify(v, z)
        PROVE  audited' = audited
    BY <2>7 DEF Verify, tables
  <2>8. CookieLapses => audited' = audited
    BY DEF CookieLapses, tables
  <2> QED
    BY <2>2, <2>3, <2>4, <2>5, <2>6, <2>7, <2>8, StepKinds
<1> QED
  BY <1>2, <1>3, <1>4 DEF Buying

LEMMA BuyInit == Init => BuyInv
<1> SUFFICES ASSUME Init
             PROVE  BuyInv
  OBVIOUS
<1>1. \A h \in Runner : ~Busy(h)
  BY DEF Init, Runner, Busy
<1>2. Unordered
  BY AccessInit DEF AccessInv, Unordered
<1>3. \A h \in Runner : FoundTrue(h)
  BY <1>1 DEF FoundTrue
<1>4. \A s \in Sub : Buying(s)
  BY <1>1 DEF Init, Buying, Runner
<1>5. cookie => user
  BY DEF Init
<1> QED
  BY <1>2, <1>3, <1>4, <1>5 DEF BuyInv

LEMMA BuyStep == BuyInv /\ [Next]_vars => BuyInv'
<1>1. ASSUME BuyInv, Next
      PROVE  BuyInv'
  <2>0. Unordered /\ \A h \in Runner : FoundTrue(h)
    BY <1>1 DEF BuyInv
  <2>1. Unordered'
    BY <1>1, <2>0, UnorderedStep
  <2>2. cookie' => user'
    BY <1>1, <2>0, CookieStep DEF BuyInv
  <2>3. \A h \in Runner : FoundTrue(h)'
    BY <1>1, <2>0, FoundStep
  <2>4. ASSUME NEW s \in Sub, Alone(s)', Steady(s)'
        PROVE  Buying(s)'
    <3>1. Alone(s) /\ Steady(s)
      BY <1>1, <2>0, <2>4, AloneStays, SteadyStays
    <3>2. Buying(s)
      BY <1>1, <3>1 DEF BuyInv
    <3> QED
      BY <1>1, <2>0, <2>4, <3>1, <3>2, BuyingStep
  <2> QED
    BY <2>1, <2>2, <2>3, <2>4 DEF BuyInv
<1>2. ASSUME BuyInv, UNCHANGED vars
      PROVE  BuyInv'
  <2>0. UNCHANGED <<stripe, events, audited, user, cookie, customers, subs, rows, run>>
    BY <1>2 DEF vars
  <2>1. Unordered'
    BY <1>2, UnorderedStutter DEF BuyInv
  <2>2. cookie' => user'
    BY <1>2, <2>0 DEF BuyInv
  <2>3. \A h \in Runner : FoundTrue(h)'
    BY <1>2, <2>0 DEF BuyInv, FoundTrue, Busy
  <2>4. ASSUME NEW s \in Sub, Alone(s)', Steady(s)'
        PROVE  Buying(s)'
    <3>1. Buying(s)
      BY <1>2, <2>0, <2>4 DEF BuyInv, Alone, Steady
    <3>2. ASSUME NEW source
          PROVE  Open(ProductOf[s], source)' <=> Open(ProductOf[s], source)
      BY <2>0, Zenon DEF Open
    <3>3. Opened(s)' <=> Opened(s)
      BY <3>2 DEF Opened
    <3>4. ASSUME NEW h \in Handler, Busy(h)'
          PROVE  Buys(h, s)'
      <4>1. Buys(h, s) /\ Holds(s)
        BY <2>0, <3>1, <3>2, <3>3, <3>4 DEF Buying, Busy, Holds
      <4> QED
        BY <2>0, <4>1, BuysKept
    <3> QED
      BY <2>0, <3>1, <3>3, <3>4 DEF Buying
  <2> QED
    BY <2>1, <2>2, <2>3, <2>4 DEF BuyInv
<1> QED
  BY <1>1, <1>2

(* A signed-in buyer is shown the academy once every event has its audit   *)
(* row, with no assumption about the order: the events of the purchase may *)
(* be told in any order, again and side by side, handlers may die, and the *)
(* synchronization of the checkout may fail.                               *)
THEOREM BuyersAlwaysLetIn == Spec => []BuyingLetsIn
<1>1. ASSUME BuyInv, Settled, cookie, NEW s \in Sub, Steady(s), subs[s] # "none",
             ProductOf[s] = "academy", \A t \in Sub \ {s} : stripe[t] = "none"
      PROVE  LessonShown
  <2>1. Buying(s) /\ user
    BY <1>1 DEF BuyInv, Alone
  <2>2. stripe[s] # "none" /\ subs[s] = "active"
    BY <1>1, <2>1 DEF Buying
  <2>3. PICK j \in DOMAIN events : events[j].kind = "checkout"
    BY <1>1, <2>2 DEF BuyInv, Unordered, EventsTrue
  <2>4. Opened(s)
    BY <1>1, <2>1, <2>3 DEF Settled, Buying
  <2>5. {Provisional, Paid} \subseteq Source
    BY DEF Source
  <2>6. Access("academy")
    BY <1>1, <2>2, <2>4, <2>5 DEF Access, Open, Opened
  <2> QED
    BY <1>1, <2>1, <2>6 DEF LessonShown, AccessInfo, CurrentUser
<1>2. BuyInv => BuyingLetsIn
  BY <1>1 DEF BuyingLetsIn
<1>3. Spec => []BuyInv
  BY BuyInit, BuyStep, PTL DEF Spec
<1> QED
  BY <1>2, <1>3, PTL

=============================================================================
