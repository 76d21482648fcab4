------------------------ MODULE Administration_proofs -------------------------
(***************************************************************************)
(* Proofs about administration: for any subjects, sessions, pages and      *)
(* entities, however many writes are allowed.                              *)
(***************************************************************************)
EXTENDS Administration, FiniteSetTheorems, TLAPS

-----------------------------------------------------------------------------
(* A request that reads a session has one to read. *)
Presents(p) ==
  req[p].pc \in {"session", "admit", "revoke", "body"} => page[p].cookie # Nobody

LEMMA OneRequest ==
  ASSUME req \in [Page -> Request], NEW p \in Page, NEW r \in Request, SetReq(p, r)
  PROVE  req' \in [Page -> Request]
BY DEF SetReq

LEMMA WaitingType == Waiting \in Request
BY DEF Waiting, Request

LEMMA RequestsType ==
  ASSUME AdministrationTypeOK, \A p \in Page : Presents(p), [Next]_vars
  PROVE  req' \in [Page -> Request]
<1> USE DEF AdministrationTypeOK
<1>1. ASSUME UNCHANGED req PROVE req' \in [Page -> Request]
  BY <1>1
<1>2. ASSUME Stop PROVE req' \in [Page -> Request]
  BY <1>2, WaitingType DEF Stop
<1>3. ASSUME NEW p \in Page, Ends(p) PROVE req' \in [Page -> Request]
  BY <1>3, OneRequest, WaitingType DEF Ends
<1>4. ASSUME NEW p \in Page, NEW pc \in {"issue", "body", "revoke"}, Become(p, pc)
      PROVE  req' \in [Page -> Request]
  <2>1. [req[p] EXCEPT !.pc = pc] \in Request
    BY DEF Request
  <2> QED
    BY <1>4, <2>1, OneRequest DEF Become
<1>5. ASSUME NEW p \in Page, NEW u \in Subject, Login(p, u) PROVE req' \in [Page -> Request]
  <2>1. user[u].admin \in BOOLEAN
    BY DEF UserRow
  <2>2. [pc |-> "rotate", goal |-> "none", who |-> u,
         admin |-> u \in deployed \/ user[u].admin] \in Request
    BY <2>1 DEF Request
  <2> QED
    BY <1>5, <2>2, OneRequest DEF Login
<1>6. ASSUME NEW p \in Page, NEW goal \in {"load", "save", "users"}, Ask(p, goal)
      PROVE  req' \in [Page -> Request]
  <2>1. [Waiting EXCEPT !.pc = "session", !.goal = goal] \in Request
    BY DEF Request, Waiting
  <2> QED
    BY <1>6, <2>1, OneRequest DEF Ask
<1>7. ASSUME NEW p \in Page, ReadSession(p) PROVE req' \in [Page -> Request]
  <2>1. page[p].cookie \in Token
    BY <1>7 DEF ReadSession, At, Presents, PageState
  <2>2. session[page[p].cookie] \in SessionRow
    BY <2>1
  <2> DEFINE row == session[page[p].cookie]
             r == [req[p] EXCEPT !.pc = "admit", !.who = row.who, !.admin = row.admin]
  <2>3. r \in Request
    BY <2>2 DEF Request, SessionRow
  <2>4. SetReq(p, r) \/ Ends(p)
    BY <1>7 DEF ReadSession, ShowLogin
  <2> QED
    BY <1>3, <2>3, <2>4, OneRequest
<1> QED
  BY <1>1, <1>2, <1>3, <1>4, <1>5, <1>6, <1>7
  DEF Next, PageStep, Apply, Boot, Expire, Rotate, Issue, Logout, Refuse, AdmitLoad,
      AdmitChange, Revoke, EndSession, ShowLogin, Save, Conflict, Changing, CreateUser,
      SetRoles, Deactivate, Activate, vars

LEMMA SessionsType ==
  ASSUME AdministrationTypeOK, \A p \in Page : Presents(p), [Next]_vars
  PROVE  session' \in [Token -> SessionRow]
<1> USE DEF AdministrationTypeOK
<1>1. ASSUME UNCHANGED session PROVE session' \in [Token -> SessionRow]
  BY <1>1
<1>2. ASSUME NEW t \in Token \cup {Nobody}, session' = Drop(t)
      PROVE  session' \in [Token -> SessionRow]
  <2>1. CASE t = Nobody
    BY <1>2, <2>1 DEF Drop
  <2>2. CASE t \in Token
    <3>1. [session[t] EXCEPT !.state = "gone"] \in SessionRow
      BY <2>2 DEF SessionRow
    <3> QED
      BY <1>2, <2>2, <3>1, AdministrationAssumption DEF Drop
  <2> QED
    BY <2>1, <2>2
<1>3. ASSUME NEW p \in Page, NEW t \in Token, Issue(p, t)
      PROVE  session' \in [Token -> SessionRow]
  <2>1. [state |-> "live", who |-> req[p].who, admin |-> req[p].admin] \in SessionRow
    BY DEF SessionRow, Request
  <2> QED
    BY <1>3, <2>1 DEF Issue
<1>4. \A p \in Page : page[p].cookie \in Token \cup {Nobody}
  BY DEF PageState
<1> QED
  BY <1>1, <1>2, <1>3, <1>4
  DEF Next, PageStep, Apply, Boot, Stop, Expire, Login, Rotate, Logout, Ask, ReadSession,
      Refuse, AdmitLoad, AdmitChange, Revoke, EndSession, Save, Conflict, Changing,
      CreateUser, SetRoles, Deactivate, Activate, vars

LEMMA UsersType ==
  ASSUME AdministrationTypeOK, [Next]_vars
  PROVE  user' \in [Subject -> UserRow]
<1> USE DEF AdministrationTypeOK
<1>1. ASSUME UNCHANGED user PROVE user' \in [Subject -> UserRow]
  BY <1>1
<1>2. ASSUME NEW p \in Page, NEW u \in Subject, NEW admin \in BOOLEAN, CreateUser(p, u, admin)
      PROVE  user' \in [Subject -> UserRow]
  BY <1>2 DEF CreateUser, UserRow
<1>3. ASSUME NEW p \in Page, NEW u \in Subject, NEW admin \in BOOLEAN, SetRoles(p, u, admin)
      PROVE  user' \in [Subject -> UserRow]
  BY <1>3 DEF SetRoles, UserRow
<1>4. ASSUME NEW p \in Page, NEW u \in Subject, Deactivate(p, u) \/ Activate(p, u)
      PROVE  user' \in [Subject -> UserRow]
  BY <1>4 DEF Deactivate, Activate, UserRow
<1> QED
  BY <1>1, <1>2, <1>3, <1>4
  DEF Next, PageStep, Apply, Boot, Stop, Expire, Login, Rotate, Issue, Logout, Ask,
      ReadSession, Refuse, AdmitLoad, AdmitChange, Revoke, EndSession, Save, Conflict,
      directory, vars

LEMMA PagesType ==
  ASSUME AdministrationTypeOK, [Next]_vars
  PROVE  page' \in [Page -> PageState]
<1> USE DEF AdministrationTypeOK
<1>1. ASSUME UNCHANGED page PROVE page' \in [Page -> PageState]
  BY <1>1
<1>2. ASSUME NEW p \in Page, NEW c \in Token \cup {Nobody},
             page' = [page EXCEPT ![p].cookie = c, ![p].loaded = FALSE]
      PROVE  page' \in [Page -> PageState]
  BY <1>2 DEF PageState
<1>3. ASSUME NEW p \in Page, page' = [page EXCEPT ![p].loaded = FALSE]
      PROVE  page' \in [Page -> PageState]
  BY <1>3 DEF PageState
<1>4. ASSUME NEW p \in Page, NEW anew \in BOOLEAN, Describe(p, anew)
      PROVE  page' \in [Page -> PageState]
  <2> DEFINE known == [e \in Entity |-> CASE e \in Described -> version[e]
                                          [] e \in Catalog   -> IF anew THEN 0 ELSE page[p].known[e]]
             r == [cookie |-> page[p].cookie, loaded |-> TRUE, seen |-> value, known |-> known]
  <2>1. known \in [Entity -> Nat]
    BY DEF PageState, Entity
  <2>2. r \in PageState
    BY <2>1 DEF PageState
  <2>3. page' = [page EXCEPT ![p] = r]
    BY <1>4 DEF Describe
  <2> QED
    BY <2>2, <2>3
<1>5. ASSUME NEW p \in Page, NEW e \in Entity, Save(p, e)
      PROVE  page' \in [Page -> PageState]
  <2> DEFINE seen == [page[p].seen EXCEPT ![e] = writes + 1]
             known == [page[p].known EXCEPT ![e] = version[e] + 1]
             r == [page[p] EXCEPT !.seen = seen, !.known = known]
  <2>1. page[p] \in PageState /\ seen \in [Entity -> Nat] /\ known \in [Entity -> Nat]
    BY DEF PageState
  <2>2. page' = [page EXCEPT ![p] = r]
    BY <1>5 DEF Save
  <2>3. r \in PageState
    <3> HIDE DEF seen, known
    <3> QED
      BY <2>1 DEF PageState
  <2> HIDE DEF r
  <2> QED
    BY <2>2, <2>3
<1> QED
  BY <1>1, <1>2, <1>3, <1>4, <1>5
  DEF Next, PageStep, Apply, Boot, Stop, Expire, Login, Rotate, Issue, Logout, Ask,
      ReadSession, ShowLogin, Refuse, AdmitLoad, AdmitChange, Revoke, EndSession, Conflict,
      Changing, CreateUser, SetRoles, Deactivate, Activate, vars

LEMMA ConfigurationType ==
  ASSUME AdministrationTypeOK, [Next]_vars
  PROVE  /\ server' \in {"up", "down"} /\ deployed' \subseteq Subject
         /\ store' \in {"absent", "valid", "invalid"}
         /\ value' \in [Entity -> Nat] /\ version' \in [Entity -> Nat]
         /\ writes' \in Nat /\ changes' \in Nat /\ writes' + changes' \in 0 .. WriteLimit
<1> USE AdministrationAssumption DEF AdministrationTypeOK
<1> DEFINE Goal == /\ server' \in {"up", "down"} /\ deployed' \subseteq Subject
                   /\ store' \in {"absent", "valid", "invalid"}
                   /\ value' \in [Entity -> Nat] /\ version' \in [Entity -> Nat]
                   /\ writes' \in Nat /\ changes' \in Nat
                   /\ writes' + changes' \in 0 .. WriteLimit
<1>1. ASSUME UNCHANGED <<configuration, changes>> PROVE Goal
  BY <1>1 DEF configuration
<1>2. ASSUME NEW valid \in SeedsValid, Boot(valid) PROVE Goal
  BY <1>2 DEF Boot, ReadDeployment, Import, Room, directory
<1>3. ASSUME Stop PROVE Goal
  BY <1>3 DEF Stop, directory
<1>4. ASSUME NEW p \in Page, NEW e \in Entity, Save(p, e) PROVE Goal
  BY <1>4 DEF Save, Write, Room, directory
<1>5. ASSUME NEW p \in Page, Changing(p) PROVE Goal
  BY <1>5 DEF Changing, Room, configuration
<1> HIDE DEF Goal
<1>6. Goal
  BY <1>1, <1>2, <1>3, <1>4, <1>5
  DEF Next, PageStep, Apply, Expire, Login, Rotate, Issue, Logout, Ask, ReadSession, Refuse,
      AdmitLoad, AdmitChange, Revoke, EndSession, Conflict, CreateUser, SetRoles, Deactivate,
      Activate, configuration, directory, vars
<1> QED
  BY <1>6 DEF Goal

-----------------------------------------------------------------------------
(* Whoever has a session, or is about to get one, was provisioned; records *)
(* of the directory are never deleted, nor, if that is assumed, deployed   *)
(* users withdrawn.                                                        *)
Provisioned == deployed \cup {u \in Subject : user[u].there}

SessionOK(t) ==
  NoneWithdrawn /\ session[t].state = "live" => session[t].who \in Provisioned

RequestOK(p) ==
  /\ Presents(p)
  /\ NoneWithdrawn /\ req[p].pc \in {"rotate", "issue", "admit", "body"} =>
       req[p].who \in Provisioned

AdmissionInv ==
  /\ AdministrationTypeOK
  /\ \A t \in Token : SessionOK(t)
  /\ \A p \in Page : RequestOK(p)

LEMMA AdmissionInit == Init => AdmissionInv
<1> SUFFICES ASSUME Init PROVE AdmissionInv
  OBVIOUS
<1> USE DEF Init
<1>1. user \in [Subject -> UserRow] /\ session \in [Token -> SessionRow]
  BY DEF UserRow, SessionRow
<1>2. page \in [Page -> PageState]
  BY DEF PageState, Unset
<1>3. req \in [Page -> Request]
  BY WaitingType
<1>4. writes = 0 /\ changes = 0 /\ server = "down" /\ deployed = {} /\ store = "absent"
  OBVIOUS
<1>5. value \in [Entity -> Nat] /\ version \in [Entity -> Nat]
  BY DEF Unset
<1>6. AdministrationTypeOK
  <2> HIDE DEF Init
  <2> QED
    BY <1>1, <1>2, <1>3, <1>4, <1>5, AdministrationAssumption DEF AdministrationTypeOK
<1>7. \A t \in Token : SessionOK(t)
  BY DEF SessionOK
<1>8. \A p \in Page : req[p].pc = "idle"
  BY DEF Waiting
<1> HIDE DEF Init
<1> QED
  BY <1>6, <1>7, <1>8 DEF AdmissionInv, RequestOK, Presents

LEMMA ProvisionedStays ==
  ASSUME NoneWithdrawn, AdministrationTypeOK, [Next]_vars
  PROVE  Provisioned \subseteq Provisioned'
<1> USE DEF AdministrationTypeOK
<1>0. deployed \subseteq deployed'
  <2>1. ASSUME NEW valid \in SeedsValid, Boot(valid) PROVE deployed \subseteq deployed'
    BY <2>1 DEF Boot, ReadDeployment
  <2>2. ASSUME NEW p \in Page, PageStep(p) PROVE UNCHANGED deployed
    BY <2>2
    DEF PageStep, Login, Rotate, Issue, Logout, Ask, ReadSession, Refuse, AdmitLoad,
        AdmitChange, Revoke, EndSession, configuration
  <2>3. ASSUME NEW p \in Page, Apply(p) PROVE UNCHANGED deployed
    BY <2>3
    DEF Apply, Save, Conflict, Changing, CreateUser, SetRoles, Deactivate, Activate,
        configuration
  <2> QED
    BY <2>1, <2>2, <2>3 DEF Next, Stop, Expire, configuration, vars
<1>1. ASSUME UNCHANGED user PROVE Provisioned \subseteq Provisioned'
  BY <1>0, <1>1 DEF Provisioned
<1>2. ASSUME NEW p \in Page, NEW v \in Subject, NEW admin \in BOOLEAN,
             CreateUser(p, v, admin) \/ SetRoles(p, v, admin) \/ Deactivate(p, v) \/ Activate(p, v)
      PROVE  Provisioned \subseteq Provisioned'
  <2>1. ASSUME NEW u \in Subject, user[u].there PROVE user'[u].there
    <3>1. user[u] \in UserRow
      OBVIOUS
    <3>2. CASE u # v
      BY <1>2, <2>1, <3>2 DEF CreateUser, SetRoles, Deactivate, Activate
    <3>3. ASSUME u = v, CreateUser(p, v, admin) PROVE user'[u].there
      BY <3>3 DEF CreateUser
    <3>4. ASSUME u = v, SetRoles(p, v, admin) PROVE user'[u].there
      BY <2>1, <3>1, <3>4 DEF SetRoles, UserRow
    <3>5. ASSUME u = v, Deactivate(p, v) \/ Activate(p, v) PROVE user'[u].there
      BY <2>1, <3>1, <3>5 DEF Deactivate, Activate, UserRow
    <3> QED
      BY <1>2, <3>2, <3>3, <3>4, <3>5
  <2> QED
    BY <1>0, <2>1 DEF Provisioned
<1> QED
  BY <1>1, <1>2
  DEF Next, PageStep, Apply, Boot, Stop, Expire, Login, Rotate, Issue, Logout, Ask,
      ReadSession, Refuse, AdmitLoad, AdmitChange, Revoke, EndSession, Save, Conflict,
      directory, vars

LEMMA SessionsStayOK ==
  ASSUME AdmissionInv, [Next]_vars
  PROVE  \A t \in Token : SessionOK(t)'
<1> USE DEF AdmissionInv, AdministrationTypeOK
<1>1. NoneWithdrawn => Provisioned \subseteq Provisioned'
  BY ProvisionedStays
<1>2. ASSUME UNCHANGED session PROVE \A t \in Token : SessionOK(t)'
  BY <1>1, <1>2 DEF SessionOK
<1>3. ASSUME NEW u \in Token \cup {Nobody}, session' = Drop(u)
      PROVE  \A t \in Token : SessionOK(t)'
  BY <1>1, <1>3 DEF SessionOK, Drop, SessionRow
<1>4. ASSUME NEW p \in Page, NEW u \in Token, Issue(p, u) PROVE \A t \in Token : SessionOK(t)'
  <2>1. NoneWithdrawn => req[p].who \in Provisioned
    BY <1>4 DEF Issue, At, RequestOK
  <2>2. session' = [session EXCEPT ![u] = [state |-> "live", who |-> req[p].who,
                                           admin |-> req[p].admin]]
    BY <1>4 DEF Issue
  <2> QED
    BY <1>1, <2>1, <2>2 DEF SessionOK
<1>5. \A p \in Page : page[p].cookie \in Token \cup {Nobody}
  BY DEF PageState
<1> QED
  BY <1>2, <1>3, <1>4, <1>5
  DEF Next, PageStep, Apply, Boot, Stop, Expire, Login, Rotate, Logout, Ask, ReadSession,
      Refuse, AdmitLoad, AdmitChange, Revoke, EndSession, Save, Conflict, Changing,
      CreateUser, SetRoles, Deactivate, Activate, vars

LEMMA RequestsStayOK ==
  ASSUME AdmissionInv, [Next]_vars
  PROVE  \A q \in Page : RequestOK(q)'
<1> USE DEF AdmissionInv, AdministrationTypeOK
<1>0. NoneWithdrawn => Provisioned \subseteq Provisioned'
  BY ProvisionedStays
<1>1. ASSUME req' = req, \A q \in Page : page'[q].cookie = page[q].cookie
      PROVE  \A q \in Page : RequestOK(q)'
  BY <1>0, <1>1 DEF RequestOK, Presents
<1>2. ASSUME NEW p \in Page, Ends(p), \A q \in Page \ {p} : page'[q] = page[q]
      PROVE  \A q \in Page : RequestOK(q)'
  BY <1>0, <1>2 DEF Ends, SetReq, Waiting, RequestOK, Presents
<1>3. ASSUME NEW p \in Page, NEW r \in Request, SetReq(p, r), UNCHANGED page,
             r.pc \in {"session", "admit", "revoke", "body"} => page[p].cookie # Nobody,
             NoneWithdrawn /\ r.pc \in {"rotate", "issue", "admit", "body"} => r.who \in Provisioned
      PROVE  \A q \in Page : RequestOK(q)'
  BY <1>0, <1>3 DEF SetReq, RequestOK, Presents
<1>4. ASSUME NEW p \in Page, Rotate(p) \/ AdmitChange(p) \/ Revoke(p)
      PROVE  \A q \in Page : RequestOK(q)'
  <2>1. PICK pc \in {"issue", "body", "revoke"} :
          Become(p, pc) /\ IF pc = "issue" THEN req[p].pc = "rotate" ELSE req[p].pc = "admit"
    BY <1>4 DEF Rotate, AdmitChange, Revoke, At
  <2> DEFINE r == [req[p] EXCEPT !.pc = pc]
  <2>2. r \in Request /\ r.pc = pc /\ r.who = req[p].who
    BY DEF Request
  <2>3. SetReq(p, r) /\ UNCHANGED page
    BY <1>4, <2>1 DEF Become, Rotate, AdmitChange, Revoke
  <2>4. /\ NoneWithdrawn => req[p].who \in Provisioned
        /\ pc # "issue" => page[p].cookie # Nobody
    BY <2>1 DEF RequestOK, Presents
  <2> HIDE DEF r
  <2> QED
    BY <1>3, <2>2, <2>3, <2>4
<1>5. ASSUME NEW p \in Page, NEW u \in Subject, Login(p, u) PROVE \A q \in Page : RequestOK(q)'
  <2> DEFINE r == [pc |-> "rotate", goal |-> "none", who |-> u,
                   admin |-> u \in deployed \/ user[u].admin]
  <2>1. user[u].admin \in BOOLEAN /\ u \in Provisioned
    BY <1>5 DEF UserRow, Login, CanLogIn, Provisioned
  <2>2. r \in Request /\ r.pc = "rotate" /\ r.who = u
    BY <2>1 DEF Request
  <2>3. SetReq(p, r) /\ UNCHANGED page
    BY <1>5 DEF Login
  <2> HIDE DEF r
  <2> QED
    BY <1>3, <2>1, <2>2, <2>3
<1>6. ASSUME NEW p \in Page, NEW goal \in {"load", "save", "users"}, Ask(p, goal)
      PROVE  \A q \in Page : RequestOK(q)'
  <2> DEFINE r == [Waiting EXCEPT !.pc = "session", !.goal = goal]
  <2>1. r \in Request /\ r.pc = "session"
    BY DEF Request, Waiting
  <2>2. SetReq(p, r) /\ UNCHANGED page /\ page[p].cookie # Nobody
    BY <1>6 DEF Ask
  <2> HIDE DEF r
  <2> QED
    BY <1>3, <2>1, <2>2
<1>7. ASSUME NEW p \in Page, ReadSession(p) PROVE \A q \in Page : RequestOK(q)'
  <2> DEFINE row == session[page[p].cookie]
             r == [req[p] EXCEPT !.pc = "admit", !.who = row.who, !.admin = row.admin]
  <2>1. page[p].cookie \in Token
    BY <1>7 DEF ReadSession, At, RequestOK, Presents, PageState
  <2>2. row \in SessionRow
    BY <2>1
  <2>3. r \in Request /\ r.pc = "admit" /\ r.who = row.who
    BY <2>2 DEF Request, SessionRow
  <2>4. CASE row.state = "live"
    <3>1. NoneWithdrawn => row.who \in Provisioned
      BY <2>1, <2>4 DEF SessionOK
    <3>2. SetReq(p, r) /\ UNCHANGED page
      BY <1>7, <2>4 DEF ReadSession
    <3> HIDE DEF r
    <3> QED
      BY <1>3, <2>1, <2>3, <3>1, <3>2, AdministrationAssumption
  <2>5. CASE row.state # "live"
    BY <1>2, <1>7, <2>5 DEF ReadSession, ShowLogin
  <2> QED
    BY <2>4, <2>5
<1>8. ASSUME Stop PROVE \A q \in Page : RequestOK(q)'
  BY <1>8 DEF Stop, Waiting, RequestOK, Presents
<1>9. ASSUME NEW p \in Page,
             (\E t \in Token : Issue(p, t)) \/ Refuse(p) \/ AdmitLoad(p) \/ EndSession(p)
               \/ (\E e \in Entity : Save(p, e) \/ Conflict(p, e)) \/ Changing(p)
      PROVE  \A q \in Page : RequestOK(q)'
  BY <1>2, <1>9 DEF Issue, Refuse, AdmitLoad, Describe, EndSession, ShowLogin, Save, Conflict,
                    Changing
<1>10. ASSUME NEW p \in Page, Logout(p) PROVE \A q \in Page : RequestOK(q)'
  BY <1>0, <1>10 DEF Logout, At, RequestOK, Presents
<1> QED
  BY <1>1, <1>4, <1>5, <1>6, <1>7, <1>8, <1>9, <1>10
  DEF Next, PageStep, Apply, Boot, Expire, CreateUser, SetRoles, Deactivate, Activate, vars

LEMMA AdmissionInvariant == Spec => []AdmissionInv
<1>1. ASSUME AdmissionInv, [Next]_vars PROVE AdmissionInv'
  <2>1. \A p \in Page : Presents(p)
    BY <1>1 DEF AdmissionInv, RequestOK
  <2>2. AdministrationTypeOK'
    BY <1>1, <2>1, RequestsType, SessionsType, UsersType, PagesType, ConfigurationType
    DEF AdmissionInv, AdministrationTypeOK
  <2> QED
    BY <1>1, <2>2, SessionsStayOK, RequestsStayOK DEF AdmissionInv
<1> QED
  BY <1>1, AdmissionInit, PTL DEF Spec

-----------------------------------------------------------------------------
(* What a page shows of an entity is what is stored, as long as its version*)
(* is; unless every boot imports the seed.                                 *)
Shows(p, e) ==
  /\ page[p].known[e] =< version[e]
  /\ page[p].loaded /\ page[p].known[e] = version[e] => value[e] = page[p].seen[e]

Booted ==
  store = "absent" => server = "down" /\ \A p \in Page : ~page[p].loaded

FormsLoaded ==
  \A p \in Page : /\ req[p].goal \in {"save", "users"} => page[p].loaded
                  /\ req[p].pc = "idle" => req[p].goal = "none"

ShownInv ==
  /\ AdministrationTypeOK
  /\ Booted /\ FormsLoaded
  /\ \A p \in Page, e \in Entity : Shows(p, e)

LEMMA ShownInit == AdministrationTypeOK /\ Init => ShownInv
BY DEF Init, ShownInv, Booted, FormsLoaded, Shows, Unset, Waiting

LEMMA FormsStayLoaded ==
  ASSUME AdministrationTypeOK, FormsLoaded, [Next]_vars
  PROVE  FormsLoaded'
<1> USE DEF AdministrationTypeOK, FormsLoaded
<1>1. ASSUME req' = req, page' = page PROVE FormsLoaded'
  BY <1>1
<1>2. ASSUME NEW p \in Page, Ends(p), \A q \in Page \ {p} : page'[q] = page[q]
      PROVE  FormsLoaded'
  BY <1>2 DEF Ends, SetReq, Waiting
<1>3. ASSUME NEW p \in Page, NEW r, SetReq(p, r), UNCHANGED page,
             r.goal \in {"save", "users"} => page[p].loaded, r.pc # "idle"
      PROVE  FormsLoaded'
  BY <1>3 DEF SetReq
<1>4. ASSUME NEW p \in Page, NEW pc, pc # "idle", Become(p, pc), UNCHANGED page
      PROVE  FormsLoaded'
  <2> DEFINE r == [req[p] EXCEPT !.pc = pc]
  <2>1. r.goal = req[p].goal /\ r.pc = pc
    BY DEF Request
  <2>2. SetReq(p, r)
    BY <1>4 DEF Become
  <2> HIDE DEF r
  <2> QED
    BY <1>3, <1>4, <2>1, <2>2
<1>5. ASSUME NEW p \in Page, NEW u \in Subject, Login(p, u) PROVE FormsLoaded'
  BY <1>3, <1>5 DEF Login
<1>6. ASSUME NEW p \in Page, NEW goal \in {"load", "save", "users"}, Ask(p, goal)
      PROVE  FormsLoaded'
  BY <1>3, <1>6 DEF Ask, Waiting
<1>7. ASSUME NEW p \in Page, ReadSession(p) PROVE FormsLoaded'
  <2> DEFINE row == session[page[p].cookie]
             r == [req[p] EXCEPT !.pc = "admit", !.who = row.who, !.admin = row.admin]
  <2>1. r.goal = req[p].goal /\ r.pc # "idle"
    BY DEF Request
  <2>2. CASE row.state = "live"
    <3>1. SetReq(p, r) /\ UNCHANGED page
      BY <1>7, <2>2 DEF ReadSession
    <3> HIDE DEF r
    <3> QED
      BY <1>3, <2>1, <3>1
  <2>3. CASE row.state # "live"
    BY <1>2, <1>7, <2>3 DEF ReadSession, ShowLogin
  <2> QED
    BY <2>2, <2>3
<1>8. ASSUME Stop PROVE FormsLoaded'
  BY <1>8 DEF Stop, Waiting
<1>9. ASSUME NEW p \in Page,
             (\E t \in Token : Issue(p, t)) \/ Refuse(p) \/ AdmitLoad(p) \/ EndSession(p)
               \/ (\E e \in Entity : Save(p, e) \/ Conflict(p, e)) \/ Changing(p)
      PROVE  FormsLoaded'
  BY <1>2, <1>9 DEF Issue, Refuse, AdmitLoad, Describe, EndSession, ShowLogin, Save, Conflict,
                    Changing
<1>10. ASSUME NEW p \in Page, Logout(p) PROVE FormsLoaded'
  BY <1>10 DEF Logout, At
<1> QED
  BY <1>1, <1>4, <1>5, <1>6, <1>7, <1>8, <1>9, <1>10
  DEF Next, PageStep, Apply, Boot, Expire, Rotate, AdmitChange, Revoke, CreateUser, SetRoles,
      Deactivate, Activate, vars

LEMMA StaysBooted ==
  ASSUME AdministrationTypeOK, Booted, [Next]_vars
  PROVE  Booted'
<1> USE DEF AdministrationTypeOK, Booted
<1>1. ASSUME NEW valid \in SeedsValid, Boot(valid) PROVE Booted'
  BY <1>1 DEF Boot, Import
<1>2. ASSUME UNCHANGED <<store, server>>, server = "up" PROVE Booted'
  BY <1>2
<1>3. ASSUME UNCHANGED <<store, server, page>> PROVE Booted'
  BY <1>3
<1>4. ASSUME Stop PROVE Booted'
  BY <1>4 DEF Stop
<1> HIDE DEF AdministrationTypeOK, Booted
<1>5. ASSUME NEW p \in Page, PageStep(p) PROVE server = "up" /\ UNCHANGED <<store, server>>
  BY <1>5
  DEF PageStep, Login, Rotate, Issue, Logout, Ask, ReadSession, Refuse, AdmitLoad,
      AdmitChange, Revoke, EndSession, At, configuration
<1>6. ASSUME NEW p \in Page, Apply(p) PROVE server = "up" /\ UNCHANGED <<store, server>>
  BY <1>6
  DEF Apply, Save, Conflict, Changing, CreateUser, SetRoles, Deactivate, Activate, At,
      configuration
<1>7. ASSUME NEW t \in Token, Expire(t) PROVE UNCHANGED <<store, server, page>>
  BY <1>7 DEF Expire, configuration
<1> QED
  BY <1>1, <1>2, <1>3, <1>4, <1>5, <1>6, <1>7 DEF Next, vars

LEMMA StaysShown ==
  ASSUME ShownInv, ~Reseeding, [Next]_vars, NEW q \in Page, NEW d \in Entity
  PROVE  Shows(q, d)'
<1> USE DEF ShownInv, AdministrationTypeOK
<1>1. ASSUME version'[d] = version[d], value'[d] = value[d],
             page'[q].known = page[q].known, page'[q].seen = page[q].seen,
             page'[q].loaded => page[q].loaded
      PROVE  Shows(q, d)'
  BY <1>1 DEF Shows
<1>2. ASSUME NEW valid \in SeedsValid, Boot(valid) PROVE Shows(q, d)'
  BY <1>2 DEF Boot, Import, Booted, Shows
<1>3. ASSUME NEW p \in Page, NEW c, page' = [page EXCEPT ![p].cookie = c, ![p].loaded = FALSE],
             UNCHANGED configuration
      PROVE  Shows(q, d)'
  BY <1>1, <1>3 DEF PageState, configuration
<1>4. ASSUME NEW p \in Page, page' = [page EXCEPT ![p].loaded = FALSE], UNCHANGED configuration
      PROVE  Shows(q, d)'
  BY <1>1, <1>4 DEF PageState, configuration
<1>5. ASSUME NEW p \in Page, NEW anew \in BOOLEAN, Describe(p, anew), UNCHANGED configuration
      PROVE  Shows(q, d)'
  <2>1. CASE p # q
    BY <1>1, <1>5, <2>1 DEF Describe, configuration
  <2>2. CASE p = q
    <3>1. page'[q].seen = value
      BY <1>5, <2>2 DEF Describe
    <3>2. page'[q].known[d] \in {version[d], 0, page[q].known[d]}
      BY <1>5, <2>2 DEF Describe, Entity
    <3>3. page[q].known[d] \in Nat /\ version[d] \in Nat
      BY DEF PageState
    <3> QED
      BY <1>5, <3>1, <3>2, <3>3 DEF Shows, configuration
  <2> QED
    BY <2>1, <2>2
<1>6. ASSUME NEW p \in Page, NEW e \in Entity, Save(p, e) PROVE Shows(q, d)'
  <2>1. version' = [version EXCEPT ![e] = version[e] + 1] /\ value' = [value EXCEPT ![e] = writes + 1]
    BY <1>6 DEF Save, Write
  <2>2. page[q].known[d] \in Nat /\ version[d] \in Nat
    BY DEF PageState
  <2>3. CASE p # q
    <3>1. page'[q] = page[q]
      BY <1>6, <2>3 DEF Save
    <3> QED
      BY <1>1, <2>1, <2>2, <3>1 DEF Shows
  <2>4. CASE p = q
    <3> DEFINE seen == [page[q].seen EXCEPT ![e] = writes + 1]
               known == [page[q].known EXCEPT ![e] = version[e] + 1]
    <3>1. /\ page'[q].seen = seen /\ page'[q].known = known
          /\ page'[q].loaded = page[q].loaded
      BY <1>6, <2>4 DEF Save, PageState
    <3>2. /\ e = d => seen[d] = writes + 1 /\ known[d] = version[d] + 1
          /\ e # d => seen[d] = page[q].seen[d] /\ known[d] = page[q].known[d]
      BY DEF PageState
    <3> HIDE DEF seen, known
    <3> QED
      BY <2>1, <2>2, <3>1, <3>2 DEF Shows
  <2> QED
    BY <2>3, <2>4
<1>7. ASSUME UNCHANGED <<configuration, page>> PROVE Shows(q, d)'
  BY <1>1, <1>7 DEF configuration
<1>8. ASSUME Stop PROVE Shows(q, d)'
  BY <1>1, <1>8 DEF Stop
<1> HIDE DEF ShownInv, AdministrationTypeOK
<1>9. ASSUME NEW p \in Page,
             (\E u \in Subject : Login(p, u)) \/ Rotate(p) \/ Refuse(p) \/ AdmitChange(p) \/ Revoke(p)
               \/ (\E goal \in {"load", "save", "users"} : Ask(p, goal))
      PROVE  Shows(q, d)'
  BY <1>7, <1>9 DEF Login, Rotate, Refuse, AdmitChange, Revoke, Ask
<1>10. ASSUME NEW p \in Page,
              (\E t \in Token : Issue(p, t)) \/ Logout(p) \/ AdmitLoad(p) \/ EndSession(p)
                \/ ReadSession(p)
      PROVE  Shows(q, d)'
  BY <1>3, <1>4, <1>5, <1>7, <1>10
  DEF Issue, Logout, AdmitLoad, EndSession, ReadSession, ShowLogin
<1>11. ASSUME NEW p \in Page, Apply(p) PROVE Shows(q, d)'
  BY <1>6, <1>7, <1>11
  DEF Apply, Conflict, Changing, CreateUser, SetRoles, Deactivate, Activate
<1> QED
  BY <1>2, <1>7, <1>8, <1>9, <1>10, <1>11 DEF Next, PageStep, Expire, configuration, vars

LEMMA ShownInvariant == ASSUME ~Reseeding PROVE Spec => [](AdmissionInv /\ ShownInv)
<1>1. Init => AdmissionInv /\ ShownInv
  BY AdmissionInit, ShownInit DEF AdmissionInv
<1>2. ASSUME AdmissionInv, ShownInv, [Next]_vars, AdmissionInv' PROVE ShownInv'
  BY <1>2, FormsStayLoaded, StaysBooted, StaysShown DEF AdmissionInv, ShownInv
<1> QED
  BY <1>1, <1>2, AdmissionInvariant, PTL DEF Spec

-----------------------------------------------------------------------------
(* Every state of the configuration, the directory, the sessions, the      *)
(* pages and their requests is well formed, within the writes allowed.     *)
THEOREM AdministrationTypeCorrect == Spec => []AdministrationTypeOK
<1>1. AdmissionInv => AdministrationTypeOK
  BY DEF AdmissionInv
<1> QED
  BY <1>1, AdmissionInvariant, PTL

(* However many administrators remove each other, of however many users,   *)
(* one stays: requireAnotherAdministrator() counts when the change is made.*)
THEOREM OneAdministratorStays == Spec => LastAdministrator
<1>1. ASSUME AdmissionInv, [Next]_vars, Administrators # {} PROVE Administrators' # {}
  <2> USE <1>1 DEF AdmissionInv, AdministrationTypeOK
  <2>1. ASSUME UNCHANGED user PROVE Administrators' # {}
    BY <2>1 DEF Administrators, ActiveAdmin
  <2>2. ASSUME NEW u \in Subject, Another(u), \A v \in Subject \ {u} : user'[v] = user[v]
        PROVE  Administrators' # {}
    <3>1. CASE ~ActiveAdmin(u)
      BY <2>2, <3>1 DEF Administrators, ActiveAdmin
    <3>2. CASE ActiveAdmin(u)
      <4>1. Cardinality(Administrators) > 1
        BY <2>2, <3>2 DEF Another
      <4>2. Administrators # {u}
        <5>1. Cardinality({u}) = 1
          BY FS_Singleton
        <5>2. ASSUME Administrators = {u} PROVE FALSE
          BY <4>1, <5>1, <5>2
        <5> QED
          BY <5>2
      <4>3. PICK v \in Administrators : v # u
        BY <4>2
      <4> QED
        BY <2>2, <4>3 DEF Administrators, ActiveAdmin
    <3> QED
      BY <3>1, <3>2
  <2>3. ASSUME NEW p \in Page, NEW u \in Subject, NEW admin \in BOOLEAN,
               CreateUser(p, u, admin) \/ Activate(p, u) \/ (SetRoles(p, u, admin) /\ admin)
        PROVE  Administrators' # {}
    <3>1. \A v \in Subject : ActiveAdmin(v) => ActiveAdmin(v)'
      BY <2>3 DEF CreateUser, Activate, SetRoles, ActiveAdmin, UserRow
    <3> QED
      BY <3>1 DEF Administrators
  <2>4. ASSUME NEW p \in Page, NEW u \in Subject, NEW admin \in BOOLEAN,
               Deactivate(p, u) \/ (SetRoles(p, u, admin) /\ ~admin)
        PROVE  Administrators' # {}
    BY <2>2, <2>4 DEF Deactivate, SetRoles
  <2> QED
    BY <2>1, <2>3, <2>4
    DEF Next, PageStep, Apply, Boot, Stop, Expire, Login, Rotate, Issue, Logout, Ask,
        ReadSession, Refuse, AdmitLoad, AdmitChange, Revoke, EndSession, Save, Conflict,
        directory, vars
<1>2. AdmissionInv /\ [Next]_vars => [Administrators # {} => Administrators' # {}]_vars
  BY <1>1
<1> QED
  BY <1>2, AdmissionInvariant, PTL DEF Spec, LastAdministrator

(* Nobody but an active administrator, or the deployment's own, has a      *)
(* request admitted, however old the session: validate() overlays the      *)
(* directory's record on every request.  Of a user whom no deployment and  *)
(* no record provisions any more nothing is overlaid; so none is withdrawn.*)
THEOREM AdmittedAreAdministrators == ASSUME NoneWithdrawn PROVE Spec => OnlyAdministrators
<1> DEFINE Admitted == \A p \in Page : (AdmitLoad(p) \/ AdmitChange(p)) =>
                         req[p].who \in deployed \/ ActiveAdmin(req[p].who)
<1>1. ASSUME AdmissionInv, NEW p \in Page, AdmitLoad(p) \/ AdmitChange(p)
      PROVE  req[p].who \in deployed \/ ActiveAdmin(req[p].who)
  <2>1. req[p].who \in Provisioned /\ ~Revoked(p) /\ MayAdminister(p)
    BY <1>1 DEF AdmissionInv, RequestOK, AdmitLoad, AdmitChange, At
  <2> QED
    BY <2>1 DEF Provisioned, Revoked, MayAdminister, Governed, ActiveAdmin
<1>2. AdmissionInv /\ [Next]_vars => [Admitted]_vars
  BY <1>1
<1> QED
  BY <1>2, AdmissionInvariant, PTL DEF Spec, OnlyAdministrators

(* Unless every boot imports the seed, a save replaces what its page shows,*)
(* for any pages and administrators: the version check of administer().    *)
THEOREM NothingSilentlyOverwritten == ASSUME ~Reseeding PROVE Spec => NoSilentOverwrite
<1> DEFINE Seen == \A p \in Page : \A e \in Entity :
                     version'[e] # version[e] /\ req[p].pc = "body" /\ req'[p].pc = "idle" =>
                       value[e] = page[p].seen[e]
<1>1. ASSUME AdmissionInv, ShownInv, [Next]_vars, NEW p \in Page, NEW e \in Entity,
             version'[e] # version[e], req[p].pc = "body", req'[p].pc = "idle"
      PROVE  value[e] = page[p].seen[e]
  <2> USE DEF AdmissionInv, AdministrationTypeOK
  <2>1. PICK q \in Page, d \in Entity : Save(q, d)
    BY <1>1
    DEF Next, PageStep, Apply, Boot, Stop, Expire, Login, Rotate, Issue, Logout, Ask,
        ReadSession, Refuse, AdmitLoad, AdmitChange, Revoke, EndSession, Conflict, Changing,
        CreateUser, SetRoles, Deactivate, Activate, configuration, vars
  <2>2. d = e
    BY <1>1, <2>1 DEF Save
  <2>3. q = p
    BY <1>1, <2>1 DEF Save, Ends, SetReq
  <2>4. page[p].loaded
    BY <1>1, <2>1, <2>3 DEF Save, ShownInv, FormsLoaded
  <2>5. version[e] = page[p].known[e]
    BY <2>1, <2>2, <2>3 DEF Save, Expected
  <2> QED
    BY <1>1, <2>4, <2>5 DEF ShownInv, Shows
<1>2. AdmissionInv /\ ShownInv /\ [Next]_vars => [Seen]_vars
  BY <1>1
<1> QED
  BY <1>2, ShownInvariant, PTL DEF Spec, NoSilentOverwrite
=============================================================================
