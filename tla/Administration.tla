--------------------------- MODULE Administration ----------------------------
(***************************************************************************)
(* Administration: users and their sessions, the versioned configuration,  *)
(* and the pages of the Administration portal that edit it.                *)
(*                                                                         *)
(* The configuration database is synchronous, so whatever a handler does   *)
(* between two awaits is one step.  A request of a page reads its session  *)
(* (an await), is admitted against the directory as it is then, waits for  *)
(* its body, and is applied.  A value is the number of the write that made *)
(* it; what is in a document is left out, and so are displayed names and   *)
(* credentials, which decide nothing here but who can log in.              *)
(***************************************************************************)
EXTENDS Naturals, FiniteSets

CONSTANTS
  Subject,       (* user ids of one organization                            *)
  Deployments,   (* sets of administrators GUIDEHERD_DEV_USERS may provision*)
  NoneWithdrawn, (* TRUE: no deployment takes one of them out again         *)
  Token,         (* session tokens, each issued once                        *)
  Page,          (* browsers with the portal open                           *)
  Described,     (* entities whose version describe() returns               *)
  Catalog,       (* entities whose version it does not: attorneys, groups   *)
  Reseeding,     (* TRUE: GUIDEHERD_SEED_MODE is always                     *)
  SeedsValid,    (* whether the documents deployed pass domain validation   *)
  WriteLimit,    (* bound: writes of the configuration and the directory    *)
  Nobody         (* null                                                    *)

ASSUME AdministrationAssumption ==
  /\ Deployments \subseteq SUBSET Subject /\ Described \cap Catalog = {}
  /\ NoneWithdrawn \in BOOLEAN /\ Reseeding \in BOOLEAN /\ SeedsValid \subseteq BOOLEAN
  /\ WriteLimit \in Nat
  /\ Nobody \notin Subject \cup Token

Entity == Described \cup Catalog

VARIABLES
  server,    (* up or down                                                  *)
  deployed,  (* the subjects its environment provisions                     *)
  store,     (* the organization's configuration: absent, valid, invalid    *)
  value,     (* [Entity -> the write that is stored]                        *)
  version,   (* [Entity -> its highest version in configuration_audit]      *)
  user,      (* [Subject -> its record in the directory]                    *)
  session,   (* [Token -> its row]                                          *)
  page,      (* [Page -> what the browser holds]                            *)
  req,       (* [Page -> the request it waits for]                          *)
  writes,    (* how many of the configuration: the last value written       *)
  changes    (* how many of the directory                                   *)

vars == <<server, deployed, store, value, version, user, session, page, req, writes,
          changes>>

UserRow == [there : BOOLEAN, active : BOOLEAN, admin : BOOLEAN]

SessionRow == [state : {"unissued", "live", "gone"},
               who   : Subject \cup {Nobody}, admin : BOOLEAN]   (* at login *)

PageState == [cookie : Token \cup {Nobody},
              loaded : BOOLEAN,                  (* it shows forms, no login *)
              seen   : [Entity -> Nat],          (* the values they display *)
              known  : [Entity -> Nat]]          (* its versions[]          *)

(* "goal" is what the request is for, "who" its actor once it is admitted. *)
Request == [pc   : {"idle", "rotate", "issue", "session", "admit", "revoke", "body"},
            goal : {"none", "load", "save", "users"},
            who  : Subject \cup {Nobody}, admin : BOOLEAN]

AdministrationTypeOK ==
  /\ server \in {"up", "down"} /\ deployed \subseteq Subject
  /\ store \in {"absent", "valid", "invalid"}
  /\ value \in [Entity -> Nat] /\ version \in [Entity -> Nat]
  /\ user \in [Subject -> UserRow]
  /\ session \in [Token -> SessionRow]
  /\ page \in [Page -> PageState]
  /\ req \in [Page -> Request]
  /\ writes \in Nat /\ changes \in Nat /\ writes + changes \in 0 .. WriteLimit

Waiting == [pc |-> "idle", goal |-> "none", who |-> Nobody, admin |-> FALSE]
Unset == [e \in Entity |-> 0]

Init ==
  /\ server = "down" /\ deployed = {} /\ store = "absent"
  /\ value = Unset /\ version = Unset
  /\ user = [u \in Subject |-> [there |-> FALSE, active |-> FALSE, admin |-> FALSE]]
  /\ session = [t \in Token |-> [state |-> "unissued", who |-> Nobody, admin |-> FALSE]]
  /\ page = [p \in Page |-> [cookie |-> Nobody, loaded |-> FALSE,
                             seen |-> Unset, known |-> Unset]]
  /\ req = [p \in Page |-> Waiting]
  /\ writes = 0 /\ changes = 0

configuration == <<server, deployed, store, value, version, writes>>
directory == <<user, changes>>

Room == writes + changes < WriteLimit

At(p, pc) == server = "up" /\ req[p].pc = pc
SetReq(p, r) == req' = [req EXCEPT ![p] = r]
Ends(p) == SetReq(p, Waiting)
Become(p, pc) == SetReq(p, [req[p] EXCEPT !.pc = pc])

-----------------------------------------------------------------------------
(* Boot and restart.  Requests die with the process, rows and pages stay.  *)
Write(e, w) == value' = [value EXCEPT ![e] = w]

(* importOrganization(): values are replaced, audited versions are not     *)
Import(valid) ==
  /\ Room
  /\ writes' = writes + 1
  /\ value' = [e \in Entity |-> writes + 1]
  /\ store' = IF valid THEN "valid" ELSE "invalid"

(* GUIDEHERD_DEV_USERS is read anew at every boot; sessions are not. *)
ReadDeployment ==
  /\ deployed' \in Deployments
  /\ NoneWithdrawn => deployed \subseteq deployed'

(* seedOnBoot(): the import commits, then the domains validate it *)
Boot(valid) ==
  /\ server = "down"
  /\ ReadDeployment
  /\ IF store = "absent" \/ Reseeding
     THEN /\ Import(valid)
          /\ server' = IF valid THEN "up" ELSE "down"
     ELSE server' = "up" /\ UNCHANGED <<store, value, writes>>
  /\ UNCHANGED <<version, directory, session, page, req>>

Stop ==
  /\ server = "up"
  /\ server' = "down"
  /\ req' = [p \in Page |-> Waiting]
  /\ UNCHANGED <<deployed, store, value, version, writes, directory, session, page>>

-----------------------------------------------------------------------------
(* Users and sessions.  A deployed user's record, if there is one, does    *)
(* not govern it.                                                          *)
ActiveAdmin(u) == user[u].there /\ user[u].active /\ user[u].admin

CanLogIn(u) == u \in deployed \/ (user[u].there /\ user[u].active)

(* The credential is good: the identity is what the provider says now. *)
Login(p, u) ==
  /\ At(p, "idle")
  /\ CanLogIn(u)
  /\ SetReq(p, [pc |-> "rotate", goal |-> "none", who |-> u,
                admin |-> u \in deployed \/ user[u].admin])
  /\ UNCHANGED <<configuration, directory, session, page>>

Drop(t) == IF t = Nobody THEN session ELSE [session EXCEPT ![t].state = "gone"]

(* establish(): the presented session is deleted ... *)
Rotate(p) ==
  /\ At(p, "rotate")
  /\ session' = Drop(page[p].cookie)
  /\ Become(p, "issue")
  /\ UNCHANGED <<configuration, directory, page>>

(* ... and a fresh one created. *)
Issue(p, t) ==
  /\ At(p, "issue")
  /\ session[t].state = "unissued"
  /\ session' = [session EXCEPT ![t] = [state |-> "live", who |-> req[p].who,
                                        admin |-> req[p].admin]]
  /\ page' = [page EXCEPT ![p].cookie = t, ![p].loaded = FALSE]
  /\ Ends(p)
  /\ UNCHANGED <<configuration, directory>>

Logout(p) ==
  /\ At(p, "idle") /\ page[p].cookie # Nobody
  /\ session' = Drop(page[p].cookie)
  /\ page' = [page EXCEPT ![p].cookie = Nobody, ![p].loaded = FALSE]
  /\ UNCHANGED <<configuration, directory, req>>

(* The absolute lifetime of a session is over. *)
Expire(t) ==
  /\ session[t].state = "live"
  /\ session' = Drop(t)
  /\ UNCHANGED <<configuration, directory, page, req>>

-----------------------------------------------------------------------------
(* The portal sends a request: a change comes from a form. *)
Ask(p, goal) ==
  /\ At(p, "idle") /\ page[p].cookie # Nobody
  /\ goal = "load" \/ page[p].loaded
  /\ SetReq(p, [Waiting EXCEPT !.pc = "session", !.goal = goal])
  /\ UNCHANGED <<configuration, directory, session, page>>

(* 401: the portal shows its login. *)
ShowLogin(p) == Ends(p) /\ page' = [page EXCEPT ![p].loaded = FALSE]

(* validate() reads the session's row. *)
ReadSession(p) ==
  /\ At(p, "session")
  /\ LET row == session[page[p].cookie] IN
       IF row.state = "live"
       THEN /\ SetReq(p, [req[p] EXCEPT !.pc = "admit", !.who = row.who, !.admin = row.admin])
            /\ UNCHANGED page
       ELSE ShowLogin(p)
  /\ UNCHANGED <<configuration, directory, session>>

Governed(u) == u \notin deployed /\ user[u].there

(* Mutant: the roles are those of the login. *)
MayAdministerAtLogin(p) == req[p].admin

MayAdminister(p) ==
  IF Governed(req[p].who) THEN user[req[p].who].admin ELSE req[p].admin

(* What the page is sent.  Of an entity whose version is not sent it keeps *)
(* the one it had, until the browser loads the page anew.                  *)
Describe(p, anew) ==
  page' = [page EXCEPT
    ![p] = [cookie |-> page[p].cookie, loaded |-> TRUE, seen |-> value,
            known |-> [e \in Entity |->
                         CASE e \in Described -> version[e]
                           [] e \in Catalog   -> IF anew THEN 0 ELSE page[p].known[e]]]]

(* The overlay of the directory, then the permission.                      *)
Revoked(p) == Governed(req[p].who) /\ ~user[req[p].who].active

Refuse(p) ==
  /\ At(p, "admit") /\ ~Revoked(p) /\ ~MayAdminister(p)
  /\ Ends(p)
  /\ UNCHANGED <<configuration, directory, session, page>>

AdmitLoad(p) ==
  /\ At(p, "admit") /\ ~Revoked(p) /\ MayAdminister(p)
  /\ req[p].goal = "load"
  /\ \E anew \in BOOLEAN : Describe(p, anew)
  /\ Ends(p)
  /\ UNCHANGED <<configuration, directory, session>>

AdmitChange(p) ==
  /\ At(p, "admit") /\ ~Revoked(p) /\ MayAdminister(p)
  /\ req[p].goal # "load"
  /\ Become(p, "body")
  /\ UNCHANGED <<configuration, directory, session, page>>

Revoke(p) ==
  /\ At(p, "admit") /\ Revoked(p)
  /\ Become(p, "revoke")
  /\ UNCHANGED <<configuration, directory, session, page>>

EndSession(p) ==
  /\ At(p, "revoke")
  /\ session' = Drop(page[p].cookie)
  /\ ShowLogin(p)
  /\ UNCHANGED <<configuration, directory>>

-----------------------------------------------------------------------------
(* administer(): version check, change and audit row in one transaction    *)
Expected(p, e) == version[e] = page[p].known[e]

(* Mutant: the version is read and not compared. *)
SaveUnchecked(p, e) ==
  /\ At(p, "body") /\ req[p].goal = "save"
  /\ Room
  /\ writes' = writes + 1
  /\ Write(e, writes + 1)
  /\ version' = [version EXCEPT ![e] = version[e] + 1]
  /\ page' = [page EXCEPT
       ![p] = [page[p] EXCEPT !.seen  = [page[p].seen EXCEPT ![e] = writes + 1],
                              !.known = [page[p].known EXCEPT ![e] = version[e] + 1]]]
  /\ Ends(p)
  /\ UNCHANGED <<server, deployed, store, directory, session>>

Save(p, e) ==
  /\ At(p, "body") /\ req[p].goal = "save"
  /\ Expected(p, e)
  /\ Room
  /\ writes' = writes + 1
  /\ Write(e, writes + 1)
  /\ version' = [version EXCEPT ![e] = version[e] + 1]
  /\ page' = [page EXCEPT
       ![p] = [page[p] EXCEPT !.seen  = [page[p].seen EXCEPT ![e] = writes + 1],
                              !.known = [page[p].known EXCEPT ![e] = version[e] + 1]]]
  /\ Ends(p)
  /\ UNCHANGED <<server, deployed, store, directory, session>>

(* "Changed by someone else": the page keeps what it has. *)
Conflict(p, e) ==
  /\ At(p, "body") /\ req[p].goal = "save"
  /\ ~Expected(p, e)
  /\ Ends(p)
  /\ UNCHANGED <<configuration, directory, session, page>>

Changing(p) ==
  /\ At(p, "body") /\ req[p].goal = "users"
  /\ Room
  /\ changes' = changes + 1
  /\ Ends(p)
  /\ UNCHANGED <<configuration, session, page>>

Administrators == {u \in Subject : ActiveAdmin(u)}

(* Mutant: who is deactivated counts as an administrator. *)
AnotherInactive(u) ==
  ActiveAdmin(u) => Cardinality({v \in Subject : user[v].there /\ user[v].admin}) > 1

(* requireAnotherAdministrator(), of the record as it is when applied *)
Another(u) == ActiveAdmin(u) => Cardinality(Administrators) > 1

CreateUser(p, u, admin) ==
  /\ Changing(p)
  /\ u \notin deployed /\ ~user[u].there
  /\ user' = [user EXCEPT ![u] = [there |-> TRUE, active |-> TRUE, admin |-> admin]]

SetRoles(p, u, admin) ==
  /\ Changing(p)
  /\ user[u].there
  /\ admin \/ Another(u)
  /\ user' = [user EXCEPT ![u].admin = admin]

Deactivate(p, u) ==
  /\ Changing(p)
  /\ user[u].there /\ u # req[p].who
  /\ Another(u)
  /\ user' = [user EXCEPT ![u].active = FALSE]

Activate(p, u) ==
  /\ Changing(p)
  /\ user[u].there
  /\ user' = [user EXCEPT ![u].active = TRUE]

-----------------------------------------------------------------------------
PageStep(p) ==
  \/ (\E u \in Subject : Login(p, u)) \/ Rotate(p) \/ (\E t \in Token : Issue(p, t))
  \/ Logout(p)
  \/ (\E goal \in {"load", "save", "users"} : Ask(p, goal))
  \/ ReadSession(p) \/ Refuse(p) \/ AdmitLoad(p) \/ AdmitChange(p)
  \/ Revoke(p) \/ EndSession(p)

Apply(p) ==
  \/ \E e \in Entity : Save(p, e) \/ Conflict(p, e)
  \/ \E u \in Subject :
       \/ \E admin \in BOOLEAN : CreateUser(p, u, admin) \/ SetRoles(p, u, admin)
       \/ Deactivate(p, u) \/ Activate(p, u)

Next ==
  \/ \E valid \in SeedsValid : Boot(valid)
  \/ Stop
  \/ \E t \in Token : Expire(t)
  \/ \E p \in Page : PageStep(p) \/ Apply(p)

Spec == Init /\ [][Next]_vars

-----------------------------------------------------------------------------
(* The last active administrator of the directory can be neither           *)
(* deactivated nor stripped of the role: not by two administrators who     *)
(* remove each other, nor by one who is removed while his request waits.   *)
LastAdministrator == [][Administrators # {} => Administrators' # {}]_vars

(* "Administration takes effect immediately": whoever is admitted to read  *)
(* or change the configuration is an active administrator at that moment,  *)
(* whatever his session was issued for; the deployment's own               *)
(* administrators are, whatever the directory says of them.  A session     *)
(* whose user has no record passes as it was issued, so this assumes       *)
(* NoneWithdrawn.                                                          *)
OnlyAdministrators ==
  [][\A p \in Page :
       (AdmitLoad(p) \/ AdmitChange(p)) =>
         req[p].who \in deployed \/ ActiveAdmin(req[p].who)]_vars

(* "Two administrators can't silently overwrite each other": a page that   *)
(* saves an entity replaces the value it displayed.                        *)
NoSilentOverwrite ==
  [][\A p \in Page : \A e \in Entity :
       version'[e] # version[e] /\ req[p].pc = "body" /\ req'[p].pc = "idle" =>
         value[e] = page[p].seen[e]]_vars

=============================================================================
