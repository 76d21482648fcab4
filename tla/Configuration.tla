--------------------------- MODULE Configuration ----------------------------
(***************************************************************************)
(* One organization's configuration: the catalog of attorneys, routing     *)
(* groups and consultation types, the stored document of one domain, the   *)
(* administrators who change both, the seed file a boot may import, and    *)
(* the consumers that read them.                                           *)
(*                                                                         *)
(* The store is one SQLite connection and its calls are synchronous, so an *)
(* administered change is one step.  The domains do not share state, so a  *)
(* behaviour follows the document of one; the catalog is shared.           *)
(***************************************************************************)
EXTENDS Domains, Naturals

CONSTANTS
  Attorney, Group, Type,    (* catalog keys                                 *)
  Area,                     (* practice areas, all of them in the catalog   *)
  Nobody,                   (* no attorney or no practice area in a request *)
  Documents,                (* [Domain -> the documents that are submitted] *)
  Seeds,                    (* [Domain -> the documents a seed may hold]    *)
  SeedAttorneys, SeedGroups, SeedTypes,   (* the entities the seed lists    *)
  Memberships,              (* the member lists that groups are given       *)
  Followed                  (* the domains whose document is followed       *)

VARIABLES
  domain,     (* the domain whose document is followed                      *)
  document,   (* what is stored for it                                      *)
  author,     (* who wrote that: nobody, the seed or an administrator       *)
  attorney,   (* [Attorney -> missing, active or inactive]                  *)
  group,      (* [Group -> its row]                                         *)
  type,       (* [Type -> missing, active or inactive]                      *)
  seed,       (* the seed file's mode and the document it holds, if any     *)
  server      (* new: no organization yet; down; up                         *)

catalog == <<attorney, group, type>>
configurationVars == <<domain, document, author, catalog, seed, server>>

Presence == {"missing", "active", "inactive"}

GroupRow == [state : Presence, area : Area, members : SUBSET Attorney]

(* An import that names what it does not list or find is rolled back: the  *)
(* seeds are ones that resolve.                                            *)
Listed(rows, keys, kinds) == DOMAIN rows \subseteq keys /\ \A k \in DOMAIN rows : rows[k] \in kinds

ASSUME ConfigurationAssumption ==
  /\ Followed \subseteq Domain
  /\ Attorney \cup Group \cup Type \subseteq Key
  /\ Memberships \subseteq SUBSET Attorney
  /\ Nobody \notin Attorney \cup Area /\ Area # {}
  /\ \A d \in Domain : Documents[d] \cup Seeds[d] \subseteq Document(d)
  /\ Listed(SeedAttorneys, Attorney, Presence) /\ Listed(SeedTypes, Type, Presence)
  /\ Listed(SeedGroups, Group, GroupRow)

NoGroup == [state |-> "missing", area |-> CHOOSE a \in Area : TRUE, members |-> {}]

-----------------------------------------------------------------------------
(* The strict rules of the producers' gate: what a document names exists,  *)
(* is active and is unambiguous.                                           *)
Active(rows) == {k \in DOMAIN rows : rows[k] = "active"}

ActiveGroups(area) == {g \in Group : group[g].state = "active" /\ group[g].area = area}

SoundGroups == {g \in Group : group[g].state = "active" /\ ActiveGroups(group[g].area) = {g}}

Bound(value) == value.given.attorneyCalendars.refs
Enabled(value) == value.given.schedulableAttorneys.refs

Uncovered(value) ==
  IF value.given.requireFullCoverage.is = "on" THEN Enabled(value) \ Bound(value) ELSE {}

StrictTargets(value) ==
  /\ Named("calendar-targets", value, "attorney") \subseteq Active(attorney)
  /\ Named("calendar-targets", value, "group") \subseteq SoundGroups
  /\ Named("calendar-targets", value, "type") \subseteq Active(type)
  /\ Uncovered(value) = {}

StrictCalcom(value) ==
  /\ Named("calcom-availability", value, "attorney") \subseteq Active(attorney)
  /\ Named("calcom-availability", value, "group") \subseteq SoundGroups

StrictWindow(value) == Named("booking-window", value, "attorney") \subseteq Active(attorney)

Strict(d, value) ==
  CASE d = "calendar-targets"    -> StrictTargets(value)
    [] d = "calcom-availability" -> StrictCalcom(value)
    [] d = "booking-window"      -> StrictWindow(value)
    [] OTHER                     -> TRUE

(* validate(): nothing lost in normalizing, and the strict rules *)
Accepts(d, doc) == Issues(d, doc) = {} /\ Strict(d, Value(d, doc))

(* Every registry but the calendar providers' is handed to the gate. *)
AcceptsHere(d, doc) == Accepts(d, doc) /\ Unregistered(d, Value(d, doc)) = {}

-----------------------------------------------------------------------------
(* Administration *)

(* Mutant: what was submitted is stored, not what was made of it. *)
StoreAsSubmitted(doc) ==
  /\ document' = [doc EXCEPT !.shape = IF @ = "none" THEN "null" ELSE @]
  /\ author' = "administrator"

Store(doc) ==
  /\ document' = Value(domain, doc)
  /\ author' = "administrator"

(* An accepted document; a refused one changes nothing. *)
AdministerDocument(doc) ==
  /\ AcceptsHere(domain, doc)
  /\ Store(doc)
  /\ UNCHANGED <<domain, catalog, seed, server>>

(* A submitted flag: what is created is active unless it says otherwise... *)
NewState(flag) == IF flag = "off" THEN "inactive" ELSE "active"

(* ... and an update that gives no flag, or null, leaves it. *)
PatchedState(state, flag) ==
  CASE flag = "on" -> "active" [] flag = "off" -> "inactive" [] OTHER -> state

Put(state, flag) == IF state = "missing" THEN NewState(flag) ELSE PatchedState(state, flag)

SubmittedFlag == {"absent", "on", "off"}

AdministerAttorney(a, flag) ==
  /\ attorney' = [attorney EXCEPT ![a] = Put(attorney[a], flag)]
  /\ UNCHANGED <<domain, document, author, group, type, seed, server>>

AdministerType(t, flag) ==
  /\ type' = [type EXCEPT ![t] = Put(type[t], flag)]
  /\ UNCHANGED <<domain, document, author, attorney, group, seed, server>>

SetGroup(g, row) ==
  /\ group' = [group EXCEPT ![g] = row]
  /\ UNCHANGED <<domain, document, author, attorney, type, seed, server>>

Existing == {a \in Attorney : attorney[a] # "missing"}

CreateGroup(g, area, members, flag) ==
  /\ group[g].state = "missing" /\ members \subseteq Existing
  /\ SetGroup(g, [state |-> NewState(flag), area |-> area, members |-> members])

UpdateGroup(g, area, flag) ==
  /\ group[g].state # "missing"
  /\ SetGroup(g, [group[g] EXCEPT !.state = PatchedState(@, flag), !.area = area])

(* The attorney order: a list with somebody in it, all of whom exist. *)
SetMembers(g, members) ==
  /\ group[g].state # "missing" /\ members # {} /\ members \subseteq Existing
  /\ SetGroup(g, [group[g] EXCEPT !.members = members])

AdministerCatalog ==
  \/ \E a \in Attorney, flag \in SubmittedFlag : AdministerAttorney(a, flag)
  \/ \E t \in Type, flag \in SubmittedFlag : AdministerType(t, flag)
  \/ \E g \in Group, area \in Area :
       \/ \E members \in Memberships, flag \in SubmittedFlag :
            CreateGroup(g, area, members, flag)
       \/ \E flag \in SubmittedFlag : UpdateGroup(g, area, flag)
  \/ \E g \in Group, members \in Memberships : SetMembers(g, members)

Administer ==
  /\ server = "up"
  /\ AdministerCatalog \/ \E doc \in Documents[domain] : AdministerDocument(doc)

-----------------------------------------------------------------------------
(* The seed.  Importing upserts what the file lists, whose entities are    *)
(* active unless it says otherwise, and leaves alone what it does not.     *)
Upserted(rows, listed) ==
  [k \in DOMAIN rows |-> IF k \in DOMAIN listed THEN listed[k] ELSE rows[k]]

SeedHolds == seed.doc.shape # "none"

Import ==
  /\ attorney' = Upserted(attorney, SeedAttorneys)
  /\ group' = Upserted(group, SeedGroups)
  /\ type' = Upserted(type, SeedTypes)
  /\ document' = IF SeedHolds THEN seed.doc ELSE document
  /\ author' = IF SeedHolds THEN "seed" ELSE author
  /\ UNCHANGED <<domain, seed>>

(* validateStored(): an unset document, or null, is not looked at *)
StoredPasses == document.shape \in {"none", "null"} \/ Accepts(domain, document)

(* Mutant: a boot imports whatever is there already. *)
BootSkipsNever == FALSE

(* In bootstrap mode the file counts for an organization that is not there. *)
BootSkips == seed.mode = "bootstrap" /\ server # "new"

(* The import commits; then the stored documents are validated, and one    *)
(* with issues refuses the boot.                                           *)
BootImporting ==
  /\ ~BootSkips
  /\ Import
  /\ server' = IF StoredPasses' THEN "up" ELSE "down"

BootSkipping ==
  /\ BootSkips
  /\ server' = "up"
  /\ UNCHANGED <<domain, document, author, catalog, seed>>

Boot == server \in {"new", "down"} /\ (BootImporting \/ BootSkipping)

Stop ==
  /\ server = "up" /\ server' = "down"
  /\ UNCHANGED <<domain, document, author, catalog, seed>>

(* The operator's import: the process that serves is another. *)
SeedByHand == server # "new" /\ Import /\ UNCHANGED server

-----------------------------------------------------------------------------
(* The consumers *)
Targets == Value("calendar-targets", document)

(* Whether a request for an attorney, a practice area, both or neither is  *)
(* given calendars, and whose.                                             *)
Fails == [resolved |-> FALSE, attorneys |-> {}]
Reaches(attorneys) == [resolved |-> TRUE, attorneys |-> attorneys]

AttorneyRoute(a) == IF a \in Bound(Targets) THEN Reaches({a}) ELSE Fails

(* A group's own calendar, else all of its members' or none. *)
GroupRoute(g) ==
  IF g \in Targets.given.routingGroupCalendars.refs THEN Reaches({})
  ELSE IF group[g].members # {} /\ group[g].members \subseteq Bound(Targets)
  THEN Reaches(group[g].members) ELSE Fails

DefaultRoute == IF Targets.given.defaultCalendar.is = "good" THEN Reaches({}) ELSE Fails

Serving(area) == CHOOSE g \in Group : ActiveGroups(area) = {g}

Route(a, area) ==
  IF area = Nobody THEN IF a = Nobody THEN DefaultRoute ELSE AttorneyRoute(a)
  ELSE IF Cardinality(ActiveGroups(area)) # 1 THEN Fails
  ELSE IF a = Nobody THEN GroupRoute(Serving(area))
  ELSE IF a \in group[Serving(area)].members THEN AttorneyRoute(a) ELSE Fails

(* An attorney who is asked for by name is looked up in the catalog first. *)
Requests == (Active(attorney) \cup {Nobody}) \X (Area \cup {Nobody})

(* Readiness: the answer to "can this organization schedule natively?" *)
CoveredGroups ==
  {g \in Group : group[g].state = "active" /\ GroupRoute(g).resolved}

AnyRoute == DefaultRoute.resolved \/ Bound(Targets) # {} \/ CoveredGroups # {}

(* Mutant: an enabled attorney without a calendar is let pass. *)
ReadyUnbound ==
  StrictTargets(Targets) /\ Targets.given.provider.is = "good" /\ AnyRoute

Ready ==
  /\ StrictTargets(Targets)
  /\ Enabled(Targets) \cap Active(attorney) \subseteq Bound(Targets)
  /\ Targets.given.provider.is = "good" /\ AnyRoute

-----------------------------------------------------------------------------
ConfigurationInit ==
  /\ domain \in Followed
  /\ document = None(domain) /\ author = "nobody"
  /\ attorney = [a \in Attorney |-> "missing"]
  /\ group = [g \in Group |-> NoGroup]
  /\ type = [t \in Type |-> "missing"]
  /\ seed \in [mode : {"bootstrap", "always"}, doc : Seeds[domain] \cup {None(domain)}]
  /\ server = "new"

ConfigurationNext == Administer \/ Boot \/ Stop \/ SeedByHand

ConfigurationSpec == ConfigurationInit /\ [][ConfigurationNext]_configurationVars

ConfigurationTypeOK ==
  /\ domain \in Domain /\ document \in Document(domain)
  /\ author \in {"nobody", "seed", "administrator"}
  /\ attorney \in [Attorney -> Presence] /\ group \in [Group -> GroupRow]
  /\ type \in [Type -> Presence] /\ server \in {"new", "down", "up"}

-----------------------------------------------------------------------------
(* "A producer persists only the canonical result": what an administrator  *)
(* saved is, to the field, what every consumer reads ever after, and names *)
(* no provider, integration or workflow the deployment lacks.              *)
SavedIsRead ==
  author = "administrator" =>
    /\ Value(domain, document) = document
    /\ Unregistered(domain, document) = {}

(* The gate lets nothing through that it refuses when a boot looks again,  *)
(* except where the catalog has changed since: a row the document names    *)
(* was retired, or a group it names no longer serves its area alone.  Two  *)
(* domains fall short of it: see the README, Disagreements.                *)
RefusedForCause ==
  author = "administrator" /\ ~StoredPasses =>
    \/ domain \in {"notification-branding", "scheduling-prompt"}
    \/ ~(Named(domain, document, "attorney") \subseteq Active(attorney))
    \/ ~(Named(domain, document, "type") \subseteq Active(type))
    \/ ~(Named(domain, document, "group") \subseteq SoundGroups)

(* "An incompletely provisioned tenant can never be presented as ready":   *)
(* when readiness says so, every enabled attorney is active and a request  *)
(* by name reaches their calendar, and no request, whatever groups and     *)
(* areas have become, reaches an attorney who is not active.               *)
ReadyMeansRoutable ==
  domain = "calendar-targets" /\ Ready =>
    /\ \A a \in Enabled(Targets) :
         attorney[a] = "active" /\ Route(a, Nobody) = Reaches({a})
    /\ \E r \in Requests : Route(r[1], r[2]).resolved
    /\ \A r \in Requests : Route(r[1], r[2]).attorneys \subseteq Active(attorney)

(* "A stale seed file can never overwrite newer live edits": in bootstrap  *)
(* mode no boot of an organization that is there changes its catalog or    *)
(* its documents, whether the boot before it served or was refused.        *)
LiveEditsWin ==
  [][seed.mode = "bootstrap" /\ server = "down" /\ server' # "down"
       => UNCHANGED <<document, author, catalog>>]_configurationVars
=============================================================================
