------------------------ MODULE Configuration_proofs ------------------------
(***************************************************************************)
(* Proofs about configuration: for any catalog, documents, seeds and       *)
(* followed domain.                                                        *)
(***************************************************************************)
EXTENDS Configuration, FiniteSetTheorems, TLAPS

-----------------------------------------------------------------------------
(* What the kinds of fields have in common. *)
KindOK(kind) ==
  /\ kind.falls \in FieldValue /\ kind.falls.is # "part"
  /\ "part" \in kind.takes => "good" \in kind.takes

(* A kind for which taking a value over leaves no issue in it. *)
Settles(kind) ==
  /\ kind.passes \ kind.takes # {} => kind.falls.is \in kind.passes
  /\ "part" \in kind.takes \cap kind.passes => "good" \in kind.passes

(* A kind whose fallback has no issue. *)
FallsWell(kind) == kind.falls.is \in kind.passes

Unsettled == {"notification-branding", "scheduling-prompt"}

LEMMA PlainValues ==
  /\ \A is \in {"absent", "null", "default", "off"} :
       Plain(is) \in FieldValue /\ Plain(is).is = is
  /\ \A refs \in SUBSET Key : Good(refs) \in FieldValue /\ Good(refs).is = "good"
BY DEF FieldValue, Plain, Good

LEMMA KindsOK ==
  \A kind \in {Flag, NeededFlag, Choice, Number, Preference, Refs, List, Text, Selected,
               Quiet, Recipient, Override, Logo, Office} :
    KindOK(kind)
BY PlainValues DEF KindOK, Kind, Flag, NeededFlag, Choice, Number, Preference, Refs, List, Text,
   Selected, Quiet, Recipient, Override, Logo, Office

LEMMA KindsSettle ==
  \A kind \in {Flag, NeededFlag, Choice, Number, Preference, Refs, List, Selected,
               Quiet, Recipient} :
    Settles(kind) /\ FallsWell(kind)
BY PlainValues DEF Settles, FallsWell, Kind, Flag, NeededFlag, Choice, Number, Preference, Refs,
   List, Selected, Quiet, Recipient, Given

LEMMA NamingKeeps ==
  ASSUME NEW kind \in {Refs, Selected}, NEW what
  PROVE  /\ KindOK(Naming(kind, what)) 
         /\ Settles(Naming(kind, what)) /\ FallsWell(Naming(kind, what))
<1> DEFINE named == Naming(kind, what)
<1>1. named.takes = kind.takes /\ named.passes = kind.passes /\ named.falls = kind.falls
  BY DEF Naming, Kind, Refs, Selected
<1>2. KindOK(kind) /\ Settles(kind) /\ FallsWell(kind)
  BY KindsOK, KindsSettle
<1> QED
  BY <1>1, <1>2 DEF KindOK, Settles, FallsWell

SheetOK(sheet) == \A f \in DOMAIN sheet : KindOK(sheet[f])
SheetSettles(sheet) == \A f \in DOMAIN sheet : Settles(sheet[f]) /\ FallsWell(sheet[f])

LEMMA SheetsOK == \A d \in Domain : SheetOK(Sheet(d))
<1>1. SheetOK(SchedulingPolicy)
  BY KindsOK DEF SheetOK, SchedulingPolicy
<1>2. SheetOK(DefaultConsultationType)
  BY KindsOK DEF SheetOK, DefaultConsultationType
<1>3. SheetOK(CalcomAvailability)
  BY KindsOK, NamingKeeps DEF SheetOK, CalcomAvailability
<1>4. SheetOK(CalendarTargets)
  BY KindsOK, NamingKeeps DEF SheetOK, CalendarTargets
<1>5. SheetOK(BookingWindow)
  BY KindsOK, NamingKeeps DEF SheetOK, BookingWindow
<1>6. SheetOK(SchedulingPrompt)
  BY KindsOK DEF SheetOK, SchedulingPrompt
<1>7. SheetOK(NotificationBranding)
  BY KindsOK DEF SheetOK, NotificationBranding
<1>8. SheetOK(Notifications) /\ SheetOK(GraphInvitations)
  BY KindsOK DEF SheetOK, Notifications, GraphInvitations
<1>9. SheetOK(DataRetention) /\ SheetOK(OperationalAlerts) /\ SheetOK(AppointmentReminders)
  BY KindsOK DEF SheetOK, DataRetention, OperationalAlerts, AppointmentReminders
<1>10. SheetOK(ProviderSelection) /\ SheetOK(IntegrationProviders) /\ SheetOK(Workflows)
  BY KindsOK, NamingKeeps DEF SheetOK, ProviderSelection, IntegrationProviders, Workflows
<1> QED
  BY <1>1, <1>2, <1>3, <1>4, <1>5, <1>6, <1>7, <1>8, <1>9, <1>10 DEF Domain, Sheet

LEMMA SheetsSettle == \A d \in Domain \ Unsettled : SheetSettles(Sheet(d))
<1>1. SheetSettles(SchedulingPolicy)
  BY KindsSettle DEF SheetSettles, SchedulingPolicy
<1>2. SheetSettles(DefaultConsultationType)
  BY DEF SheetSettles, DefaultConsultationType
<1>3. SheetSettles(CalcomAvailability)
  BY KindsSettle, NamingKeeps DEF SheetSettles, CalcomAvailability
<1>4. SheetSettles(CalendarTargets)
  BY KindsSettle, NamingKeeps DEF SheetSettles, CalendarTargets
<1>5. SheetSettles(BookingWindow)
  BY KindsSettle, NamingKeeps DEF SheetSettles, BookingWindow
<1>6. SheetSettles(Notifications) /\ SheetSettles(GraphInvitations)
  BY KindsSettle DEF SheetSettles, Notifications, GraphInvitations
<1>7. SheetSettles(DataRetention) /\ SheetSettles(OperationalAlerts)
        /\ SheetSettles(AppointmentReminders)
  BY KindsSettle DEF SheetSettles, DataRetention, OperationalAlerts, AppointmentReminders
<1>8. SheetSettles(ProviderSelection) /\ SheetSettles(IntegrationProviders)
        /\ SheetSettles(Workflows)
  BY KindsSettle, NamingKeeps DEF SheetSettles, ProviderSelection, IntegrationProviders, Workflows
<1> QED
  BY <1>1, <1>2, <1>3, <1>4, <1>5, <1>6, <1>7, <1>8 DEF Domain, Sheet, Unsettled

-----------------------------------------------------------------------------
(* Taking a value over. *)
LEMMA TakenFacts ==
  ASSUME NEW kind, KindOK(kind), NEW v
  PROVE  /\ Taken(kind, Taken(kind, v)) = Taken(kind, v)
         /\ Taken(kind, kind.falls) = kind.falls
         /\ v \in FieldValue => Taken(kind, v) \in FieldValue
         /\ Settles(kind) /\ v.is \in kind.passes => Taken(kind, v).is \in kind.passes
<1>1. Cleaned(kind.falls) = kind.falls
  BY DEF KindOK, Cleaned
<1>2. Good(v.refs).is = "good" /\ Cleaned(Good(v.refs)) = Good(v.refs)
  BY DEF Good, Cleaned
<1>3. v \in FieldValue => Cleaned(v) \in FieldValue
  BY DEF Cleaned, FieldValue, Good
<1>4. CASE v.is \notin kind.takes
  BY <1>1, <1>4 DEF Taken, KindOK, Settles
<1>5. CASE v.is \in kind.takes /\ v.is = "part"
  BY <1>1, <1>2, <1>3, <1>5 DEF Taken, KindOK, Settles, Cleaned
<1>6. CASE v.is \in kind.takes /\ v.is # "part"
  BY <1>1, <1>3, <1>6 DEF Taken, KindOK, Settles, Cleaned
<1> QED
  BY <1>4, <1>5, <1>6

LEMMA SheetedFacts ==
  ASSUME NEW d, NEW given
  PROVE  /\ Sheeted(d, given).shape = "object" /\ ~Sheeted(d, given).stray
         /\ Sheeted(d, given).given = given
BY DEF Sheeted

LEMMA NullFacts ==
  ASSUME NEW d
  PROVE  /\ Null(d).shape = "null" /\ None(d).shape = "none" /\ ~Null(d).stray
         /\ Null(d).given = Blank(d) /\ None(d).given = Blank(d)
BY DEF Null, None

(* A sheet that was read is read the same again. *)
LEMMA AllTakenTwice ==
  ASSUME NEW d \in Domain, NEW doc
  PROVE  AllTaken(d, Sheeted(d, AllTaken(d, doc))) = AllTaken(d, doc)
BY SheetsOK, SheetedFacts, TakenFacts DEF AllTaken, SheetOK, FieldsOf

LEMMA FallsTaken ==
  ASSUME NEW d \in Domain
  PROVE  AllTaken(d, Sheeted(d, [f \in FieldsOf(d) |-> Sheet(d)[f].falls]))
           = [f \in FieldsOf(d) |-> Sheet(d)[f].falls]
BY SheetsOK, SheetedFacts, TakenFacts DEF AllTaken, SheetOK, FieldsOf

(* A guarded switch is a flag: on, or off, which is what it falls back on. *)
Switched == {"data-retention", "operational-alerts"}

LEMMA Switches ==
  ASSUME NEW d \in Switched
  PROVE  /\ d \in Domain /\ "enabled" \in FieldsOf(d)
         /\ Sheet(d)["enabled"].takes = {"on", "off"}
         /\ Sheet(d)["enabled"].falls = Plain("off")
         /\ {"on", "off"} \subseteq Sheet(d)["enabled"].passes
BY DEF Switched, Domain, FieldsOf, Sheet, DataRetention, OperationalAlerts, Flag, NeededFlag, Kind

LEMMA EnabledTaken ==
  ASSUME NEW d \in Switched, NEW v
  PROVE  Taken(Sheet(d)["enabled"], v).is \in {"on", "off"}
BY Switches, PlainValues DEF Taken, Cleaned

(* Whether it was guarded or not, and whether it will be. *)
LEMMA GuardedTaken ==
  ASSUME NEW d \in Switched, NEW doc, NEW fine
  PROVE  /\ AllTaken(d, Sheeted(d, Guarded(AllTaken(d, doc), fine))) = Guarded(AllTaken(d, doc), fine)
         /\ ~fine => \A again : Guarded(Guarded(AllTaken(d, doc), fine), again)
                                  = Guarded(AllTaken(d, doc), fine)
<1> DEFINE given == AllTaken(d, doc)
           off == [given EXCEPT !.enabled = Plain("off")]
<1>1. d \in Domain
  BY Switches
<1>2. AllTaken(d, Sheeted(d, given)) = given
  BY <1>1, AllTakenTwice
<1>3. AllTaken(d, Sheeted(d, off)) = off
  <2>1. Taken(Sheet(d)["enabled"], Plain("off")) = Plain("off")
    BY Switches, PlainValues DEF Taken, Cleaned
  <2>2. \A f \in FieldsOf(d) : Taken(Sheet(d)[f], given[f]) = given[f]
    BY <1>1, SheetsOK, TakenFacts DEF AllTaken, SheetOK, FieldsOf
  <2>3. DOMAIN given = FieldsOf(d)
    BY DEF AllTaken
  <2>4. AllTaken(d, Sheeted(d, off)) = [f \in FieldsOf(d) |-> Taken(Sheet(d)[f], off[f])]
    BY SheetedFacts DEF AllTaken
  <2>5. \A f \in FieldsOf(d) : off[f] = IF f = "enabled" THEN Plain("off") ELSE given[f]
    BY <2>3
  <2>6. off = [f \in FieldsOf(d) |-> off[f]]
    BY <2>3
  <2>7. \A f \in FieldsOf(d) : Taken(Sheet(d)[f], off[f]) = off[f]
    BY <2>1, <2>2, <2>5
  <2> HIDE DEF off, given
  <2> QED
    BY <2>4, <2>6, <2>7
<1>4. [off EXCEPT !.enabled = Plain("off")] = off
  BY Switches DEF AllTaken
<1> QED
  BY <1>2, <1>3, <1>4 DEF Guarded

(* What is read of a sheet without issues has none. *)
LEMMA CleanSheet ==
  ASSUME NEW d \in Domain \ Unsettled, NEW doc, Faulty(d, doc) = {}
  PROVE  Faulty(d, Sheeted(d, AllTaken(d, doc))) = {}
<1> DEFINE given == AllTaken(d, doc)
<1>1. SheetSettles(Sheet(d)) /\ SheetOK(Sheet(d))
  BY SheetsSettle, SheetsOK
<1>2. \A f \in FieldsOf(d) : doc.given[f].is \in Sheet(d)[f].passes
  BY DEF Faulty
<1>3. \A f \in FieldsOf(d) : Taken(Sheet(d)[f], doc.given[f]).is \in Sheet(d)[f].passes
  BY <1>1, <1>2, TakenFacts DEF SheetSettles, SheetOK, FieldsOf
<1>4. \A f \in FieldsOf(d) : given[f] = Taken(Sheet(d)[f], doc.given[f])
  BY DEF AllTaken
<1> QED
  BY <1>3, <1>4, SheetedFacts DEF Faulty

LEMMA CleanAlerts ==
  ASSUME NEW doc, AlertsIssues(doc) = {}
  PROVE  AlertsIssues(Sheeted("operational-alerts", AllTaken("operational-alerts", doc))) = {}
<1> DEFINE d == "operational-alerts"
           given == AllTaken(d, doc)
<1>1. given.enabled.is = "on" => doc.given.enabled.is = "on"
  <2>1. Taken(Sheet(d)["enabled"], doc.given.enabled).is = "on" => doc.given.enabled.is = "on"
    BY Switches, PlainValues DEF Taken, Cleaned, Switched
  <2> QED
    BY <2>1, Switches DEF AllTaken, Switched
<1>2. doc.given.recipient.is = "good" => given.recipient.is = "good"
  <2>1. "recipient" \in FieldsOf(d) /\ "good" \in Sheet(d)["recipient"].takes
    BY DEF FieldsOf, Sheet, OperationalAlerts, Recipient, Kind
  <2>2. doc.given.recipient.is = "good" =>
          Taken(Sheet(d)["recipient"], doc.given.recipient).is = "good"
    BY <2>1 DEF Taken, Cleaned
  <2> QED
    BY <2>1, <2>2 DEF AllTaken
<1>3. doc.given.enabled.is = "on" => doc.given.recipient.is = "good"
  BY DEF AlertsIssues
<1> QED
  BY <1>1, <1>2, <1>3, SheetedFacts DEF AlertsIssues

(* The lenient read of what the lenient read made. *)
LEMMA ReadTwice ==
  ASSUME NEW d \in Domain, NEW doc
  PROVE  Value(d, Value(d, doc)) = Value(d, doc)
<1>1. CASE doc.shape # "object"
  <2>1. Value(d, doc) = Defaults(d)
    BY <1>1 DEF Value
  <2>2. CASE Defaults(d) = Null(d)
    BY <2>1, <2>2, NullFacts DEF Value
  <2>3. CASE Defaults(d) = Sheeted(d, [f \in FieldsOf(d) |-> Sheet(d)[f].falls])
             /\ d # "scheduling-policy"
    <3> DEFINE falls == [f \in FieldsOf(d) |-> Sheet(d)[f].falls]
    <3>1. AllTaken(d, Sheeted(d, falls)) = falls /\ Sheeted(d, falls).shape = "object"
      BY FallsTaken, SheetedFacts
    <3>2. d \in Switched => \A fine : Guarded(falls, fine) = falls
      BY Switches DEF Guarded
    <3> HIDE DEF falls
    <3>3. Value(d, Sheeted(d, falls)) = Sheeted(d, falls)
      BY <2>3, <3>1, <3>2 DEF Value, RetentionValue, AlertsValue, Switched
    <3> QED
      BY <2>1, <2>3, <3>3 DEF falls
  <2> QED
    BY <2>2, <2>3 DEF Defaults
<1>2. CASE doc.shape = "object" /\ d = "scheduling-policy"
  <2>1. Value(d, doc) = PolicyValue(doc)
    BY <1>2 DEF Value
  <2>2. CASE AllTaken(d, doc) = Blank(d)
    <3>1. Value(d, doc) = Null(d)
      BY <1>2, <2>1, <2>2 DEF PolicyValue
    <3>2. Defaults(d) = Null(d)
      BY <1>2 DEF Defaults
    <3> QED
      BY <3>1, <3>2, NullFacts DEF Value
  <2>3. CASE AllTaken(d, doc) # Blank(d)
    <3>1. Value(d, doc) = Sheeted(d, AllTaken(d, doc))
      BY <1>2, <2>1, <2>3 DEF PolicyValue
    <3>2. PolicyValue(Sheeted(d, AllTaken(d, doc))) = Sheeted(d, AllTaken(d, doc))
      BY <1>2, <2>3, AllTakenTwice DEF PolicyValue
    <3> QED
      BY <1>2, <3>1, <3>2, SheetedFacts DEF Value
  <2> QED
    BY <2>2, <2>3
<1>3. CASE doc.shape = "object" /\ d \in Switched
  <2>1. PICK fine : /\ Value(d, doc) = Sheeted(d, Guarded(AllTaken(d, doc), fine))
                    /\ fine => /\ ~doc.stray
                               /\ d = "data-retention" => "enabled" \notin Faulty(d, doc)
                               /\ d = "operational-alerts" =>
                                    Faulty(d, doc) = {} /\ AlertsIssues(doc) = {}
    <3>1. CASE d = "data-retention"
      BY <1>3, <3>1 DEF Value, RetentionValue
    <3>2. CASE d = "operational-alerts"
      BY <1>3, <3>2 DEF Value, AlertsValue
    <3> QED
      BY <1>3, <3>1, <3>2 DEF Switched
  <2> DEFINE given == Guarded(AllTaken(d, doc), fine)
             read == Sheeted(d, given)
  <2>2. AllTaken(d, read) = given
    BY <1>3, GuardedTaken
  <2>3. read.shape = "object" /\ ~read.stray /\ read.given = given
    BY SheetedFacts
  <2>4. CASE ~fine
    <3>1. \A again : Guarded(given, again) = given
      BY <1>3, <2>4, GuardedTaken
    <3> HIDE DEF given
    <3>2. Value(d, read) = read
      BY <1>3, <2>2, <2>3, <3>1 DEF Value, RetentionValue, AlertsValue, Switched
    <3> QED
      BY <2>1, <3>2 DEF given
  <2>5. CASE fine
    <3>1. given = AllTaken(d, doc)
      BY <2>5 DEF Guarded
    <3>2. given["enabled"].is \in {"on", "off"}
      BY <1>3, <3>1, EnabledTaken, Switches DEF AllTaken
    <3>3. "enabled" \notin Faulty(d, read)
      BY <1>3, <2>3, <3>2, Switches DEF Faulty
    <3>4. d = "operational-alerts" => Faulty(d, read) = {} /\ AlertsIssues(read) = {}
      BY <2>1, <2>5, <3>1, CleanSheet, CleanAlerts DEF Unsettled
    <3> HIDE DEF given
    <3>5. Value(d, read) = read
      BY <1>3, <2>2, <2>3, <3>3, <3>4 DEF Value, RetentionValue, AlertsValue, Guarded, Switched
    <3> QED
      BY <2>1, <3>5 DEF given
  <2> QED
    BY <2>4, <2>5
<1>4. CASE doc.shape = "object" /\ d # "scheduling-policy" /\ d \notin Switched
  <2>1. Value(d, doc) = Sheeted(d, AllTaken(d, doc))
    BY <1>4 DEF Value, Switched
  <2>2. Value(d, Sheeted(d, AllTaken(d, doc))) = Sheeted(d, AllTaken(d, doc))
    BY <1>4, AllTakenTwice, SheetedFacts DEF Value, Switched
  <2> QED
    BY <2>1, <2>2
<1> QED
  BY <1>1, <1>2, <1>3, <1>4

LEMMA DefaultsFacts ==
  ASSUME NEW d \in Domain
  PROVE  \/ Defaults(d) = Null(d)
         \/ Defaults(d) = Sheeted(d, [f \in FieldsOf(d) |-> Sheet(d)[f].falls])
BY DEF Defaults

(* A document nothing is wrong with becomes one nothing is wrong with: all *)
(* domains but the unsettled two.                                          *)
LEMMA CleanRead ==
  ASSUME NEW d \in Domain \ Unsettled, NEW doc, Issues(d, doc) = {}
  PROVE  Value(d, doc).shape = "null" \/ Issues(d, Value(d, doc)) = {}
<1>1. ASSUME NEW given, Faulty(d, Sheeted(d, given)) = {},
             d = "operational-alerts" => AlertsIssues(Sheeted(d, given)) = {}
      PROVE  Issues(d, Sheeted(d, given)) = {}
  BY <1>1, SheetedFacts DEF Issues
<1>2. CASE doc.shape # "object"
  <2>1. Value(d, doc) = Defaults(d)
    BY <1>2 DEF Value
  <2>2. CASE Defaults(d) = Null(d)
    BY <2>1, <2>2, NullFacts
  <2>3. CASE Defaults(d) = Sheeted(d, [f \in FieldsOf(d) |-> Sheet(d)[f].falls])
    <3> DEFINE falls == [f \in FieldsOf(d) |-> Sheet(d)[f].falls]
    <3>1. Faulty(d, Sheeted(d, falls)) = {}
      BY SheetsSettle, SheetedFacts DEF Faulty, SheetSettles, FallsWell, FieldsOf
    <3>2. d = "operational-alerts" => AlertsIssues(Sheeted(d, falls)) = {}
      BY Switches, PlainValues, SheetedFacts DEF AlertsIssues, Switched
    <3> HIDE DEF falls
    <3>3. Issues(d, Sheeted(d, falls)) = {}
      BY <1>1, <3>1, <3>2
    <3> QED
      BY <2>1, <2>3, <3>3 DEF falls
  <2> QED
    BY <2>2, <2>3, DefaultsFacts
<1>3. CASE doc.shape = "object"
  <2>1. /\ ~doc.stray /\ Faulty(d, doc) = {}
        /\ d = "operational-alerts" => AlertsIssues(doc) = {}
    BY <1>3 DEF Issues
  <2>2. Value(d, doc) = Null(d) \/ Value(d, doc) = Sheeted(d, AllTaken(d, doc))
    BY <1>3, <2>1 DEF Value, PolicyValue, RetentionValue, AlertsValue, Guarded
  <2>3. Issues(d, Sheeted(d, AllTaken(d, doc))) = {}
    BY <1>1, <2>1, CleanSheet, CleanAlerts
  <2> QED
    BY <2>2, <2>3, NullFacts
<1> QED
  BY <1>2, <1>3

LEMMA DocumentFacts ==
  ASSUME NEW d \in Domain
  PROVE  /\ None(d) \in Document(d) /\ Null(d) \in Document(d)
         /\ \A given \in [FieldsOf(d) -> FieldValue] : Sheeted(d, given) \in Document(d)
<1>1. Blank(d) \in [FieldsOf(d) -> FieldValue]
  BY PlainValues DEF Blank
<1>2. None(d) = [shape |-> "none", stray |-> FALSE, given |-> Blank(d)]
  BY DEF None
<1>3. None(d) \in Document(d) /\ Null(d) = [None(d) EXCEPT !.shape = "null"]
  BY <1>1, <1>2 DEF Document, Null
<1> QED
  BY <1>1, <1>2, <1>3 DEF Document, Sheeted

LEMMA ValueTyped ==
  ASSUME NEW d \in Domain, NEW doc \in Document(d)
  PROVE  Value(d, doc) \in Document(d)
<1>1. [f \in FieldsOf(d) |-> Sheet(d)[f].falls] \in [FieldsOf(d) -> FieldValue]
  BY SheetsOK DEF SheetOK, KindOK, FieldsOf
<1>2. AllTaken(d, doc) \in [FieldsOf(d) -> FieldValue]
  <2>1. \A f \in FieldsOf(d) : doc.given[f] \in FieldValue
    BY DEF Document
  <2> QED
    BY <2>1, SheetsOK, TakenFacts DEF AllTaken, SheetOK, FieldsOf
<1>3. \A fine : Guarded(AllTaken(d, doc), fine) \in [FieldsOf(d) -> FieldValue]
  <2>1. [AllTaken(d, doc) EXCEPT !.enabled = Plain("off")] \in [FieldsOf(d) -> FieldValue]
    BY <1>2, PlainValues
  <2> QED
    BY <1>2, <2>1 DEF Guarded
<1>4. Defaults(d) \in Document(d)
  BY <1>1, DefaultsFacts, DocumentFacts
<1>5. Sheeted(d, AllTaken(d, doc)) \in Document(d)
  BY <1>2, DocumentFacts
<1>6. d = "data-retention" => RetentionValue(doc) \in Document(d)
  BY <1>3, DocumentFacts DEF RetentionValue
<1>7. d = "operational-alerts" => AlertsValue(doc) \in Document(d)
  BY <1>3, DocumentFacts DEF AlertsValue
<1>8. d = "scheduling-policy" => PolicyValue(doc) \in Document(d)
  BY <1>2, DocumentFacts DEF PolicyValue
<1> QED
  BY <1>4, <1>5, <1>6, <1>7, <1>8 DEF Value

-----------------------------------------------------------------------------
(* The invariant.  What an administrator saved reads as itself, and again  *)
(* without an issue that its own fields could raise.                       *)
SavedInv ==
  author = "administrator" =>
    /\ Value(domain, document) = document
    /\ Unregistered(domain, document) = {}
    /\ \/ domain \in Unsettled \/ document.shape = "null"
       \/ Issues(domain, document) = {}
    /\ domain = "calendar-targets" /\ document.shape # "null" => Uncovered(document) = {}

ConfigurationInv ==
  /\ ConfigurationTypeOK /\ seed.doc \in Document(domain)
  /\ SavedInv

LEMMA PutTyped ==
  ASSUME NEW state \in Presence, NEW flag
  PROVE  Put(state, flag) \in {"active", "inactive"} /\ NewState(flag) \in Presence
           /\ PatchedState(state, flag) \in Presence
BY DEF Put, NewState, PatchedState, Presence

LEMMA UpsertedTyped ==
  ASSUME NEW keys, NEW kinds, NEW rows \in [keys -> kinds], NEW listed,
         Listed(listed, keys, kinds)
  PROVE  Upserted(rows, listed) \in [keys -> kinds]
BY DEF Upserted, Listed

LEMMA NoGroupTyped == NoGroup \in GroupRow
<1>1. (CHOOSE a \in Area : TRUE) \in Area
  BY ConfigurationAssumption
<1> QED
  BY <1>1 DEF NoGroup, GroupRow, Presence

LEMMA ConfigurationInitInv == ConfigurationInit => ConfigurationInv
<1> SUFFICES ASSUME ConfigurationInit PROVE ConfigurationInv
  OBVIOUS
<1>1. domain \in Domain
  BY ConfigurationAssumption DEF ConfigurationInit
<1>2. seed.doc \in Document(domain) /\ document \in Document(domain)
  BY <1>1, ConfigurationAssumption, DocumentFacts DEF ConfigurationInit
<1>3. group \in [Group -> GroupRow]
  BY NoGroupTyped DEF ConfigurationInit
<1> QED
  BY <1>1, <1>2, <1>3 DEF ConfigurationInit, ConfigurationInv, ConfigurationTypeOK, SavedInv, Presence

LEMMA AdministerDocumentStep ==
  ASSUME ConfigurationInv, server = "up", NEW doc \in Documents[domain], AdministerDocument(doc)
  PROVE  ConfigurationInv'
<1>1. domain \in Domain /\ doc \in Document(domain)
  BY ConfigurationAssumption DEF ConfigurationInv, ConfigurationTypeOK
<1>2. /\ document' = Value(domain, doc) /\ author' = "administrator"
      /\ UNCHANGED <<domain, attorney, group, type, seed, server>>
      /\ Issues(domain, doc) = {} /\ Strict(domain, Value(domain, doc))
      /\ Unregistered(domain, Value(domain, doc)) = {}
  BY DEF AdministerDocument, AcceptsHere, Accepts, Store, catalog
<1>3. ConfigurationTypeOK'
  BY <1>1, <1>2, ValueTyped DEF ConfigurationInv, ConfigurationTypeOK
<1>4. Value(domain, document') = document'
  BY <1>1, <1>2, ReadTwice
<1>5. domain \in Unsettled \/ document'.shape = "null" \/ Issues(domain, document') = {}
  BY <1>1, <1>2, CleanRead
<1>6. domain = "calendar-targets" => Uncovered(document') = {}
  BY <1>2 DEF Strict, StrictTargets
<1>7. SavedInv'
  BY <1>2, <1>4, <1>5, <1>6 DEF SavedInv, Uncovered, Enabled, Bound
<1> QED
  BY <1>2, <1>3, <1>7 DEF ConfigurationInv

LEMMA CatalogStep ==
  ASSUME ConfigurationInv, AdministerCatalog
  PROVE  ConfigurationInv'
<1> DEFINE Rows == /\ attorney' \in [Attorney -> Presence] /\ group' \in [Group -> GroupRow]
                   /\ type' \in [Type -> Presence]
           Rest == UNCHANGED <<domain, document, author, seed, server>>
<1> USE DEF ConfigurationInv, ConfigurationTypeOK
<1>1. ASSUME NEW a \in Attorney, NEW flag, AdministerAttorney(a, flag) PROVE Rows /\ Rest
  BY <1>1, PutTyped DEF AdministerAttorney, Presence
<1>2. ASSUME NEW t \in Type, NEW flag, AdministerType(t, flag) PROVE Rows /\ Rest
  BY <1>2, PutTyped DEF AdministerType, Presence
<1>3. ASSUME NEW g \in Group, NEW row \in GroupRow, SetGroup(g, row) PROVE Rows /\ Rest
  BY <1>3 DEF SetGroup
<1>4. ASSUME NEW g \in Group, NEW area \in Area, NEW members \in Memberships, NEW flag,
             CreateGroup(g, area, members, flag)
      PROVE  Rows /\ Rest
  <2>1. [state |-> NewState(flag), area |-> area, members |-> members] \in GroupRow
    BY ConfigurationAssumption DEF NewState, GroupRow, Presence
  <2> QED
    BY <1>3, <1>4, <2>1 DEF CreateGroup
<1>5. ASSUME NEW g \in Group, NEW area \in Area, NEW flag, UpdateGroup(g, area, flag)
      PROVE  Rows /\ Rest
  <2> DEFINE row == [group[g] EXCEPT !.state = PatchedState(@, flag), !.area = area]
  <2>1. row \in GroupRow
    BY PutTyped DEF GroupRow
  <2>2. SetGroup(g, row)
    BY <1>5 DEF UpdateGroup
  <2> QED
    BY <1>3, <2>1, <2>2
<1>6. ASSUME NEW g \in Group, NEW members \in Memberships, SetMembers(g, members)
      PROVE  Rows /\ Rest
  <2> DEFINE row == [group[g] EXCEPT !.members = members]
  <2>1. row \in GroupRow
    BY ConfigurationAssumption DEF GroupRow
  <2>2. SetGroup(g, row)
    BY <1>6 DEF SetMembers
  <2> QED
    BY <1>3, <2>1, <2>2
<1>7. Rows /\ Rest
  BY <1>1, <1>2, <1>4, <1>5, <1>6 DEF AdministerCatalog
<1> QED
  BY <1>7 DEF SavedInv

LEMMA ImportStep ==
  ASSUME ConfigurationInv, Import, server' \in {"new", "down", "up"}
  PROVE  ConfigurationInv'
<1> USE DEF ConfigurationInv, ConfigurationTypeOK
<1>1. /\ attorney' \in [Attorney -> Presence] /\ group' \in [Group -> GroupRow]
      /\ type' \in [Type -> Presence]
  BY UpsertedTyped, ConfigurationAssumption DEF Import
<1>2. UNCHANGED <<domain, seed>>
  BY DEF Import
<1>3. CASE SeedHolds
  <2>1. document' = seed.doc /\ author' = "seed"
    BY <1>3 DEF Import
  <2> QED
    BY <1>1, <1>2, <2>1 DEF SavedInv
<1>4. CASE ~SeedHolds
  <2>1. UNCHANGED <<document, author>>
    BY <1>4 DEF Import
  <2> QED
    BY <1>1, <1>2, <2>1 DEF SavedInv
<1> QED
  BY <1>3, <1>4

LEMMA ConfigurationStep ==
  ConfigurationInv /\ [ConfigurationNext]_configurationVars => ConfigurationInv'
<1> SUFFICES ASSUME ConfigurationInv, [ConfigurationNext]_configurationVars
             PROVE  ConfigurationInv'
  OBVIOUS
<1>1. CASE Administer
  BY <1>1, AdministerDocumentStep, CatalogStep DEF Administer
<1>2. CASE Boot
  <2>1. CASE BootImporting
    <3>1. Import /\ server' \in {"new", "down", "up"}
      BY <2>1 DEF BootImporting
    <3> QED
      BY <3>1, ImportStep
  <2>2. CASE BootSkipping
    BY <2>2 DEF BootSkipping, ConfigurationInv, ConfigurationTypeOK, SavedInv, catalog
  <2> QED
    BY <1>2, <2>1, <2>2 DEF Boot
<1>3. CASE Stop
  BY <1>3 DEF Stop, ConfigurationInv, ConfigurationTypeOK, SavedInv, catalog
<1>4. CASE SeedByHand
  <2>1. Import /\ server' \in {"new", "down", "up"}
    BY <1>4 DEF SeedByHand, ConfigurationInv, ConfigurationTypeOK
  <2> QED
    BY <2>1, ImportStep
<1>5. CASE UNCHANGED configurationVars
  BY <1>5 DEF configurationVars, ConfigurationInv, ConfigurationTypeOK, SavedInv, catalog
<1> QED
  BY <1>1, <1>2, <1>3, <1>4, <1>5 DEF ConfigurationNext

LEMMA ConfigurationInvariant == ConfigurationSpec => []ConfigurationInv
BY ConfigurationInitInv, ConfigurationStep, PTL DEF ConfigurationSpec

(* The catalog's rows and the followed document keep their shapes.         *)
THEOREM ConfigurationTypeCorrect == ConfigurationSpec => []ConfigurationTypeOK
<1>1. ConfigurationInv => ConfigurationTypeOK
  BY DEF ConfigurationInv
<1> QED
  BY <1>1, ConfigurationInvariant, PTL

(* What an administrator saved is what every consumer reads, to the field, *)
(* in every domain.                                                        *)
THEOREM SavedIsAlwaysRead == ConfigurationSpec => []SavedIsRead
<1>1. ConfigurationInv => SavedIsRead
  BY DEF ConfigurationInv, SavedInv, SavedIsRead
<1> QED
  BY <1>1, ConfigurationInvariant, PTL

(* A boot refuses a saved document only for what the catalog has become,   *)
(* in every domain but two.                                                *)
THEOREM RefusedOnlyForCause == ConfigurationSpec => []RefusedForCause
<1>1. ConfigurationInv => RefusedForCause
  <2> SUFFICES ASSUME ConfigurationInv, author = "administrator", ~StoredPasses,
                      domain \notin Unsettled,
                      Named(domain, document, "attorney") \subseteq Active(attorney),
                      Named(domain, document, "type") \subseteq Active(type),
                      Named(domain, document, "group") \subseteq SoundGroups
               PROVE  FALSE
    BY DEF RefusedForCause, Unsettled
  <2>1. document.shape # "null" /\ ~Accepts(domain, document)
    BY DEF StoredPasses
  <2>2. /\ Value(domain, document) = document
        /\ Issues(domain, document) = {}
        /\ domain = "calendar-targets" => Uncovered(document) = {}
    BY <2>1 DEF ConfigurationInv, SavedInv
  <2>3. ~Strict(domain, document)
    BY <2>1, <2>2 DEF Accepts
  <2> QED
    BY <2>2, <2>3 DEF Strict, StrictTargets, StrictCalcom, StrictWindow
<1> QED
  BY <1>1, ConfigurationInvariant, PTL

-----------------------------------------------------------------------------
LEMMA TargetsNamed ==
  ASSUME NEW value
  PROVE  /\ Bound(value) \cup Enabled(value) \subseteq Named("calendar-targets", value, "attorney")
         /\ value.given.routingGroupCalendars.refs
              \subseteq Named("calendar-targets", value, "group")
<1> DEFINE d == "calendar-targets"
<1>1. /\ {"attorneyCalendars", "schedulableAttorneys", "routingGroupCalendars"} \subseteq FieldsOf(d)
      /\ Sheet(d)["attorneyCalendars"].names = "attorney"
      /\ Sheet(d)["schedulableAttorneys"].names = "attorney"
      /\ Sheet(d)["routingGroupCalendars"].names = "group"
  BY DEF FieldsOf, Sheet, CalendarTargets, Naming, Refs, Kind
<1> QED
  BY <1>1 DEF Named, Bound, Enabled

(* When readiness says an organization can schedule, every enabled         *)
(* attorney is reached, some request is answered, and none reaches an      *)
(* attorney who is not active.                                             *)
THEOREM ReadyIsRoutable == ConfigurationSpec => []ReadyMeansRoutable
<1>1. ConfigurationInv => ReadyMeansRoutable
  <2> SUFFICES ASSUME ConfigurationTypeOK, Ready
               PROVE  /\ \A a \in Enabled(Targets) :
                           attorney[a] = "active" /\ Route(a, Nobody) = Reaches({a})
                      /\ \E r \in Requests : Route(r[1], r[2]).resolved
                      /\ \A r \in Requests : Route(r[1], r[2]).attorneys \subseteq Active(attorney)
    BY DEF ConfigurationInv, ReadyMeansRoutable
  <2>1. /\ Bound(Targets) \cup Enabled(Targets) \subseteq Active(attorney)
        /\ Targets.given.routingGroupCalendars.refs \subseteq SoundGroups
    BY TargetsNamed DEF Ready, StrictTargets
  <2>2. /\ Active(attorney) \subseteq Attorney /\ Nobody \notin Attorney \cup Area
        /\ \A a \in Active(attorney) : attorney[a] = "active"
    BY ConfigurationAssumption DEF Active, ConfigurationTypeOK
  <2>3. \A attorneys : Reaches(attorneys).resolved /\ Reaches(attorneys).attorneys = attorneys
    BY DEF Reaches
  <2>4. ~Fails.resolved /\ Fails.attorneys = {}
    BY DEF Fails
  <2>5. \A a \in Attorney : Route(a, Nobody) = AttorneyRoute(a)
    BY <2>2 DEF Route
  <2>6. \A a \in Bound(Targets) : Route(a, Nobody) = Reaches({a})
    BY <2>1, <2>2, <2>5 DEF AttorneyRoute
  <2>7. \A a \in Enabled(Targets) : attorney[a] = "active" /\ Route(a, Nobody) = Reaches({a})
    BY <2>1, <2>2, <2>6 DEF Ready
  <2>8. \E r \in Requests : Route(r[1], r[2]).resolved
    <3>1. CASE DefaultRoute.resolved
      <4>1. Route(Nobody, Nobody) = DefaultRoute /\ <<Nobody, Nobody>> \in Requests
        BY DEF Route, Requests
      <4> QED
        BY <3>1, <4>1
    <3>2. CASE Bound(Targets) # {}
      <4>1. PICK a \in Bound(Targets) : <<a, Nobody>> \in Requests
        BY <2>1, <3>2 DEF Requests
      <4>2. Route(a, Nobody).resolved
        BY <2>3, <2>6
      <4> QED
        BY <4>1, <4>2
    <3>3. ASSUME NEW g \in CoveredGroups, Bound(Targets) = {} PROVE \E r \in Requests : Route(r[1], r[2]).resolved
      <4>1. g \in Group /\ GroupRoute(g).resolved /\ group[g].area \in Area
        BY <3>3 DEF CoveredGroups, ConfigurationTypeOK, GroupRow
      <4>2. g \in Targets.given.routingGroupCalendars.refs
        BY <2>4, <3>3, <4>1 DEF GroupRoute
      <4>3. ActiveGroups(group[g].area) = {g}
        BY <2>1, <4>2 DEF SoundGroups
      <4>4. Serving(group[g].area) = g /\ Cardinality(ActiveGroups(group[g].area)) = 1
        BY <4>3, FS_Singleton DEF Serving
      <4>5. Route(Nobody, group[g].area) = GroupRoute(g)
        BY <2>2, <4>1, <4>4 DEF Route
      <4>6. <<Nobody, group[g].area>> \in Requests
        BY <4>1 DEF Requests
      <4> QED
        BY <4>1, <4>5, <4>6
    <3> QED
      BY <3>1, <3>2, <3>3 DEF Ready, AnyRoute
  <2>9. ASSUME NEW a, NEW area PROVE Route(a, area).attorneys \subseteq Active(attorney)
    <3>1. \A x : AttorneyRoute(x).attorneys \subseteq Active(attorney)
      BY <2>1, <2>3, <2>4 DEF AttorneyRoute
    <3>2. \A g : GroupRoute(g).attorneys \subseteq Active(attorney)
      BY <2>1, <2>3, <2>4 DEF GroupRoute
    <3>3. DefaultRoute.attorneys \subseteq Active(attorney)
      BY <2>3, <2>4 DEF DefaultRoute
    <3> QED
      BY <2>4, <3>1, <3>2, <3>3 DEF Route
  <2> QED
    BY <2>7, <2>8, <2>9
<1> QED
  BY <1>1, ConfigurationInvariant, PTL

(* In bootstrap mode no boot of an organization that is there changes its  *)
(* catalog or its documents.                                               *)
THEOREM LiveEditsAlwaysWin == ConfigurationSpec => LiveEditsWin
<1>1. ASSUME ConfigurationNext, seed.mode = "bootstrap", server = "down", server' # "down"
      PROVE  UNCHANGED <<document, author, catalog>>
  <2>1. Boot
    BY <1>1 DEF ConfigurationNext, Administer, Stop, SeedByHand
  <2>2. BootSkipping
    BY <1>1, <2>1 DEF Boot, BootImporting, BootSkips
  <2> QED
    BY <2>2 DEF BootSkipping
<1> QED
  BY <1>1, PTL DEF ConfigurationSpec, LiveEditsWin

=============================================================================
