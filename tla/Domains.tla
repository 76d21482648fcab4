------------------------------ MODULE Domains -------------------------------
(***************************************************************************)
(* The configuration domains: what a consumer reads of a stored document,  *)
(* what the producers' gate finds wrong with it, and the canonical form it *)
(* persists.                                                               *)
(*                                                                         *)
(* A document is a sheet of fields.  A field's value is abstracted to what *)
(* its normalizer tells apart, and to the catalog keys it names.           *)
(***************************************************************************)
EXTENDS FiniteSets

CONSTANTS
  Key,           (* the keys documents name: attorneys, groups, types, providers *)
  Registered     (* the provider, integration and workflow keys of the deployment *)

ASSUME DomainsAssumption == Registered \subseteq Key

(* absent: the field is missing; null: it is null; bad: the wrong shape or *)
(* out of range; part: a list or map with entries of both sorts, refs the  *)
(* usable ones; good: a usable value; default: the value that stands in    *)
(* for a missing one; on and off: a boolean.                               *)
FieldValue == [is   : {"absent", "null", "bad", "part", "good", "default", "on", "off"},
               refs : SUBSET Key]

Plain(is) == [is |-> is, refs |-> {}]
Good(refs) == [is |-> "good", refs |-> refs]

-----------------------------------------------------------------------------
(* A kind of field: the values it takes over, the values it reports no     *)
(* issue for, what it falls back on, and what its keys name.               *)
Kind(takes, passes, falls) ==
  [takes |-> takes, passes |-> passes, falls |-> falls, names |-> "nothing"]

Naming(kind, what) == [kind EXCEPT !.names = what]

Given == {"absent", "good"}

Flag       == Kind({"on", "off"}, {"absent", "on", "off"}, Plain("off"))
NeededFlag == Kind({"on", "off"}, {"on", "off"}, Plain("off"))
Choice     == Kind({"good"}, Given \cup {"null"}, Plain("null"))
Number     == Kind({"good", "default"}, Given \cup {"default"}, Plain("default"))
Preference == Kind({"good"}, Given, Plain("absent"))
Refs       == Kind({"good", "part"}, Given, Good({}))
List       == Kind({"good", "part", "default"}, Given \cup {"default"}, Plain("default"))
Text       == Kind({"good"}, {"good"}, Plain("null"))
Selected   == Kind({"good", "default"}, {"good", "default"}, Plain("default"))
Quiet      == Kind({"good"}, Given \cup {"null", "bad"}, Plain("absent"))
(* Mutant: no recipient is an issue when it is written out. *)
RecipientNamed == Kind({"good"}, Given, Plain("null"))

Recipient  == Kind({"good"}, Given \cup {"null"}, Plain("null"))
Override   == Kind({"good", "default"}, Given \cup {"default"}, Plain("default"))
Logo       == Kind({"good"}, Given, Plain("null"))
Office     == Kind({"good", "part"}, Given \cup {"part"}, Good({}))

-----------------------------------------------------------------------------
(* The sheets, one domain each. *)
SchedulingPolicy ==
  [preferredAttorneys |-> Preference, preferredDaysOfWeek |-> Preference,
   preferredTimeOfDay |-> Preference, preferredDurationMinutes |-> Preference,
   preferredConsultationTypes |-> Preference]

(* A key by itself: the document has no fields. *)
DefaultConsultationType == [f \in {} |-> Text]

CalcomAvailability ==
  [eventTypeId            |-> Choice,
   attorneyEventTypes     |-> Naming(Refs, "attorney"),
   routingGroupEventTypes |-> Naming(Refs, "group"),
   durationMinutes        |-> Number]

CalendarTargets ==
  [provider               |-> Choice,
   defaultCalendar        |-> Choice,
   attorneyCalendars      |-> Naming(Refs, "attorney"),
   routingGroupCalendars  |-> Naming(Refs, "group"),
   appointmentDurations   |-> Naming(Refs, "type"),
   defaultDurationMinutes |-> Number,
   schedulableAttorneys   |-> Naming(Refs, "attorney"),
   requireFullCoverage    |-> Flag]

(* The five further integer fields of the code are of the same kind. *)
BookingWindow ==
  [minimumNoticeMinutes |-> Number, horizonDays |-> Number,
   exceptions |-> Refs, attorneyHours |-> Naming(Refs, "attorney")]

SchedulingPrompt == [timeZoneDisplayName |-> Text, closingMessage |-> Text]

NotificationBranding ==
  [senderName |-> Override, accentColor |-> Override, logoUrl |-> Logo,
   footerText |-> Override, office |-> Office]

Notifications == [enabled |-> NeededFlag]

GraphInvitations == [enabled |-> NeededFlag]

DataRetention ==
  [enabled |-> Flag, cancelledExpiredHours |-> Number, terminalDays |-> Number]

OperationalAlerts == [enabled |-> NeededFlag, recipient |-> Recipient]

AppointmentReminders == [enabled |-> Flag, offsets |-> List]

(* Identity, conversation and notification provider: one shape. *)
ProviderSelection == [provider |-> Naming(Selected, "registry"), agentId |-> Quiet]

IntegrationProviders == [providers |-> Naming(Refs, "registry")]

Workflows == [enabledTypes |-> Naming(Refs, "registry")]

Domain ==
  {"scheduling-policy", "default-consultation-type", "calcom-availability",
   "calendar-targets", "booking-window", "scheduling-prompt",
   "notification-branding", "notifications", "graph-invitations",
   "data-retention", "operational-alerts", "appointment-reminders",
   "identity-provider", "conversation-provider", "notification-provider",
   "integration-providers", "workflows"}

Sheet(d) ==
  CASE d = "scheduling-policy"         -> SchedulingPolicy
    [] d = "default-consultation-type" -> DefaultConsultationType
    [] d = "calcom-availability"       -> CalcomAvailability
    [] d = "calendar-targets"          -> CalendarTargets
    [] d = "booking-window"            -> BookingWindow
    [] d = "scheduling-prompt"         -> SchedulingPrompt
    [] d = "notification-branding"     -> NotificationBranding
    [] d = "notifications"             -> Notifications
    [] d = "graph-invitations"         -> GraphInvitations
    [] d = "data-retention"            -> DataRetention
    [] d = "operational-alerts"        -> OperationalAlerts
    [] d = "appointment-reminders"     -> AppointmentReminders
    [] d = "integration-providers"     -> IntegrationProviders
    [] d = "workflows"                 -> Workflows
    [] OTHER                           -> ProviderSelection

FieldsOf(d) == DOMAIN Sheet(d)

(* none: nothing is stored; null: the document null; junk: not the shape   *)
(* the domain asks for; stray: an object with a field the domain lacks.    *)
Document(d) == [shape : {"none", "null", "junk", "object"}, stray : BOOLEAN,
                given : [FieldsOf(d) -> FieldValue]]

Blank(d) == [f \in FieldsOf(d) |-> Plain("absent")]
None(d) == [shape |-> "none", stray |-> FALSE, given |-> Blank(d)]
Null(d) == [None(d) EXCEPT !.shape = "null"]
Sheeted(d, given) == [shape |-> "object", stray |-> FALSE, given |-> given]

-----------------------------------------------------------------------------
(* normalize(), the value *)
Cleaned(v) == IF v.is = "part" THEN Good(v.refs) ELSE v

Taken(kind, v) == IF v.is \in kind.takes THEN Cleaned(v) ELSE kind.falls

AllTaken(d, doc) == [f \in FieldsOf(d) |-> Taken(Sheet(d)[f], doc.given[f])]

Faulty(d, doc) == {f \in FieldsOf(d) : doc.given[f].is \notin Sheet(d)[f].passes}

(* A switch that is on only in a document with nothing wrong. *)
Guarded(given, fine) ==
  IF fine THEN given ELSE [given EXCEPT !.enabled = Plain("off")]

(* Retention looks at what was found wrong before the two windows are read. *)
RetentionValue(doc) ==
  LET d == "data-retention" IN
  Sheeted(d, Guarded(AllTaken(d, doc), ~doc.stray /\ "enabled" \notin Faulty(d, doc)))

AlertsIssues(doc) ==
  IF doc.given.enabled.is = "on" /\ doc.given.recipient.is # "good" THEN {"recipient"} ELSE {}

AlertsValue(doc) ==
  LET d == "operational-alerts" IN
  Sheeted(d, Guarded(AllTaken(d, doc),
                     /\ ~doc.stray /\ Faulty(d, doc) = {} /\ AlertsIssues(doc) = {}))

(* A policy with no valid preference is no policy. *)
PolicyValue(doc) ==
  LET d == "scheduling-policy"
      policy == AllTaken(d, doc)
  IN IF policy = Blank(d) THEN Null(d) ELSE Sheeted(d, policy)

(* What a consumer has when nothing, null or junk is stored. *)
Defaults(d) ==
  IF d \in {"scheduling-policy", "default-consultation-type"}
  THEN Null(d)
  ELSE Sheeted(d, [f \in FieldsOf(d) |-> Sheet(d)[f].falls])

(* The lenient read: every consumer's value. *)
Value(d, doc) ==
  IF doc.shape # "object" THEN Defaults(d)
  ELSE CASE d = "scheduling-policy"  -> PolicyValue(doc)
         [] d = "data-retention"     -> RetentionValue(doc)
         [] d = "operational-alerts" -> AlertsValue(doc)
         [] OTHER                    -> Sheeted(d, AllTaken(d, doc))

(* normalize(), the issues *)
Issues(d, doc) ==
  CASE doc.shape \in {"none", "null"} -> {}
    [] doc.shape = "junk"             -> {"the document"}
    [] OTHER -> Faulty(d, doc)
                  \cup (IF doc.stray THEN {"unknown field"} ELSE {})
                  \cup (IF d = "operational-alerts" THEN AlertsIssues(doc) ELSE {})

(* The keys of one sort that a value names. *)
Named(d, value, what) ==
  UNION {value.given[f].refs : f \in {x \in FieldsOf(d) : Sheet(d)[x].names = what}}

(* The registries are asked only by a producer that supplies them. *)
Unregistered(d, value) == Named(d, value, "registry") \ Registered

=============================================================================
