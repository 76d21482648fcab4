------------------------------- MODULE Offers --------------------------------
(***************************************************************************)
(* Availability offers: which start times a caller is told of.  A check    *)
(* resolves its calendars and their hours from the configuration, waits    *)
(* for one read of each calendar, generates the slots of each, gives every *)
(* start to one of them, and ranks what the office hours, as they are by   *)
(* then, admit.  The legacy path has its starts from a provider's feed,    *)
(* and a reschedule reads the calendar of the appointment it moves.        *)
(*                                                                         *)
(* Time is a count of units, Day of them to a day, of which midnight of    *)
(* day 0 in UTC is 0; a zone changes its offset from UTC once.  Locations  *)
(* keep the organization's timezone here.  Durations are equal and slots   *)
(* untyped within a check, so those scores are left out.                   *)
(***************************************************************************)
EXTENDS Integers, FiniteSets, FiniteSetsExt, SequencesExt

CONSTANTS
  Attorney,      (* attorney keys, in their order: numbers                  *)
  Day,           (* units in a day                                          *)
  Week,          (* days in a week                                          *)
  Zones,         (* possible timezones: [before, after, change]             *)
  Hours,         (* weekly hours: sets of windows [day, opens, closes]      *)
  Policies,      (* booking-window and scheduling policies, see below       *)
  Routings,      (* calendar-targets and routing groups, see below          *)
  Requests,      (* what is asked for, see below                            *)
  Busy,          (* intervals <<from, to>> a calendar can be busy in        *)
  Feeds,         (* answers of the legacy provider: sequences of starts,    *)
                 (* Nobody for an entry that is not a timestamp             *)
  MaxFeed,       (* MAX_PROVIDER_SLOTS, 3000                                *)
  MaxWindow,     (* MAX_WINDOW_DAYS, 31                                     *)
  Now,           (* nowMs                                                   *)
  Limit,         (* MAX_OFFERED_TO_AGENT, 2                                 *)
  ChangeLimit,   (* bound: changes of calendars and configuration           *)
  Shared,        (* the routing group's own calendar                        *)
  Default,       (* defaultCalendar                                         *)
  Nobody         (* null                                                    *)

(* An attorney's calendar goes by his key. *)
Calendar == Attorney \cup {Shared, Default}

(* before, after: buffers; notice, horizon (days), cutoff (of a move),     *)
(* grid, duration, closed days; own: attorneys' hours, {} for none; first: *)
(* preferred attorneys; days, half: preferred weekdays and time of day.    *)
PolicyFields == {"before", "after", "notice", "horizon", "cutoff", "grid", "duration",
                 "closed", "own", "first", "days", "half"}

Window == {w \in [day : 0 .. Week - 1, opens : 0 .. Day - 1, closes : 0 .. Day - 1] :
             w.opens < w.closes}

ASSUME OffersAssumption ==
  /\ Attorney \subseteq Nat /\ Attorney \cap {Shared, Default, Nobody} = {}
  /\ Day \in Nat \ {0} /\ Week \in Nat \ {0} /\ Limit \in Nat \ {0} /\ Now \in Int
  /\ \A z \in Zones : {z.before, z.after, z.change} \subseteq Int
  /\ \A h \in Hours : h \subseteq Window

ASSUME PoliciesAssumption ==
  \A p \in Policies :
    /\ DOMAIN p = PolicyFields
    /\ {p.before, p.after, p.notice, p.horizon, p.cutoff} \subseteq Nat
    /\ {p.grid, p.duration} \subseteq Nat \ {0}
    /\ p.own \in [Attorney -> SUBSET Window] /\ p.first \in Seq(Attorney)

ASSUME RoutingsAssumption ==
  /\ \A g \in Routings : /\ g.bound \cup g.members \subseteq Attorney
                         /\ g.calendars \subseteq {Shared, Default}
  /\ \A req \in Requests : /\ req.kind \in {"native", "feed", "move"}
                           /\ req.attorney \in Attorney \cup {Nobody}
                           /\ req.days \in Int \X Int
                           /\ req.kind = "move" => req.calendar \in Calendar /\ req.own \in Int
  /\ \A feed \in Feeds : feed \in Seq(Int \cup {Nobody})

VARIABLES
  deployed,   (* the zone, policy and routing of the organization           *)
  offices,    (* the hours of its hours-bearing locations                   *)
  active,     (* the attorneys that are active                              *)
  calendar,   (* [Calendar -> the intervals it is busy in]                  *)
  check,      (* the availability check                                     *)
  changes

vars == <<deployed, offices, active, calendar, check, changes>>

zone    == deployed.zone
policy  == deployed.policy
routing == deployed.routing   (* bound, members, groups, shared, default    *)

-----------------------------------------------------------------------------
(* The wall clock of a zone z. *)
Offset(z, t) == IF t < z.change THEN z.before ELSE z.after
LocalDay(z, t) == (t + Offset(z, t)) \div Day
Minute(z, t) == (t + Offset(z, t)) % Day
Weekday(d) == d % Week

(* Mutant: the offset of the guess is the offset. *)
ZonedToUtcOnce(z, d, m) == (d * Day + m) - Offset(z, d * Day + m)

(* zonedTimeToUtcMs() *)
ZonedToUtc(z, d, m) ==
  LET guess == d * Day + m IN
    guess - Offset(z, guess - Offset(z, guess))

(* localMidnightUtcMs(): at most three rounds *)
Midnight(z, d) ==
  LET next(guess) == d * Day - Offset(z, guess) IN next(next(next(d * Day)))

(* localWindowUtc(), of the days asked for *)
From(z, req) == Midnight(z, req.days[1])
To(z, req) == Midnight(z, req.days[2] + 1)

-----------------------------------------------------------------------------
(* resolveHoursForTarget(): {} is the refusal of absent or ambiguous hours *)
HoursOf(who) ==
  IF who \in Attorney /\ policy.own[who] # {} THEN policy.own[who]
  ELSE IF Cardinality(offices) = 1 THEN CHOOSE h \in offices : TRUE
  ELSE {}

Guarded(p, s, busy) ==
  \E b \in busy : /\ b[1] < s + p.duration + p.after
                  /\ b[2] > s - p.before

(* The days the loop visits, a day at a time from noon of the first. *)
Noon(z, from) == ZonedToUtc(z, LocalDay(z, from), Day \div 2)

DaysVisited(z, from, latest) ==
  {LocalDay(z, Noon(z, from) + k * Day) : k \in 0 .. ((latest + Day - Noon(z, from)) \div Day)}

OnGrid(z, p, d, w) ==
  LET opens == ZonedToUtc(z, d, w.opens) IN
    {opens + k * p.grid : k \in 0 .. ((ZonedToUtc(z, d, w.closes) - p.duration - opens)
                                         \div p.grid)}

StartsOn(z, p, hours, d) ==
  UNION {OnGrid(z, p, d, w) : w \in {v \in hours : v.day = Weekday(d)}}

(* A check is bounded by its window, the notice and the horizon. *)
Earliest(p, from) == Max({from, Now + p.notice})
Latest(p, to) == Min({to, Now + p.horizon * Day})

(* generateCandidateSlots() *)
Generate(z, p, hours, busy, from, to) ==
  LET earliest == Earliest(p, from)
      latest == Latest(p, to)
  IN IF earliest >= latest THEN {}
     ELSE {s \in UNION {StartsOn(z, p, hours, d) : d \in DaysVisited(z, from, latest) \ p.closed} :
             s >= earliest /\ s + p.duration <= latest /\ ~Guarded(p, s, busy)}

(* fitsBusinessHours() *)
FitsBusinessHours(z, p, s, hours) ==
  LET e == s + p.duration IN
    /\ LocalDay(z, s) % Week = LocalDay(z, e) % Week
    /\ \E w \in hours : /\ w.day = Weekday(LocalDay(z, s))
                        /\ w.opens <= Minute(z, s) /\ Minute(z, e) <= w.closes

(* applyBusinessHoursConstraint(): the sole location's hours judge a slot  *)
Within(z, p, s, locations) ==
  Cardinality(locations) = 1 => \A h \in locations : FitsBusinessHours(z, p, s, h)

-----------------------------------------------------------------------------
(* mergeCandidatesBalanced(): one target per start, by fewest so far *)
Given(merged, who) == Cardinality({i \in DOMAIN merged : merged[i].who = who})

(* Mutant: the first of the free attorneys has the start. *)
FirstFree(merged, free) == {r \in free : \A q \in free : r.who = Nobody \/ r.who <= q.who}

Fewest(merged, free) ==
  {r \in free : \A q \in free :
     r.who = q.who \/ Given(merged, r.who) < Given(merged, q.who)
       \/ (Given(merged, r.who) = Given(merged, q.who) /\ r.who < q.who)}

Chronological(S) ==
  [i \in 1 .. Cardinality(S) |-> CHOOSE s \in S : Cardinality({t \in S : t < s}) = i - 1]

(* slots: the starts generated for each target *)
Starts(slots) == UNION {slots[r] : r \in DOMAIN slots}

Free(slots, s) == {r \in DOMAIN slots : s \in slots[r]}

Attributed(slots, merged, s) ==
  LET r == CHOOSE r \in Fewest(merged, Free(slots, s)) : TRUE
  IN [start |-> s, who |-> r.who, calendar |-> r.calendar]

Merge(slots) ==
  LET starts == Chronological(Starts(slots))
      merged[k \in 0 .. Len(starts)] ==
        IF k = 0 THEN <<>>
        ELSE LET sofar == merged[k - 1] IN Append(sofar, Attributed(slots, sofar, starts[k]))
  IN merged[Len(starts)]

-----------------------------------------------------------------------------
(* selectSlots(): the dimensions that tell slots of one check apart.       *)
Preferred(p, m) == {i \in DOMAIN p.first : p.first[i] = m.who}
PreferredDay(z, p, m) == Weekday(LocalDay(z, m.start)) \in p.days
PreferredHalf(z, p, m) ==
  p.half = (IF 2 * Minute(z, m.start) < Day THEN "morning" ELSE "afternoon")

(* Mutant: the preferred attorneys are scored in the reverse of their order*)
PointsReversed(p, m) == IF Preferred(p, m) = {} THEN 0 ELSE 24 + Min(Preferred(p, m) \cup {26})

(* Ranks from the 26th on are worth the same. *)
Points(p, m) == IF Preferred(p, m) = {} THEN 0 ELSE 51 - Min(Preferred(p, m) \cup {26})

Score(z, p, m) ==
  Points(p, m) + (IF PreferredDay(z, p, m) THEN 20 ELSE 0)
    + (IF PreferredHalf(z, p, m) THEN 20 ELSE 0)

Before(z, p, m, n) ==
  \/ Score(z, p, m) > Score(z, p, n)
  \/ Score(z, p, m) = Score(z, p, n) /\ m.start < n.start

Best(z, p, slots) == {m \in slots : Cardinality({n \in slots : Before(z, p, n, m)}) < Limit}

-----------------------------------------------------------------------------
(* resolveSchedulingTarget() and resolveBookingRoute(): {} fails closed *)
Attorneys(who) ==
  IF who \subseteq routing.bound THEN {[who |-> a, calendar |-> a] : a \in who} ELSE {}

AreaServed(req) == req.area => routing.groups = 1

Targets(req) ==
  IF ~AreaServed(req) \/ (req.area /\ req.attorney \notin routing.members \cup {Nobody}) THEN {}
  ELSE IF req.attorney # Nobody THEN Attorneys({req.attorney})
  ELSE IF ~req.area
       THEN {[who |-> Nobody, calendar |-> c] : c \in {Default} \cap routing.calendars}
  ELSE IF Shared \in routing.calendars THEN {[who |-> Nobody, calendar |-> Shared]}
  ELSE Attorneys(routing.members)

(* A request: [kind, attorney, area, days, own, calendar].  "native" and   *)
(* "feed" are the paths of a new appointment.  "move" asks for another time*)
(* for the appointment its row has at "own" in "calendar", attributed to   *)
(* "attorney", or to Nobody; what routing says by then is not asked.       *)
TargetOfRow(req) == [who |-> req.attorney, calendar |-> req.calendar]

TargetsFor(req) ==
  IF req.kind = "move" THEN {TargetOfRow(req)}
  ELSE IF req.kind = "feed" /\ req.area /\ req.attorney = Nobody
          /\ Shared \notin routing.calendars
  THEN {}
  ELSE Targets(req)

(* rescheduleCutoffMinutes *)
InTime(req) == req.kind = "move" => Now + policy.cutoff <= req.own

(* The interval a move takes out of what its calendar is busy in. *)
Appointment(req) == IF req.kind = "move" THEN {<<req.own, req.own + policy.duration>>} ELSE {}

(* requireActiveCatalogKey(), which the legacy path calls *)
KnownActive(req) ==
  req.kind = "feed" => req.attorney \in active \cup {Nobody}

(* validateOfferedSlotsRequest(): the window that may be asked for *)
ValidWindow(req) == req.days[2] - req.days[1] \in 0 .. MaxWindow - 1

Idle == [pc |-> "idle"]

Init ==
  /\ deployed \in [zone : Zones, policy : Policies, routing : Routings]
  /\ offices \in {{h} : h \in Hours}
  /\ active = Attorney
  /\ calendar \in [Calendar -> {{b} : b \in Busy}]
  /\ check = Idle
  /\ changes = 0

(* The target and the hours are resolved before the first read.            *)
Ask(req) ==
  /\ check.pc = "idle"
  /\ ValidWindow(req)
  /\ KnownActive(req)
  /\ InTime(req)
  /\ LET targets == TargetsFor(req) IN
       /\ targets # {}
       /\ req.kind # "feed" => \A r \in targets : HoursOf(r.who) # {}
       /\ check' = [pc |-> "reading", req |-> req, targets |-> targets,
                    hours |-> [r \in targets |-> HoursOf(r.who)],
                    seen |-> [r \in targets |-> Nobody], offices |-> {}, offer |-> {}]
  /\ UNCHANGED <<deployed, offices, active, calendar, changes>>

Overlapping(c, req) == {b \in calendar[c] : b[1] < To(zone, req) /\ b[2] > From(zone, req)}

(* parseCalcomSlots(): a start said twice counts once; a malformed or an   *)
(* oversized answer is no answer.                                          *)
Believable(feed) ==
  Nobody \notin ToSet(feed) /\ Cardinality(ToSet(feed)) <= MaxFeed

(* fetchAvailability() of the provider behind a feed *)
Fetched == {ToSet(feed) : feed \in {f \in Feeds : Believable(f)}}

(* fetchBusyIntervals(), one of each target *)
Read(r) ==
  /\ check.pc = "reading" /\ check.seen[r] = Nobody
  /\ \E seen \in IF check.req.kind = "feed" THEN Fetched
                 ELSE {Overlapping(r.calendar, check.req) \ Appointment(check.req)} :
       check' = [check EXCEPT !.seen[r] = seen]
  /\ UNCHANGED <<deployed, offices, active, calendar, changes>>

(* Any read that fails fails the check. *)
ReadFails ==
  /\ check.pc = "reading"
  /\ \E r \in check.targets : check.seen[r] = Nobody
  /\ check' = Idle
  /\ UNCHANGED <<deployed, offices, active, calendar, changes>>

(* offerSlots(): the window asked for is a filter of its own *)
InWindow(z, starts, req) == {s \in starts : s >= From(z, req) /\ s < To(z, req)}

SlotsOf(z, p, req, hours, seen) ==
  IF req.kind = "feed" THEN InWindow(z, seen, req)
  ELSE Generate(z, p, hours, seen, From(z, req), To(z, req))
         \ (IF req.kind = "move" THEN {req.own} ELSE {})

SlotsSeen(z, p, chk) ==
  [r \in chk.targets |-> SlotsOf(z, p, chk.req, chk.hours[r], chk.seen[r])]

Candidates == ToSet(Merge(SlotsSeen(zone, policy, check)))

(* selectOfferedSlots(), over the locations as they are now *)
Answer ==
  /\ check.pc = "reading" /\ \A r \in check.targets : check.seen[r] # Nobody
  /\ check' = [check EXCEPT
       !.pc = "answered", !.offices = offices,
       !.offer = Best(zone, policy, {m \in Candidates : Within(zone, policy, m.start, offices)})]
  /\ UNCHANGED <<deployed, offices, active, calendar, changes>>

Forget ==
  /\ check.pc = "answered"
  /\ check' = Idle
  /\ UNCHANGED <<deployed, offices, active, calendar, changes>>

-----------------------------------------------------------------------------
Change == changes < ChangeLimit /\ changes' = changes + 1

Fill(c, b) ==
  /\ Change
  /\ calendar' = [calendar EXCEPT ![c] = calendar[c] \cup {b}]
  /\ UNCHANGED <<deployed, offices, active, check>>

(* Locations get other hours, or lose them. *)
Rehours(locations) ==
  /\ Change
  /\ offices' = locations
  /\ UNCHANGED <<deployed, active, calendar, check>>

Deactivate(a) ==
  /\ Change
  /\ active' = active \ {a}
  /\ UNCHANGED <<deployed, offices, calendar, check>>

Next ==
  \/ \E req \in Requests : Ask(req)
  \/ check.pc = "reading" /\ \E r \in check.targets : Read(r)
  \/ ReadFails \/ Answer \/ Forget
  \/ \E c \in Calendar, b \in Busy : Fill(c, b)
  \/ \E locations \in SUBSET Hours : Rehours(locations)
  \/ \E a \in active : Deactivate(a)

Spec == Init /\ [][Next]_vars

-----------------------------------------------------------------------------
(* "A slot qualifies iff": the conditions of generateCandidateSlots(), said*)
(* of the wall clock instead of computed.                                  *)
Opening(z, d, w) ==
  Min({t \in (d - 1) * Day .. (d + 2) * Day : LocalDay(z, t) = d /\ Minute(z, t) >= w.opens})

Qualifies(z, p, s, hours, busy, req) ==
  LET d == LocalDay(z, s)  e == s + p.duration IN
    /\ \E w \in hours :
         /\ w.day = Weekday(d)
         /\ w.opens <= Minute(z, s) /\ LocalDay(z, e) = d /\ Minute(z, e) <= w.closes
         /\ (s - Opening(z, d, w)) % p.grid = 0
    /\ d \notin p.closed
    /\ s >= Now + p.notice /\ e <= Now + p.horizon * Day
    /\ d >= req.days[1] /\ d <= req.days[2]
    /\ ~\E b \in busy : b[1] < e + p.after /\ b[2] > s - p.before

(* The clock shows a window's edges once on that day. *)
Shown(z, d, m) ==
  {t \in (d - 1) * Day .. (d + 2) * Day : LocalDay(z, t) = d /\ Minute(z, t) = m}

Clear(z, d, hours) ==
  \A w \in hours : Cardinality(Shown(z, d, w.opens)) = 1 /\ Cardinality(Shown(z, d, w.closes)) = 1

Answered(kinds) == check.pc = "answered" /\ check.req.kind \in kinds

Eligible(r, s) ==
  /\ Qualifies(zone, policy, s, check.hours[r], check.seen[r], check.req)
  /\ Within(zone, policy, s, check.offices)
  /\ check.req.kind = "move" => s # check.req.own

(* The clock is not changed near midnight: a local day is one interval and *)
(* shows its midnight, and no window's edge is resolved to another day.    *)
ChangesByDay(z) ==
  LET d == LocalDay(z, z.change)
      shift == z.after - z.before
  IN /\ {z.before, z.after} \subseteq -Day .. Day
     /\ z.before # z.after =>
          \A o \in {z.before, z.after}, x \in {shift, -shift} :
            z.change + o + x \in d * Day .. (d + 1) * Day

(* Whatever the zone does by day, what is offered is a documented slot of  *)
(* the calendar it will be booked in, and the answer is "no availability"  *)
(* only if there is none: for windows whose edges the clock shows once.    *)
OffersAreDocumented ==
  Answered({"native", "move"}) =>
    /\ \A m \in check.offer : \E r \in check.targets :
         /\ r.calendar = m.calendar /\ r.who = m.who
         /\ Clear(zone, LocalDay(zone, m.start), check.hours[r]) => Eligible(r, m.start)
    /\ check.offer = {} =>
         \A r \in check.targets : \A s \in From(zone, check.req) .. To(zone, check.req) :
           Eligible(r, s) => ~Clear(zone, LocalDay(zone, s), check.hours[r])

(* "Deterministic balanced attribution": of two attorneys of a pool, one   *)
(* has two starts more than the other only if the other was not free at    *)
(* the last of them.                                                       *)
EvenSpread ==
  Answered({"native"}) =>
    LET slots == SlotsSeen(zone, policy, check)
        merged == Merge(slots)
    IN \A q, r \in check.targets :
         Given(merged, r.who) > Given(merged, q.who) + 1 =>
           Max({m.start : m \in {n \in ToSet(merged) : n.who = r.who}}) \notin slots[q]

(* "Policies compose additively; they never compete": no slot left out is  *)
(* earlier than an offered one and as good to every preference.            *)
NoBetterSlotLeftOut ==
  Answered({"native", "feed", "move"}) =>
    \A m \in check.offer,
       n \in {c \in Candidates : Within(zone, policy, c.start, check.offices)} \ check.offer :
      ~ /\ n.start < m.start
        /\ \A i \in Preferred(policy, m) : \E j \in Preferred(policy, n) : j <= i
        /\ PreferredDay(zone, policy, m) => PreferredDay(zone, policy, n)
        /\ PreferredHalf(zone, policy, m) => PreferredHalf(zone, policy, n)

=============================================================================
