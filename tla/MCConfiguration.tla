-------------------------- MODULE MCConfiguration ---------------------------
(* Two attorneys, two groups of two areas, a consultation type, a registered *)
(* and an unregistered provider.  Submitted are documents one field away     *)
(* from a blank, a partial and a complete one.                               *)
EXTENDS Configuration

CONSTANTS a1, a2, g1, g2, t1, p1, p2, family

MCKey == {a1, a2, g1, g2, t1, p1, p2}

Refs1(what) ==
  CASE what = "attorney" -> {{a1}, {a1, a2}}
    [] what = "group"    -> {{g1}}
    [] what = "type"     -> {{t1}}
    [] what = "registry" -> {{p1}, {p1, p2}}
    [] OTHER             -> {{}}

(* What a field of some kind may hold. *)
Holds(kind) ==
  {Plain(is) : is \in {"absent", "null", "bad"} \cup (kind.takes \ {"good", "part"})}
    \cup {[is |-> is, refs |-> refs] :
            is \in kind.takes \cap {"good", "part"}, refs \in Refs1(kind.names)}

Complete(d) ==
  [f \in FieldsOf(d) |->
     LET kind == Sheet(d)[f] IN
     IF "on" \in kind.takes THEN Plain("on")
     ELSE Good(CASE kind.names = "attorney" -> {a1, a2} [] kind.names = "group" -> {g1}
                 [] kind.names = "type" -> {t1} [] kind.names = "registry" -> {p1}
                 [] OTHER -> {})]

(* Two attorneys enabled and one bound. *)
Partial(d) ==
  IF d # "calendar-targets" THEN Complete(d)
  ELSE [Complete(d) EXCEPT !.attorneyCalendars = Good({a1}),
          !.requireFullCoverage = Plain("off"), !.routingGroupCalendars = Plain("absent"),
          !.defaultCalendar = Plain("null")]

OneAway(d, given) ==
  {given} \cup UNION {{[given EXCEPT ![f] = v] : v \in Holds(Sheet(d)[f])} : f \in FieldsOf(d)}

MCDocuments ==
  [d \in Domain |->
     {Sheeted(d, given) : given \in OneAway(d, Blank(d)) \cup OneAway(d, Partial(d))
                                       \cup OneAway(d, Complete(d))}
       \cup {Null(d), [Null(d) EXCEPT !.shape = "junk"],
             [Sheeted(d, Complete(d)) EXCEPT !.stray = TRUE]}]

MCSeeds ==
  [d \in Domain |-> {Sheeted(d, Complete(d)), [Sheeted(d, Complete(d)) EXCEPT !.stray = TRUE]}]

MCSeedAttorneys == [a \in {a1} |-> "active"]
MCSeedGroups == [g \in {g1} |-> [state |-> "active", area |-> family, members |-> {a1}]]
MCSeedTypes == [t \in {t1} |-> "active"]
MCMemberships == {{a1}, {a1, a2}}
=============================================================================
