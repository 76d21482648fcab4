------------------------------ MODULE MCOffers -------------------------------
(* Days of eight units, two in a week; windows that fill half a day or     *)
(* most of it; zones west and east of UTC that gain or lose two units in   *)
(* the middle of a window, before it, or never.                            *)
EXTENDS Offers

CONSTANTS nobody, shared, deflt

Zone(before, after, change) == [before |-> before, after |-> after, change |-> change]

MCZones == {Zone(-3, -3, 0), Zone(-3, -1, 14), Zone(1, 3, 11), Zone(-1, -3, 13)}

(* None changes its clock at midnight, as the theorem on offers assumes.   *)
ASSUME ZonesChangeByDay == \A z \in MCZones : ChangesByDay(z)

Open(day, opens, closes) == [day |-> day, opens |-> opens, closes |-> closes]

Daily == {Open(0, 1, 7), Open(1, 1, 7)}
Odd == {Open(1, 2, 5)}
MCHours == {Daily, Odd}

Plain == [before |-> 0, after |-> 0, notice |-> 0, horizon |-> 4, cutoff |-> 4, grid |-> 1,
          duration |-> 1, closed |-> {}, own |-> [a \in Attorney |-> {}],
          first |-> <<>>, days |-> {}, half |-> "any"]

Choosy == [Plain EXCEPT !.before = 1, !.notice = 3, !.grid = 2, !.duration = 2,
                        !.first = <<2, 1>>, !.half = "afternoon", !.days = {1},
                        !.own = [a \in Attorney |-> IF a = 1 THEN Odd ELSE {}]]
Shut == [Plain EXCEPT !.after = 1, !.horizon = 2, !.cutoff = 3, !.grid = 3, !.closed = {1}, !.duration = 2,
                      !.first = <<2>>]

MCPolicies == {Plain, Choosy, Shut}

Routes(bound, calendars) ==
  [bound |-> bound, members |-> Attorney, groups |-> 1, calendars |-> calendars]

MCRoutings == {Routes(Attorney, {}), Routes({1}, {Shared, Default})}

MCBusy == {<<2, 6>>, <<11, 13>>}

Request(kind, attorney, area) ==
  [kind |-> kind, attorney |-> attorney, area |-> area, days |-> <<0, 1>>,
   own |-> Nobody, calendar |-> Nobody]

(* The second appointment is at the cutoff of one policy and past others'. *)
Move(attorney, cal, start) ==
  [Request("move", attorney, FALSE) EXCEPT !.own = start, !.calendar = cal]

For(days, req) == [req EXCEPT !.days = days]

MCRequests ==
  {Request("native", Nobody, TRUE), Request("native", 1, TRUE),
   Request("native", Nobody, FALSE), Request("feed", Nobody, TRUE),
   Move(1, 1, 11), Move(Nobody, Shared, 4),
   For(<<1, 0>>, Request("native", Nobody, FALSE)),
   For(<<0, 3>>, Request("feed", Nobody, TRUE))}

MCFeeds == {<<4, 5, 5, 6, 9, 14>>, <<5, Nobody, 9>>, <<4, 5, 6, 7, 9, 10, 14>>, <<>>}
=============================================================================
