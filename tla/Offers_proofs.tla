---------------------------- MODULE Offers_proofs ----------------------------
(***************************************************************************)
(* Proofs about availability offers, for any zones, hours, policies,       *)
(* routings, requests and calendars.                                       *)
(***************************************************************************)
EXTENDS Offers, FiniteSetTheorems, WellFoundedInduction, TLAPS

-----------------------------------------------------------------------------
(* A day has as many minutes as it has. *)
LEMMA DivMod ==
  ASSUME NEW x \in Int, NEW n \in Nat \ {0}
  PROVE  /\ x \div n \in Int /\ x % n \in 0 .. n - 1
         /\ x = ((x \div n) * n) + (x % n)
  OBVIOUS

(* Days are as far apart as they are long. *)
LEMMA DaysApart ==
  ASSUME NEW d \in Int, NEW e \in Int, NEW n \in Nat \ {0}, d < e
  PROVE  d * n + n <= e * n /\ d * n \in Int /\ e * n \in Int
<1>1. d * n \in Int /\ e * n \in Int /\ (e - d - 1) * n \in Int
  OBVIOUS
<1>2. e - d - 1 >= 0
  OBVIOUS
<1>3. (e - d - 1) * n >= 0
  BY <1>2
<1>4. (e - d - 1) * n = e * n - d * n - n
  OBVIOUS
<1> QED BY <1>1, <1>3, <1>4

(* A time of a day is of that day only. *)
LEMMA DayOfTime ==
  ASSUME NEW d \in Int, NEW e \in Int, NEW n \in Nat \ {0},
         NEW l \in 0 .. n - 1, NEW m \in 0 .. n - 1, d * n + l <= e * n + m
  PROVE  d <= e
<1>1. CASE e < d
  <2>1. e * n + n <= d * n /\ e * n \in Int /\ d * n \in Int
    BY <1>1, DaysApart
  <2> QED BY <2>1
<1> QED BY <1>1

-----------------------------------------------------------------------------
(* The wall clock *)

ZoneOK(z) == z.before \in Int /\ z.after \in Int /\ z.change \in Int

LEMMA ZonesOK == \A z \in Zones : ZoneOK(z)
  BY OffersAssumption DEF ZoneOK

LEMMA DayOK == Day \in Nat \ {0} /\ Day \in Int /\ Week \in Nat \ {0}
  BY OffersAssumption

(* What the clock of a zone shows at t. *)
Shows(z, t) == t + Offset(z, t)

LEMMA Clock ==
  ASSUME NEW z, ZoneOK(z), NEW t \in Int
  PROVE  /\ Shows(z, t) = t + (IF t < z.change THEN z.before ELSE z.after) /\ Shows(z, t) \in Int
         /\ Offset(z, t) = (IF t < z.change THEN z.before ELSE z.after) /\ Offset(z, t) \in Int
         /\ LocalDay(z, t) \in Int /\ Minute(z, t) \in 0 .. Day - 1
         /\ Shows(z, t) = (LocalDay(z, t) * Day) + Minute(z, t)
<1>1. /\ Shows(z, t) = t + (IF t < z.change THEN z.before ELSE z.after) /\ Shows(z, t) \in Int
      /\ Offset(z, t) = (IF t < z.change THEN z.before ELSE z.after) /\ Offset(z, t) \in Int
  BY DEF Shows, Offset, ZoneOK
<1>2. LocalDay(z, t) = Shows(z, t) \div Day /\ Minute(z, t) = Shows(z, t) % Day
  BY DEF LocalDay, Minute, Shows
<1> QED BY <1>1, <1>2, DivMod, DayOK

(* A reading of the clock says which day and minute it is. *)
LEMMA Reading ==
  ASSUME NEW z, ZoneOK(z), NEW t \in Int, NEW d \in Int, NEW m \in 0 .. Day - 1,
         Shows(z, t) = (d * Day) + m
  PROVE  LocalDay(z, t) = d /\ Minute(z, t) = m
<1> DEFINE e == LocalDay(z, t)
           n == Minute(z, t)
<1>1. e \in Int /\ n \in 0 .. Day - 1 /\ (d * Day) + m = (e * Day) + n
  BY Clock
<1> HIDE DEF e, n
<1>0. d * Day \in Int /\ e * Day \in Int
  BY <1>1, DayOK
<1>2. d <= e /\ e <= d
  BY <1>1, <1>0, DayOfTime, DayOK
<1>3. d = e
  BY <1>1, <1>2
<1>4. m = n
  BY <1>1, <1>3, <1>0
<1> QED BY <1>3, <1>4 DEF e, n

(* A reading from one day on is of that day or a later one, and of an      *)
(* earlier day it is of before.                                            *)
LEMMA ReadingFrom ==
  ASSUME NEW z, ZoneOK(z), NEW t \in Int, NEW d \in Int
  PROVE  /\ d * Day \in Int
         /\ Shows(z, t) >= d * Day <=> LocalDay(z, t) >= d
         /\ Shows(z, t) < (d * Day) + Day <=> LocalDay(z, t) <= d
<1> DEFINE e == LocalDay(z, t)
           n == Minute(z, t)
<1>1. e \in Int /\ n \in 0 .. Day - 1 /\ Shows(z, t) = (e * Day) + n /\ Shows(z, t) \in Int
  BY Clock
<1> HIDE DEF e, n
<1>0. d * Day \in Int /\ e * Day \in Int
  BY <1>1, DayOK
<1>2. CASE e < d
  BY <1>0, <1>1, <1>2, DaysApart, DayOK DEF e
<1>3. CASE e > d
  BY <1>0, <1>1, <1>3, DaysApart, DayOK DEF e
<1>4. CASE e = d
  BY <1>0, <1>1, <1>4, DayOK DEF e
<1> QED BY <1>1, <1>2, <1>3, <1>4

(* Where the change of the clock lies, the change itself and the clock's   *)
(* distance from it included.                                              *)
Between(z, lo, hi) ==
  /\ lo <= z.change + z.before + z.before - z.after /\ z.change + z.before + z.before - z.after <= hi
  /\ lo <= z.change + z.after + z.after - z.before /\ z.change + z.after + z.after - z.before <= hi

After(z, hi) ==
  /\ z.change + z.before + z.before - z.after >= hi
  /\ z.change + z.after + z.after - z.before >= hi

Till(z, lo) ==
  /\ z.change + z.before + z.before - z.after <= lo
  /\ z.change + z.after + z.after - z.before <= lo

(* The change of the clock is within a day, or before it, or after it.     *)
LEMMA Sides ==
  ASSUME NEW z, ZoneOK(z), ChangesByDay(z), NEW d \in Int
  PROVE  /\ d * Day \in Int
         /\ z.before <= Day /\ -Day <= z.before /\ z.after <= Day /\ -Day <= z.after
         /\ \/ z.before = z.after
            \/ Between(z, d * Day, (d * Day) + Day)
            \/ After(z, (d * Day) + Day)
            \/ Till(z, d * Day)
<1> DEFINE e == LocalDay(z, z.change)
<1>1. e \in Int /\ d * Day \in Int /\ e * Day \in Int /\ (e + 1) * Day = (e * Day) + Day
  BY Clock, DayOK DEF ZoneOK
<1>2. z.before <= Day /\ -Day <= z.before /\ z.after <= Day /\ -Day <= z.after
  BY DayOK DEF ChangesByDay, ZoneOK
<1>3. ASSUME z.before # z.after PROVE Between(z, e * Day, (e * Day) + Day)
  <2>1. \A o \in {z.before, z.after}, x \in {z.after - z.before, -(z.after - z.before)} :
          z.change + o + x \in (e * Day) .. ((e + 1) * Day)
    BY <1>3 DEF ChangesByDay
  <2>2. /\ z.change + z.before + (-(z.after - z.before)) \in (e * Day) .. ((e + 1) * Day)
        /\ z.change + z.after + (z.after - z.before) \in (e * Day) .. ((e + 1) * Day)
    BY <2>1
  <2> HIDE DEF e
  <2> QED BY <1>1, <2>2, DayOK DEF Between, ZoneOK
<1> HIDE DEF e
<1>4. CASE e = d
  BY <1>1, <1>2, <1>3, <1>4
<1>5. CASE e < d
  <2>1. (e * Day) + Day <= d * Day
    BY <1>1, <1>5, DaysApart, DayOK
  <2>2. z.before # z.after => Till(z, d * Day)
    BY <2>1, <1>1, <1>3, DayOK DEF Between, Till, ZoneOK
  <2> QED BY <1>1, <1>2, <2>2
<1>6. CASE e > d
  <2>1. (d * Day) + Day <= e * Day
    BY <1>1, <1>6, DaysApart, DayOK
  <2>2. z.before # z.after => After(z, (d * Day) + Day)
    BY <2>1, <1>1, <1>3, DayOK DEF Between, After, ZoneOK
  <2> QED BY <1>1, <1>2, <2>2
<1> QED BY <1>1, <1>4, <1>5, <1>6

(* Days pass in order, though the clock may be put back. *)
LEMMA DaysPass ==
  ASSUME NEW z, ZoneOK(z), ChangesByDay(z), NEW s \in Int, NEW t \in Int, s <= t
  PROVE  LocalDay(z, s) <= LocalDay(z, t)
<1> DEFINE d == LocalDay(z, s)
<1>1. d \in Int /\ LocalDay(z, t) \in Int /\ LocalDay(z, s) >= d
  BY Clock
<1> HIDE DEF d
<1> DEFINE lo == d * Day
<1>2. /\ lo \in Int /\ Shows(z, s) >= lo
      /\ Shows(z, t) >= lo <=> LocalDay(z, t) >= d
  BY <1>1, ReadingFrom
<1>3. \/ z.before = z.after \/ Between(z, lo, lo + Day) \/ After(z, lo + Day) \/ Till(z, lo)
  BY <1>1, Sides
<1>4. /\ Shows(z, s) = s + (IF s < z.change THEN z.before ELSE z.after)
      /\ Shows(z, t) = t + (IF t < z.change THEN z.before ELSE z.after)
  BY Clock
<1> HIDE DEF lo
<1>5. Shows(z, t) >= lo
  BY <1>2, <1>3, <1>4, DayOK DEF ZoneOK, Between, After, Till
<1> QED BY <1>1, <1>2, <1>5 DEF d

(* zonedTimeToUtcMs(), of a time g read as if it were UTC's *)
Resolved(z, g) == g - Offset(z, g - Offset(z, g))

LEMMA ResolvedIs ==
  ASSUME NEW z, ZoneOK(z), NEW g \in Int
  PROVE  LET o == IF g < z.change THEN z.before ELSE z.after
         IN Resolved(z, g) = g - (IF g - o < z.change THEN z.before ELSE z.after)
  BY DEF Resolved, Offset, ZoneOK

LEMMA ZonedToUtcIs ==
  ASSUME NEW z, ZoneOK(z), NEW d \in Int, NEW m \in 0 .. Day - 1
  PROVE  /\ ZonedToUtc(z, d, m) = Resolved(z, (d * Day) + m)
         /\ (d * Day) + m \in Int /\ ZonedToUtc(z, d, m) \in Int
<1>1. (d * Day) + m \in Int
  BY DayOK
<1>2. ZonedToUtc(z, d, m) = Resolved(z, (d * Day) + m)
  BY DEF ZonedToUtc, Resolved
<1>3. Resolved(z, (d * Day) + m) \in Int
  BY <1>1, ResolvedIs DEF ZoneOK
<1> QED BY <1>1, <1>2, <1>3

(* A time of a day resolves to an instant of that day, whatever the clock  *)
(* does on it.                                                             *)
LEMMA ResolvedInDay ==
  ASSUME NEW z, ZoneOK(z), ChangesByDay(z), NEW d \in Int, NEW m \in 0 .. Day - 1
  PROVE  LocalDay(z, ZonedToUtc(z, d, m)) = d
<1> DEFINE lo == d * Day
           g == lo + m
           t == ZonedToUtc(z, d, m)
<1>1. t = Resolved(z, g) /\ g \in Int /\ t \in Int
  BY ZonedToUtcIs
<1>2. lo \in Int
  BY DayOK
<1>3. \/ z.before = z.after \/ Between(z, lo, lo + Day) \/ After(z, lo + Day) \/ Till(z, lo)
  BY Sides
<1>4. t = g - (IF g - (IF g < z.change THEN z.before ELSE z.after) < z.change THEN z.before ELSE z.after)
  BY <1>1, ResolvedIs
<1>5. Shows(z, t) = t + (IF t < z.change THEN z.before ELSE z.after)
  BY <1>1, Clock
<1>6. g = lo + m
  OBVIOUS
<1>7. LocalDay(z, t) \in Int /\ (Shows(z, t) >= lo <=> LocalDay(z, t) >= d)
        /\ (Shows(z, t) < lo + Day <=> LocalDay(z, t) <= d)
  BY <1>1, Clock, ReadingFrom
<1> HIDE DEF lo, g, t
<1>8. Shows(z, t) >= lo /\ Shows(z, t) < lo + Day
  BY <1>1, <1>2, <1>3, <1>4, <1>5, <1>6, DayOK DEF ZoneOK, Between, After, Till
<1>9. LocalDay(z, t) = d
  BY <1>7, <1>8
<1> QED BY <1>9 DEF t

(* localMidnightUtcMs() is the first instant of its day. *)
LEMMA MidnightOpens ==
  ASSUME NEW z, ZoneOK(z), ChangesByDay(z), NEW d \in Int, NEW t \in Int
  PROVE  Midnight(z, d) \in Int /\ (t >= Midnight(z, d) <=> LocalDay(z, t) >= d)
<1> DEFINE lo == d * Day
           g1 == lo - Offset(z, lo)
           g2 == lo - Offset(z, g1)
           g3 == lo - Offset(z, g2)
<1>1. lo \in Int
  BY DayOK
<1>2. Midnight(z, d) = g3
  BY DEF Midnight
<1> HIDE DEF lo
<1>3. g1 \in Int /\ g1 = lo - (IF lo < z.change THEN z.before ELSE z.after)
  BY <1>1, Clock
<1> HIDE DEF g1
<1>4. g2 \in Int /\ g2 = lo - (IF g1 < z.change THEN z.before ELSE z.after)
  BY <1>1, <1>3, Clock
<1> HIDE DEF g2
<1>5. g3 \in Int /\ g3 = lo - (IF g2 < z.change THEN z.before ELSE z.after)
  BY <1>1, <1>4, Clock
<1> HIDE DEF g3
<1>6. \/ z.before = z.after \/ Between(z, lo, lo + Day) \/ After(z, lo + Day) \/ Till(z, lo)
  BY Sides DEF lo
<1>7. Shows(z, t) = t + (IF t < z.change THEN z.before ELSE z.after)
  BY Clock
<1>8. t >= g3 <=> Shows(z, t) >= lo
  BY <1>1, <1>3, <1>4, <1>5, <1>6, <1>7, DayOK DEF ZoneOK, Between, After, Till
<1>9. Shows(z, t) >= lo <=> LocalDay(z, t) >= d
  BY ReadingFrom DEF lo
<1> QED BY <1>2, <1>5, <1>8, <1>9

-----------------------------------------------------------------------------
(* Least and greatest elements.  That the naturals are well-founded stands *)
(* for induction over them: of what fails, there is a least.               *)
LEMMA LeastNat ==
  ASSUME NEW S, S \subseteq Nat, S # {}
  PROVE  \E x \in S : \A y \in S : x <= y
<1>1. PICK x \in S : \A y \in S : ~ (<<y, x>> \in OpToRel(<, Nat))
  BY NatLessThanWellFounded, WFMin
<1>2. \A y \in S : ~ (y < x)
  BY <1>1 DEF OpToRel
<1> QED BY <1>2

LEMMA LeastFinite ==
  ASSUME NEW S, S \subseteq Int, S # {}, IsFiniteSet(S)
  PROVE  \E x \in S : \A y \in S : x <= y
<1> DEFINE HasLeast(T) == \E x \in T : \A y \in T : x <= y
           Bad == {T \in SUBSET S : T # {} /\ ~HasLeast(T)}
           Sizes == {Cardinality(T) : T \in Bad}
<1>1. \A T \in SUBSET S : IsFiniteSet(T) /\ Cardinality(T) \in Nat
  BY FS_Subset, FS_CardinalityType
<1>2. ASSUME Bad # {} PROVE FALSE
  <2>1. Sizes \subseteq Nat /\ Sizes # {}
    BY <1>1, <1>2
  <2> HIDE DEF Sizes
  <2>2. PICK n \in Sizes : \A k \in Sizes : n <= k
    BY <2>1, LeastNat
  <2>3. PICK T \in Bad : n = Cardinality(T)
    BY <2>2 DEF Sizes
  <2>4. PICK x \in T : TRUE
    BY <2>3
  <2>5. T \ {x} \in SUBSET S /\ Cardinality(T \ {x}) = n - 1 /\ n \in Nat
    BY <1>1, <2>3, <2>4, FS_RemoveElement
  <2>6. T \ {x} \notin Bad
    <3>1. \A U \in Bad : n <= Cardinality(U)
      BY <2>2 DEF Sizes
    <3> HIDE DEF Bad
    <3> QED BY <3>1, <2>5
  <2>7. CASE T \ {x} = {}
    BY <2>3, <2>4, <2>7
  <2>8. CASE HasLeast(T \ {x})
    <3>1. PICK y \in T \ {x} : \A v \in T \ {x} : y <= v
      BY <2>8
    <3>2. x \in Int /\ y \in Int /\ T \subseteq Int
      BY <2>3, <2>4, <3>1
    <3>3. CASE x <= y
      <4>1. \A v \in T : x <= v
        BY <3>1, <3>2, <3>3
      <4> QED BY <2>3, <2>4, <4>1
    <3>4. CASE y <= x
      <4>1. \A v \in T : y <= v
        BY <3>1, <3>2, <3>4
      <4> QED BY <2>3, <3>1, <4>1
    <3> QED BY <3>2, <3>3, <3>4
  <2> QED BY <2>5, <2>6, <2>7, <2>8
<1>3. S \notin Bad
  BY <1>2
<1> QED BY <1>3

(* What Min() and Max() choose. *)
LEMMA MinIs ==
  ASSUME NEW S, S \subseteq Int, S # {}, IsFiniteSet(S)
  PROVE  Min(S) \in S /\ \A y \in S : Min(S) <= y
BY LeastFinite DEF Min

LEMMA MaxIs ==
  ASSUME NEW S, S \subseteq Int, S # {}, IsFiniteSet(S)
  PROVE  Max(S) \in S /\ \A y \in S : y <= Max(S)
<1> DEFINE neg == [x \in S |-> 0 - x]
           T == {0 - x : x \in S}
<1>1. T \subseteq Int /\ T # {}
  <2>1. \A x \in S : 0 - x \in Int
    OBVIOUS
  <2> QED BY <2>1
<1>2. neg \in Surjection(S, T)
  BY DEF Surjection
<1>3. IsFiniteSet(T)
  BY <1>2, FS_Surjection
<1> HIDE DEF T
<1>4. PICK t \in T : \A u \in T : t <= u
  BY <1>1, <1>3, LeastFinite
<1>5. PICK x \in S : t = 0 - x
  BY <1>4 DEF T
<1>6. \A y \in S : 0 - y \in T
  BY DEF T
<1>7. \A y \in S : y <= x
  BY <1>4, <1>5, <1>6
<1>8. \E v \in S : \A y \in S : v >= y
  BY <1>5, <1>7
<1> QED BY <1>8 DEF Max

LEMMA MinOfTwo ==
  ASSUME NEW x \in Int, NEW y \in Int
  PROVE  /\ Min({x, y}) = (IF x <= y THEN x ELSE y)
         /\ Max({x, y}) = (IF x >= y THEN x ELSE y)
<1>1. IsFiniteSet({x, y}) /\ {x, y} \subseteq Int /\ {x, y} # {}
  <2>1. IsFiniteSet({x} \cup {y})
    BY FS_Singleton, FS_AddElement
  <2>2. {x} \cup {y} = {x, y}
    OBVIOUS
  <2> QED BY <2>1, <2>2
<1>2. Min({x, y}) \in {x, y} /\ \A v \in {x, y} : Min({x, y}) <= v
  BY <1>1, MinIs
<1>3. Max({x, y}) \in {x, y} /\ \A v \in {x, y} : v <= Max({x, y})
  BY <1>1, MaxIs
<1> QED BY <1>2, <1>3

LEMMA IntervalsAreFinite ==
  ASSUME NEW a \in Int, NEW b \in Int, NEW S, S \subseteq a .. b
  PROVE  IsFiniteSet(S) /\ S \subseteq Int
<1>1. IsFiniteSet(a .. b) /\ S \in SUBSET (a .. b)
  BY FS_Interval
<1>2. a .. b \subseteq Int
  OBVIOUS
<1> QED BY <1>1, <1>2, FS_Subset

-----------------------------------------------------------------------------
(* Windows whose edges the clock shows once *)

(* The times from a window's opening in steps of a grid *)
LEMMA Multiples ==
  ASSUME NEW x \in Int, NEW k \in Int, NEW n \in Nat \ {0}
  PROVE  /\ k * n \in Int
         /\ k <= x \div n <=> k * n <= x
         /\ (k * n) % n = 0
         /\ x % n = 0 => x = (x \div n) * n
<1> DEFINE q == x \div n
           r == x % n
<1>1. q \in Int /\ r \in 0 .. n - 1 /\ x = (q * n) + r
  BY DivMod
<1> HIDE DEF q, r
<1>2. k * n \in Int /\ q * n \in Int
  BY <1>1
<1>3. CASE k < q
  BY <1>1, <1>2, <1>3, DaysApart
<1>4. CASE k > q
  BY <1>1, <1>2, <1>4, DaysApart
<1>5. k <= q <=> k * n <= x
  BY <1>1, <1>2, <1>3, <1>4
<1>6. (k * n) % n = 0
  <2> DEFINE j == (k * n) \div n
             l == (k * n) % n
  <2>1. j \in Int /\ l \in 0 .. n - 1 /\ k * n = (j * n) + l
    BY <1>2, DivMod
  <2> HIDE DEF j, l
  <2>2. j * n \in Int
    BY <2>1
  <2>3. k <= j /\ j <= k
    BY <2>1, <2>2, <1>2, DaysApart
  <2>4. l = 0
    BY <2>1, <2>2, <2>3
  <2> QED BY <2>4 DEF l
<1>7. r = 0 => x = q * n
  BY <1>1, <1>2
<1> QED BY <1>2, <1>5, <1>6, <1>7 DEF q, r

(* The clock shows g at t and at no other instant. *)
Once(z, t, g) == Shows(z, t) = g /\ \A u \in Int : Shows(z, u) = g => u = t

LEMMA ShownOnce ==
  ASSUME NEW z, ZoneOK(z), ChangesByDay(z), NEW d \in Int, NEW m \in 0 .. Day - 1,
         Cardinality(Shown(z, d, m)) = 1
  PROVE  Once(z, ZonedToUtc(z, d, m), (d * Day) + m)
<1> DEFINE lo == d * Day
           g == lo + m
           t == ZonedToUtc(z, d, m)
<1>1. t = Resolved(z, g) /\ g \in Int /\ t \in Int /\ lo \in Int
  BY ZonedToUtcIs, DayOK
<1>2. (d - 1) * Day = lo - Day /\ (d + 2) * Day = lo + Day + Day
  BY DayOK
<1>3. IsFiniteSet(Shown(z, d, m))
  <2>1. Shown(z, d, m) \subseteq (lo - Day) .. (lo + Day + Day)
    BY <1>2 DEF Shown
  <2> HIDE DEF lo
  <2> QED BY <1>1, <2>1, IntervalsAreFinite, DayOK
<1>4. PICK x : Shown(z, d, m) = {x}
  BY <1>3, FS_Singleton
<1>5. x \in Int /\ LocalDay(z, x) = d /\ Minute(z, x) = m
  BY <1>4 DEF Shown
<1>6. Shows(z, x) = g
  BY <1>5, Clock
<1>7. \A u \in Int : /\ Shows(z, u) = u + (IF u < z.change THEN z.before ELSE z.after)
                     /\ Shows(z, u) \in Int
  BY Clock
<1>8. z.before <= Day /\ -Day <= z.before /\ z.after <= Day /\ -Day <= z.after
  BY Sides
<1>9. ASSUME NEW u \in Int, Shows(z, u) = g PROVE u = x
  <2>1. LocalDay(z, u) = d /\ Minute(z, u) = m
    BY <1>9, Reading
  <2>2. u = g - (IF u < z.change THEN z.before ELSE z.after)
    BY <1>1, <1>7, <1>9 DEF ZoneOK
  <2>3. u \in (lo - Day) .. (lo + Day + Day)
    <3> HIDE DEF lo
    <3> QED BY <1>1, <1>8, <2>2, DayOK DEF ZoneOK
  <2>4. u \in Shown(z, d, m)
    BY <1>2, <2>1, <2>3 DEF Shown
  <2> QED BY <1>4, <2>4
<1>10. t = g - (IF g - (IF g < z.change THEN z.before ELSE z.after) < z.change THEN z.before ELSE z.after)
  BY <1>1, ResolvedIs
<1> HIDE DEF lo, g, t
<1>11. Shows(z, t) = g
  BY <1>1, <1>5, <1>6, <1>7, <1>10 DEF ZoneOK
<1>12. \A u \in Int : Shows(z, u) = g => u = t
  BY <1>1, <1>9, <1>11
<1> QED BY <1>11, <1>12 DEF Once, g, lo, t

(* Such an instant divides the others as the clock does. *)
LEMMA OrderByClock ==
  ASSUME NEW z, ZoneOK(z), NEW t \in Int, NEW g \in Int, Once(z, t, g), NEW u \in Int
  PROVE  /\ u >= t <=> Shows(z, u) >= g
         /\ u <= t <=> Shows(z, u) <= g
<1>1. \A v \in Int : Shows(z, v) = v + (IF v < z.change THEN z.before ELSE z.after)
  BY Clock
<1>2. g - z.before \in Int /\ g - z.after \in Int
  BY DEF ZoneOK
<1>3. /\ Shows(z, t) = t + (IF t < z.change THEN z.before ELSE z.after)
      /\ Shows(z, u) = u + (IF u < z.change THEN z.before ELSE z.after)
      /\ Shows(z, g - z.before) = g - z.before + (IF g - z.before < z.change THEN z.before ELSE z.after)
      /\ Shows(z, g - z.after) = g - z.after + (IF g - z.after < z.change THEN z.before ELSE z.after)
  BY <1>1, <1>2
<1>4. /\ Shows(z, t) = g
      /\ Shows(z, g - z.before) = g => g - z.before = t
      /\ Shows(z, g - z.after) = g => g - z.after = t
  BY <1>2 DEF Once
<1> QED BY <1>3, <1>4 DEF ZoneOK

LEMMA WindowOK ==
  ASSUME NEW w \in Window
  PROVE  /\ w.day \in 0 .. Week - 1 /\ w.opens \in 0 .. Day - 1 /\ w.closes \in 0 .. Day - 1
         /\ w.opens < w.closes
  BY DEF Window

(* The first instant of a day the clock shows a window's opening or later  *)
(* is the one the opening resolves to.                                     *)
LEMMA OpeningResolves ==
  ASSUME NEW z, ZoneOK(z), ChangesByDay(z), NEW d \in Int, NEW w \in Window,
         Cardinality(Shown(z, d, w.opens)) = 1
  PROVE  Opening(z, d, w) = ZonedToUtc(z, d, w.opens)
<1> DEFINE lo == d * Day
           g == lo + w.opens
           t == ZonedToUtc(z, d, w.opens)
           S == {u \in (d - 1) * Day .. (d + 2) * Day : LocalDay(z, u) = d /\ Minute(z, u) >= w.opens}
<1>1. w.opens \in 0 .. Day - 1
  BY WindowOK
<1>2. t \in Int /\ g \in Int /\ lo \in Int
  BY <1>1, ZonedToUtcIs, DayOK
<1>3. Once(z, t, g)
  BY <1>1, ShownOnce
<1>4. LocalDay(z, t) = d /\ Minute(z, t) = w.opens
  BY <1>1, <1>2, <1>3, Reading DEF Once
<1>5. (d - 1) * Day = lo - Day /\ (d + 2) * Day = lo + Day + Day
  BY DayOK
<1>6. t \in (d - 1) * Day .. (d + 2) * Day
  <2>1. z.before <= Day /\ -Day <= z.before /\ z.after <= Day /\ -Day <= z.after
    BY Sides
  <2>2. Shows(z, t) = t + (IF t < z.change THEN z.before ELSE z.after) /\ Shows(z, t) = g
    BY <1>2, <1>3, Clock DEF Once
  <2>3. g = lo + w.opens
    OBVIOUS
  <2> HIDE DEF lo, g, t
  <2> QED BY <1>1, <1>2, <1>5, <2>1, <2>2, <2>3, DayOK DEF ZoneOK
<1>7. t \in S
  BY <1>1, <1>4, <1>6
<1>8. ASSUME NEW u \in S PROVE t <= u
  <2>1. u \in Int /\ LocalDay(z, u) = d /\ Minute(z, u) >= w.opens
    BY DayOK
  <2>2. Shows(z, u) = lo + Minute(z, u) /\ Minute(z, u) \in Int
    BY <2>1, Clock
  <2>3. Shows(z, u) >= g
    <3> HIDE DEF lo
    <3> QED BY <1>1, <1>2, <2>1, <2>2
  <2> HIDE DEF t, g, S
  <2>4. u >= t
    BY <1>2, <1>3, <2>1, <2>3, OrderByClock
  <2> QED BY <1>2, <2>1, <2>4
<1>9. S \subseteq Int
  BY DayOK
<1>10. Opening(z, d, w) = CHOOSE x \in S : \A y \in S : x <= y
  BY DEF Opening, Min
<1> HIDE DEF t, S
<1>11. \A x \in S : (\A y \in S : x <= y) => x = t
  BY <1>2, <1>7, <1>8, <1>9
<1> QED BY <1>7, <1>8, <1>10, <1>11 DEF t

-----------------------------------------------------------------------------
(* generateCandidateSlots() *)

LEMMA HalfADay ==
  /\ Day \div 2 \in 0 .. Day - 1
  /\ 2 * (Day \div 2) <= Day /\ Day <= 2 * (Day \div 2) + 1
<1>1. Day \in Nat /\ Day >= 1
  BY DayOK
<1>2. Day \div 2 \in Int /\ Day % 2 \in 0 .. 1 /\ Day = ((Day \div 2) * 2) + (Day % 2)
  BY <1>1, DivMod
<1> QED BY <1>1, <1>2

(* A day after noon is the next day, and so on, whatever the clock does.   *)
LEMMA NoonPasses ==
  ASSUME NEW z, ZoneOK(z), ChangesByDay(z), NEW d \in Int, NEW k \in Int
  PROVE  LocalDay(z, ZonedToUtc(z, d, Day \div 2) + (k * Day)) = d + k
<1> DEFINE h == Day \div 2
           lo == d * Day
           g == lo + h
           t == ZonedToUtc(z, d, h)
           K == k * Day
           u == t + K
<1>1. h \in 0 .. Day - 1 /\ 2 * h <= Day /\ Day <= 2 * h + 1
  BY HalfADay
<1>2. lo \in Int /\ K \in Int /\ (d + k) * Day = lo + K
  BY DayOK
<1>3. t = Resolved(z, g) /\ t \in Int /\ g \in Int
  BY <1>1, ZonedToUtcIs
<1>4. t = g - (IF g - (IF g < z.change THEN z.before ELSE z.after) < z.change THEN z.before ELSE z.after)
  BY <1>3, ResolvedIs
<1>5. u \in Int
  BY <1>2, <1>3
<1>6. Shows(z, u) = u + (IF u < z.change THEN z.before ELSE z.after)
  BY <1>5, Clock
<1>7. \/ z.before = z.after \/ Between(z, lo, lo + Day) \/ After(z, lo + Day) \/ Till(z, lo)
  BY Sides
<1>8. z.before # z.after => 3 * (z.after - z.before) <= Day /\ 3 * (z.before - z.after) <= Day
  <2> DEFINE e == LocalDay(z, z.change)
  <2>1. e \in Int /\ z.change \in Int
    BY Clock DEF ZoneOK
  <2> HIDE DEF e
  <2>2. e * Day \in Int /\ (e + 1) * Day = (e * Day) + Day
    BY <2>1, DayOK
  <2>3. SUFFICES ASSUME z.before # z.after
                 PROVE  3 * (z.after - z.before) <= Day /\ 3 * (z.before - z.after) <= Day
    OBVIOUS
  <2>4. \A o \in {z.before, z.after}, x \in {z.after - z.before, -(z.after - z.before)} :
          z.change + o + x \in (e * Day) .. ((e + 1) * Day)
    BY <2>3 DEF ChangesByDay, e
  <2>5. /\ z.change + z.before + (-(z.after - z.before)) \in (e * Day) .. ((e + 1) * Day)
        /\ z.change + z.after + (z.after - z.before) \in (e * Day) .. ((e + 1) * Day)
    BY <2>4
  <2> QED BY <2>1, <2>2, <2>5, DayOK DEF ZoneOK
<1>9. /\ Shows(z, u) >= (d + k) * Day <=> LocalDay(z, u) >= d + k
      /\ Shows(z, u) < ((d + k) * Day) + Day <=> LocalDay(z, u) <= d + k
      /\ LocalDay(z, u) \in Int
  <2> HIDE DEF u
  <2>1. d + k \in Int
    OBVIOUS
  <2> QED BY <2>1, <1>5, ReadingFrom, Clock
<1>10. g = lo + h /\ u = t + K
  OBVIOUS
<1> HIDE DEF h, lo, g, t, K, u
<1>11. Shows(z, u) >= lo + K /\ Shows(z, u) < lo + K + Day
  <2>1. CASE z.before = z.after
    BY <1>1, <1>2, <1>3, <1>4, <1>5, <1>6, <1>10, <2>1, DayOK DEF ZoneOK
  <2>2. CASE z.before # z.after
    BY <1>1, <1>2, <1>3, <1>4, <1>5, <1>6, <1>8, <1>10, <2>2, DayOK DEF ZoneOK
  <2> QED BY <2>1, <2>2
<1>12. LocalDay(z, u) = d + k
  BY <1>2, <1>9, <1>11, DayOK
<1> QED BY <1>12 DEF u, t, K, h

LEMMA NoonIs ==
  ASSUME NEW z, ZoneOK(z), NEW from \in Int
  PROVE  /\ Noon(z, from) \in Int /\ LocalDay(z, from) \in Int
         /\ Noon(z, from) = ZonedToUtc(z, LocalDay(z, from), Day \div 2)
  BY Clock, HalfADay, ZonedToUtcIs DEF Noon

(* No day of the window is skipped. *)
LEMMA EveryDayIsVisited ==
  ASSUME NEW z, ZoneOK(z), ChangesByDay(z), NEW from \in Int, NEW latest \in Int,
         NEW s \in from .. latest
  PROVE  LocalDay(z, s) \in DaysVisited(z, from, latest)
<1> DEFINE d0 == LocalDay(z, from)
           d == LocalDay(z, s)
           k == d - d0
           noon == Noon(z, from)
<1>1. d0 \in Int /\ d \in Int /\ noon \in Int /\ s \in Int /\ from <= s
  BY NoonIs, Clock
<1>2. d0 <= d
  BY <1>1, DaysPass
<1> HIDE DEF d, d0
<1>3. \A j \in Int : LocalDay(z, noon + (j * Day)) = d0 + j
  BY <1>1, NoonPasses, NoonIs DEF d0
<1> HIDE DEF noon
<1>4. k \in Nat /\ (k - 1) * Day \in Int /\ k * Day = ((k - 1) * Day) + Day
  BY <1>1, <1>2, DayOK
<1>5. noon + ((k - 1) * Day) < s
  <2> DEFINE u == noon + ((k - 1) * Day)
  <2>1. u \in Int /\ LocalDay(z, u) = d0 + (k - 1)
    BY <1>1, <1>3, <1>4
  <2>2. d0 + (k - 1) = d - 1
    BY <1>1
  <2> HIDE DEF u
  <2>3. s <= u => d <= d - 1
    BY <1>1, <2>1, <2>2, DaysPass DEF d
  <2>4. u < s
    BY <1>1, <2>1, <2>3
  <2> QED BY <2>4 DEF u
<1>6. k * Day <= latest + Day - noon
  BY <1>1, <1>4, <1>5, DayOK
<1>7. k <= (latest + Day - noon) \div Day
  <2> HIDE DEF k
  <2>1. latest + Day - noon \in Int /\ k \in Int
    BY <1>1, <1>4, DayOK
  <2> QED BY <2>1, <1>6, Multiples, DayOK
<1>8. k \in 0 .. ((latest + Day - noon) \div Day)
  BY <1>1, <1>4, <1>7, DivMod, DayOK
<1>9. LocalDay(z, noon + (k * Day)) = d
  BY <1>1, <1>3, <1>4
<1> QED BY <1>8, <1>9 DEF DaysVisited, noon, d

LEMMA PolicyOK ==
  ASSUME NEW p \in Policies
  PROVE  /\ p.before \in Nat /\ p.after \in Nat /\ p.notice \in Nat /\ p.horizon \in Nat
         /\ p.grid \in Nat \ {0} /\ p.duration \in Nat \ {0}
         /\ p.own \in [Attorney -> SUBSET Window] /\ p.first \in Seq(Attorney)
  BY PoliciesAssumption

(* Where a start on a window's grid lies *)
LEMMA GridIs ==
  ASSUME NEW z, ZoneOK(z), NEW p \in Policies, NEW d \in Int, NEW w \in Window
  PROVE  LET opens == ZonedToUtc(z, d, w.opens)
             closes == ZonedToUtc(z, d, w.closes)
         IN /\ opens \in Int /\ closes \in Int
            /\ \A s \in Int :
                 s \in OnGrid(z, p, d, w) <=>
                   opens <= s /\ s + p.duration <= closes /\ (s - opens) % p.grid = 0
            /\ OnGrid(z, p, d, w) \subseteq Int
<1> DEFINE opens == ZonedToUtc(z, d, w.opens)
           closes == ZonedToUtc(z, d, w.closes)
           room == closes - p.duration - opens
           grid == p.grid
<1>1. opens \in Int /\ closes \in Int
  BY WindowOK, ZonedToUtcIs
<1>2. grid \in Nat \ {0} /\ p.duration \in Nat \ {0} /\ room \in Int
  BY <1>1, PolicyOK
<1>3. OnGrid(z, p, d, w) = {opens + (k * grid) : k \in 0 .. (room \div grid)}
  BY DEF OnGrid
<1> HIDE DEF grid
<1>4. room \div grid \in Int
  BY <1>2, DivMod
<1>5. ASSUME NEW k \in 0 .. (room \div grid), NEW s, s = opens + (k * grid)
      PROVE  /\ s \in Int /\ opens <= s /\ s + p.duration <= closes
             /\ (s - opens) % grid = 0
  <2>1. k \in Int /\ 0 <= k /\ k <= room \div grid
    BY <1>4
  <2>2. k * grid \in Int /\ k * grid <= room /\ (k * grid) % grid = 0
    BY <1>2, <2>1, Multiples
  <2>3. 0 <= k * grid
    <3>1. 0 * grid = 0
      BY <1>2
    <3>2. k = 0 \/ 0 < k
      BY <2>1
    <3> QED BY <1>2, <2>1, <2>2, <3>1, <3>2, DaysApart
  <2> HIDE DEF opens, closes
  <2>4. s - opens = k * grid /\ s \in Int
    BY <1>1, <1>5, <2>2
  <2> QED BY <1>1, <1>2, <2>2, <2>3, <2>4 DEF room
<1>6. ASSUME NEW s \in Int, opens <= s, s + p.duration <= closes, (s - opens) % grid = 0
      PROVE  \E k \in 0 .. (room \div grid) : s = opens + (k * grid)
  <2> DEFINE k == (s - opens) \div grid
  <2>1. s - opens \in Int /\ k \in Int
    <3>1. s - opens \in Int
      BY <1>1
    <3> HIDE DEF opens
    <3> QED BY <1>2, <3>1, DivMod
  <2>2. s - opens = k * grid /\ k * grid \in Int
    BY <1>2, <1>6, <2>1, Multiples
  <2> HIDE DEF k, opens, closes
  <2>3. k <= room \div grid
    <3>1. k * grid <= room
      BY <1>1, <1>2, <1>6, <2>2 DEF room
    <3> QED BY <1>2, <2>1, <3>1, Multiples
  <2>4. 0 <= k
    <3>1. k < 0 => (k * grid) + grid <= 0 * grid
      BY <1>2, <2>1, DaysApart
    <3>2. 0 * grid = 0
      BY <1>2
    <3> QED BY <1>1, <1>2, <1>6, <2>1, <2>2, <3>1, <3>2
  <2>5. k \in 0 .. (room \div grid) /\ s = opens + (k * grid)
    BY <1>1, <1>4, <2>1, <2>2, <2>3, <2>4
  <2> QED BY <2>5
<1>7. OnGrid(z, p, d, w) \subseteq Int
  BY <1>3, <1>5
<1> HIDE DEF opens, closes, room
<1>8. \A s \in Int : s \in OnGrid(z, p, d, w) <=>
        opens <= s /\ s + p.duration <= closes /\ (s - opens) % grid = 0
  <2> TAKE s \in Int
  <2>1. ASSUME s \in OnGrid(z, p, d, w)
        PROVE  opens <= s /\ s + p.duration <= closes /\ (s - opens) % grid = 0
    <3>1. PICK k \in 0 .. (room \div grid) : s = opens + (k * grid)
      BY <1>3, <2>1
    <3> QED BY <1>5, <3>1
  <2>2. ASSUME opens <= s, s + p.duration <= closes, (s - opens) % grid = 0
        PROVE  s \in OnGrid(z, p, d, w)
    BY <1>3, <1>6, <2>2
  <2> QED BY <2>1, <2>2
<1> QED BY <1>1, <1>7, <1>8 DEF opens, closes, grid

(* On a window's grid, in the terms of the wall clock *)
LEMMA OnGridInDay ==
  ASSUME NEW z, ZoneOK(z), ChangesByDay(z), NEW p \in Policies, NEW d \in Int,
         NEW w \in Window, NEW s \in OnGrid(z, p, d, w)
  PROVE  LocalDay(z, s) = d /\ LocalDay(z, s + p.duration) = d
<1> DEFINE opens == ZonedToUtc(z, d, w.opens)
           closes == ZonedToUtc(z, d, w.closes)
           e == s + p.duration
<1>1. opens \in Int /\ closes \in Int /\ s \in Int /\ opens <= s /\ e <= closes
  BY GridIs
<1>2. e \in Int /\ s <= e
  BY <1>1, PolicyOK
<1>3. LocalDay(z, opens) = d /\ LocalDay(z, closes) = d
  BY WindowOK, ResolvedInDay
<1> HIDE DEF opens, closes, e
<1>4. /\ LocalDay(z, opens) <= LocalDay(z, s) /\ LocalDay(z, s) <= LocalDay(z, e)
      /\ LocalDay(z, e) <= LocalDay(z, closes)
  BY <1>1, <1>2, DaysPass
<1>5. LocalDay(z, s) \in Int /\ LocalDay(z, e) \in Int
  BY <1>1, <1>2, Clock
<1> QED BY <1>3, <1>4, <1>5 DEF e

(* An instant of a day is after another time of it as its minute is.       *)
LEMMA MinuteByClock ==
  ASSUME NEW z, ZoneOK(z), ChangesByDay(z), NEW d \in Int, NEW m \in 0 .. Day - 1,
         Cardinality(Shown(z, d, m)) = 1, NEW u \in Int, LocalDay(z, u) = d
  PROVE  /\ ZonedToUtc(z, d, m) <= u <=> m <= Minute(z, u)
         /\ u <= ZonedToUtc(z, d, m) <=> Minute(z, u) <= m
<1> DEFINE t == ZonedToUtc(z, d, m)
           lo == d * Day
           g == lo + m
<1>1. t \in Int /\ g \in Int /\ lo \in Int
  BY ZonedToUtcIs, DayOK
<1>2. Once(z, t, g)
  BY ShownOnce
<1>3. Shows(z, u) = lo + Minute(z, u) /\ Minute(z, u) \in 0 .. Day - 1
  BY Clock
<1> HIDE DEF t, lo
<1>4. /\ u >= t <=> Shows(z, u) >= g
      /\ u <= t <=> Shows(z, u) <= g
  BY <1>1, <1>2, OrderByClock
<1> QED BY <1>1, <1>3, <1>4, DayOK DEF t

LEMMA OnGridByClock ==
  ASSUME NEW z, ZoneOK(z), ChangesByDay(z), NEW p \in Policies, NEW s \in Int, NEW d \in Int,
         LocalDay(z, s) = d, LocalDay(z, s + p.duration) = d, NEW w \in Window,
         Cardinality(Shown(z, d, w.opens)) = 1, Cardinality(Shown(z, d, w.closes)) = 1
  PROVE  s \in OnGrid(z, p, d, w) <=>
           /\ w.opens <= Minute(z, s) /\ Minute(z, s + p.duration) <= w.closes
           /\ (s - Opening(z, d, w)) % p.grid = 0
<1>1. w.opens \in 0 .. Day - 1 /\ w.closes \in 0 .. Day - 1
  BY WindowOK
<1>2. s + p.duration \in Int
  BY PolicyOK
<1>3. ZonedToUtc(z, d, w.opens) <= s <=> w.opens <= Minute(z, s)
  BY <1>1, MinuteByClock
<1>4. s + p.duration <= ZonedToUtc(z, d, w.closes) <=> Minute(z, s + p.duration) <= w.closes
  <2> DEFINE e == s + p.duration
             m == w.closes
  <2>1. e \in Int /\ m \in 0 .. Day - 1 /\ LocalDay(z, e) = d /\ Cardinality(Shown(z, d, m)) = 1
    BY <1>1, <1>2
  <2> HIDE DEF e, m
  <2>2. e <= ZonedToUtc(z, d, m) <=> Minute(z, e) <= m
    BY <2>1, MinuteByClock
  <2> QED BY <2>2 DEF e, m
<1>5. Opening(z, d, w) = ZonedToUtc(z, d, w.opens)
  BY OpeningResolves
<1>6. s \in OnGrid(z, p, d, w) <=>
        /\ ZonedToUtc(z, d, w.opens) <= s /\ s + p.duration <= ZonedToUtc(z, d, w.closes)
        /\ (s - ZonedToUtc(z, d, w.opens)) % p.grid = 0
  BY GridIs
<1> QED BY <1>3, <1>4, <1>5, <1>6

LEMMA WindowOfCheck ==
  ASSUME NEW z, ZoneOK(z), ChangesByDay(z), NEW req, req.days \in Int \X Int
  PROVE  /\ req.days[1] \in Int /\ req.days[2] \in Int
         /\ From(z, req) \in Int /\ To(z, req) \in Int
         /\ \A t \in Int : /\ t >= From(z, req) <=> LocalDay(z, t) >= req.days[1]
                           /\ t < To(z, req) <=> LocalDay(z, t) <= req.days[2]
<1>1. req.days[1] \in Int /\ req.days[2] \in Int /\ req.days[2] + 1 \in Int
  OBVIOUS
<1> DEFINE a == req.days[1]
           b == req.days[2] + 1
<1>2. a \in Int /\ b \in Int
  BY <1>1
<1>3. /\ From(z, req) = Midnight(z, a)
      /\ To(z, req) = Midnight(z, b)
  BY DEF From, To
<1> HIDE DEF a, b
<1>4. 0 \in Int /\ \A t \in Int : LocalDay(z, t) \in Int
  BY Clock
<1>5. Midnight(z, a) \in Int /\ Midnight(z, b) \in Int
  BY <1>2, <1>4, MidnightOpens
<1>6. \A t \in Int : /\ t >= Midnight(z, a) <=> LocalDay(z, t) >= a
                     /\ t >= Midnight(z, b) <=> LocalDay(z, t) >= b
  BY <1>2, MidnightOpens
<1>7. \A t \in Int : t < Midnight(z, b) <=> LocalDay(z, t) < b
  BY <1>2, <1>4, <1>5, <1>6
<1>8. \A t \in Int : LocalDay(z, t) < b <=> LocalDay(z, t) <= req.days[2]
  BY <1>1, <1>4 DEF b
<1> QED BY <1>1, <1>3, <1>5, <1>6, <1>7, <1>8 DEF a

LEMMA Bounds ==
  ASSUME NEW p \in Policies, NEW from \in Int, NEW to \in Int
  PROVE  /\ Earliest(p, from) \in Int /\ Latest(p, to) \in Int
         /\ p.horizon * Day \in Int
         /\ \A s \in Int :
              /\ s >= Earliest(p, from) <=> s >= from /\ s >= Now + p.notice
              /\ s <= Latest(p, to) <=> s <= to /\ s <= Now + p.horizon * Day
<1>1. Now + p.notice \in Int /\ p.horizon * Day \in Int /\ Now \in Int
  BY PolicyOK, DayOK, OffersAssumption
<1>2. Now + p.horizon * Day \in Int
  BY <1>1
<1>3. /\ Earliest(p, from) = (IF from >= Now + p.notice THEN from ELSE Now + p.notice)
      /\ Latest(p, to) = (IF to <= Now + p.horizon * Day THEN to ELSE Now + p.horizon * Day)
  BY <1>1, <1>2, MinOfTwo DEF Earliest, Latest
<1> QED BY <1>1, <1>2, <1>3

(* What generateCandidateSlots() returns is within its bounds.             *)
LEMMA GeneratedIs ==
  ASSUME NEW z, ZoneOK(z), NEW p \in Policies, NEW hours, hours \subseteq Window,
         NEW busy, NEW from \in Int, NEW to \in Int
  PROVE  /\ IsFiniteSet(Generate(z, p, hours, busy, from, to))
         /\ \A s \in Generate(z, p, hours, busy, from, to) :
              /\ s \in Int /\ s >= Earliest(p, from) /\ s + p.duration <= Latest(p, to)
              /\ ~Guarded(p, s, busy)
              /\ \E d \in DaysVisited(z, from, Latest(p, to)) \ p.closed :
                   d \in Int /\ \E w \in hours : w.day = Weekday(d) /\ s \in OnGrid(z, p, d, w)
<1> DEFINE earliest == Earliest(p, from)
           latest == Latest(p, to)
           days == DaysVisited(z, from, latest)
           slots == Generate(z, p, hours, busy, from, to)
<1>1. earliest \in Int /\ latest \in Int
  BY Bounds
<1>2. \A d \in days : d \in Int
  <2>1. \A k \in Int : LocalDay(z, Noon(z, from) + k * Day) \in Int
    <3>1. \A k \in Int : Noon(z, from) + k * Day \in Int
      BY NoonIs, DayOK
    <3> QED BY <3>1, Clock
  <2> QED BY <2>1 DEF DaysVisited
<1>3. slots = IF earliest >= latest THEN {}
              ELSE {s \in UNION {StartsOn(z, p, hours, d) : d \in days \ p.closed} :
                      s >= earliest /\ s + p.duration <= latest /\ ~Guarded(p, s, busy)}
  BY DEF Generate
<1> HIDE DEF earliest, latest, days, slots
<1>4. ASSUME NEW s \in slots
      PROVE  /\ s >= earliest /\ s + p.duration <= latest /\ ~Guarded(p, s, busy)
             /\ \E d \in days \ p.closed :
                  d \in Int /\ \E w \in hours : w.day = Weekday(d) /\ s \in OnGrid(z, p, d, w)
             /\ s \in Int
  <2>1. earliest < latest
    BY <1>1, <1>3
  <2>2. /\ s \in UNION {StartsOn(z, p, hours, d) : d \in days \ p.closed}
        /\ s >= earliest /\ s + p.duration <= latest /\ ~Guarded(p, s, busy)
    BY <1>1, <1>3, <2>1
  <2>3. PICK d \in days \ p.closed : s \in StartsOn(z, p, hours, d)
    BY <2>2
  <2>4. d \in Int
    BY <1>2, <2>3
  <2>5. PICK w \in hours : w.day = Weekday(d) /\ s \in OnGrid(z, p, d, w)
    BY <2>3 DEF StartsOn
  <2>6. s \in Int
    BY <2>4, <2>5, GridIs
  <2> QED BY <2>2, <2>3, <2>4, <2>5, <2>6
<1>5. slots \subseteq earliest .. latest
  <2>1. \A s \in slots : s \in Int /\ s >= earliest /\ s <= latest
    BY <1>1, <1>4, PolicyOK
  <2> QED BY <1>1, <2>1
<1>6. IsFiniteSet(slots)
  BY <1>1, <1>5, IntervalsAreFinite
<1> QED BY <1>4, <1>6 DEF earliest, latest, days, slots

(* generateCandidateSlots() returns a start iff it qualifies, of a day     *)
(* whose window edges the clock shows once.                                *)
LEMMA GeneratedQualifies ==
  ASSUME NEW z, ZoneOK(z), ChangesByDay(z), NEW p \in Policies, NEW hours, hours \subseteq Window,
         NEW busy, NEW req, req.days \in Int \X Int,
         NEW s \in Int, Clear(z, LocalDay(z, s), hours)
  PROVE  s \in Generate(z, p, hours, busy, From(z, req), To(z, req)) <=>
           Qualifies(z, p, s, hours, busy, req)
<1> DEFINE from == From(z, req)
           to == To(z, req)
           d == LocalDay(z, s)
           e == s + p.duration
           first == req.days[1]
           last == req.days[2]
<1>1. /\ first \in Int /\ last \in Int /\ from \in Int /\ to \in Int
      /\ \A t \in Int : (t >= from <=> LocalDay(z, t) >= first) /\ (t < to <=> LocalDay(z, t) <= last)
  BY WindowOfCheck
<1>2. d \in Int /\ e \in Int /\ LocalDay(z, e) \in Int /\ s < e /\ p.duration \in Nat
  <2>1. e \in Int /\ s < e /\ p.duration \in Nat
    BY PolicyOK
  <2> QED BY <2>1, Clock
<1>3. Guarded(p, s, busy) <=> \E b \in busy : b[1] < e + p.after /\ b[2] > s - p.before
  BY DEF Guarded
<1>4. \A w \in hours : w \in Window /\ Cardinality(Shown(z, d, w.opens)) = 1
                                    /\ Cardinality(Shown(z, d, w.closes)) = 1
  BY DEF Clear
<1>5. Qualifies(z, p, s, hours, busy, req) <=>
        /\ \E w \in hours :
             /\ w.day = Weekday(d)
             /\ w.opens <= Minute(z, s) /\ LocalDay(z, e) = d /\ Minute(z, e) <= w.closes
             /\ (s - Opening(z, d, w)) % p.grid = 0
        /\ d \notin p.closed
        /\ s >= Now + p.notice /\ e <= Now + p.horizon * Day
        /\ d >= first /\ d <= last
        /\ ~Guarded(p, s, busy)
  BY <1>3 DEF Qualifies
<1>6. \A w \in hours : LocalDay(z, e) = d =>
        (s \in OnGrid(z, p, d, w) <=>
           /\ w.opens <= Minute(z, s) /\ Minute(z, e) <= w.closes
           /\ (s - Opening(z, d, w)) % p.grid = 0)
  BY <1>2, <1>4, OnGridByClock
<1>7. /\ Earliest(p, from) \in Int /\ Latest(p, to) \in Int /\ p.horizon * Day \in Int
      /\ s >= Earliest(p, from) <=> s >= from /\ s >= Now + p.notice
      /\ e <= Latest(p, to) <=> e <= to /\ e <= Now + p.horizon * Day
  <2> HIDE DEF from, to, e
  <2> QED BY <1>1, <1>2, Bounds
<1> HIDE DEF from, to, d, e, first, last
<1>8. ASSUME s \in Generate(z, p, hours, busy, from, to)
      PROVE  Qualifies(z, p, s, hours, busy, req)
  <2>1. /\ s >= Earliest(p, from) /\ e <= Latest(p, to) /\ ~Guarded(p, s, busy)
        /\ \E x \in DaysVisited(z, from, Latest(p, to)) \ p.closed :
             x \in Int /\ \E w \in hours : w.day = Weekday(x) /\ s \in OnGrid(z, p, x, w)
    BY <1>1, <1>8, GeneratedIs DEF e
  <2>2. PICK x \in DaysVisited(z, from, Latest(p, to)) \ p.closed :
          x \in Int /\ \E w \in hours : w.day = Weekday(x) /\ s \in OnGrid(z, p, x, w)
    BY <2>1
  <2>3. PICK w \in hours : w.day = Weekday(x) /\ s \in OnGrid(z, p, x, w)
    BY <2>2
  <2>4. d = x /\ LocalDay(z, e) = d
    BY <1>4, <2>2, <2>3, OnGridInDay DEF d, e
  <2>5. d >= first
    BY <1>1, <1>7, <2>1 DEF d
  <2>6. d <= last
    BY <1>1, <1>2, <1>7, <2>1 DEF d
  <2> QED BY <1>5, <1>6, <1>7, <2>1, <2>2, <2>3, <2>4, <2>5, <2>6
<1>9. ASSUME Qualifies(z, p, s, hours, busy, req)
      PROVE  s \in Generate(z, p, hours, busy, from, to)
  <2>1. PICK w \in hours :
          /\ w.day = Weekday(d) /\ LocalDay(z, e) = d
          /\ w.opens <= Minute(z, s) /\ Minute(z, e) <= w.closes
          /\ (s - Opening(z, d, w)) % p.grid = 0
    BY <1>5, <1>9
  <2>2. s \in OnGrid(z, p, d, w)
    BY <1>6, <2>1
  <2>3. s >= from /\ e < to
    BY <1>1, <1>2, <1>5, <1>9, <2>1 DEF d
  <2>4. s >= Earliest(p, from) /\ e <= Latest(p, to) /\ e <= to
    BY <1>1, <1>2, <1>5, <1>7, <1>9, <2>3
  <2>5. s \in from .. Latest(p, to)
    BY <1>1, <1>2, <1>7, <2>3, <2>4
  <2>6. d \in DaysVisited(z, from, Latest(p, to))
    BY <1>1, <1>7, <2>5, EveryDayIsVisited DEF d
  <2>7. d \in DaysVisited(z, from, Latest(p, to)) \ p.closed
    BY <1>5, <1>9, <2>6
  <2>8. s \in StartsOn(z, p, hours, d)
    BY <2>1, <2>2 DEF StartsOn
  <2>9. Earliest(p, from) < Latest(p, to)
    BY <1>2, <1>7, <2>4
  <2>10. ~Guarded(p, s, busy)
    BY <1>5, <1>9
  <2>11. s \in UNION {StartsOn(z, p, hours, x) : x \in DaysVisited(z, from, Latest(p, to)) \ p.closed}
    BY <2>7, <2>8
  <2>12. ~(Earliest(p, from) >= Latest(p, to))
    BY <1>7, <2>9
  <2> QED BY <2>4, <2>10, <2>11, <2>12 DEF Generate, e
<1> QED BY <1>8, <1>9 DEF from, to

-----------------------------------------------------------------------------
(* mergeCandidatesBalanced() *)

(* In their order, the elements of a finite set of numbers are all listed. *)
LEMMA ChronologicalIs ==
  ASSUME NEW S, S \subseteq Int, IsFiniteSet(S)
  PROVE  /\ Cardinality(S) \in Nat
         /\ Chronological(S) \in [1 .. Cardinality(S) -> S]
         /\ \A i, j \in 1 .. Cardinality(S) : i < j => Chronological(S)[i] < Chronological(S)[j]
         /\ \A s \in S : \E i \in 1 .. Cardinality(S) : Chronological(S)[i] = s
<1> DEFINE n == Cardinality(S)
           below(s) == {t \in S : t < s}
           rank == [s \in S |-> Cardinality(below(s))]
           c == Chronological(S)
<1>1. n \in Nat
  BY FS_CardinalityType
<1>2. \A s \in S : IsFiniteSet(below(s)) /\ Cardinality(below(s)) \in Nat
  <2>1. \A s \in S : below(s) \in SUBSET S
    OBVIOUS
  <2> QED BY <2>1, FS_Subset, FS_CardinalityType
<1>3. \A s \in S : Cardinality(below(s)) \in 0 .. n - 1
  <2> TAKE s \in S
  <2>1. IsFiniteSet(S \ {s}) /\ Cardinality(S \ {s}) = n - 1
    BY FS_RemoveElement
  <2>2. below(s) \in SUBSET (S \ {s})
    OBVIOUS
  <2> HIDE DEF below
  <2>3. Cardinality(below(s)) <= n - 1
    BY <2>1, <2>2, FS_Subset
  <2> QED BY <1>1, <1>2, <2>3
<1>4. \A s, t \in S : s < t => Cardinality(below(s)) < Cardinality(below(t))
  <2> SUFFICES ASSUME NEW s \in S, NEW t \in S, s < t
               PROVE  Cardinality(below(s)) < Cardinality(below(t))
    OBVIOUS
  <2>1. below(s) \in SUBSET below(t) /\ s \in below(t) /\ s \notin below(s)
    <3>1. \A u \in S : u < s => u < t
      OBVIOUS
    <3>2. ~(s < s)
      OBVIOUS
    <3> QED BY <3>1, <3>2
  <2> HIDE DEF below
  <2>2. Cardinality(below(s)) <= Cardinality(below(t)) /\ Cardinality(below(s)) # Cardinality(below(t))
    BY <1>2, <2>1, FS_Subset
  <2> QED BY <1>2, <2>2
<1>5. rank \in [S -> 0 .. n - 1]
  BY <1>3
<1>6. \A s, t \in S : rank[s] = rank[t] => s = t
  <2> HIDE DEF below
  <2> SUFFICES ASSUME NEW s \in S, NEW t \in S, Cardinality(below(s)) = Cardinality(below(t)), s # t
               PROVE  FALSE
    OBVIOUS
  <2>1. s < t \/ t < s
    OBVIOUS
  <2> QED BY <1>2, <1>4, <2>1
<1> HIDE DEF rank
<1>7. rank \in Injection(S, 0 .. n - 1)
  BY <1>5, <1>6 DEF Injection, IsInjective
<1>8. IsFiniteSet(0 .. n - 1) /\ Cardinality(0 .. n - 1) = n
  <2>1. n - 1 \in Int /\ 0 \in Int
    BY <1>1
  <2>2. /\ IsFiniteSet(0 .. n - 1)
        /\ Cardinality(0 .. n - 1) = IF 0 > n - 1 THEN 0 ELSE n - 1 - 0 + 1
    BY <2>1, FS_Interval
  <2> HIDE DEF n
  <2> QED BY <1>1, <2>2
<1>9. rank \in Surjection(S, 0 .. n - 1)
  BY <1>7, <1>8, FS_Injection
<1>10. \A i \in 1 .. n : \E s \in S : Cardinality(below(s)) = i - 1
  <2> TAKE i \in 1 .. n
  <2>1. i - 1 \in 0 .. n - 1
    BY <1>1
  <2>2. \E s \in S : rank[s] = i - 1
    BY <1>9, <2>1 DEF Surjection
  <2> QED BY <2>2 DEF rank
<1>11. \A i \in 1 .. n : c[i] \in S /\ Cardinality(below(c[i])) = i - 1
  BY <1>10 DEF Chronological
<1>12. c \in [1 .. n -> S]
  <2>1. c = [i \in 1 .. n |-> c[i]]
    BY DEF Chronological
  <2> HIDE DEF c
  <2> QED BY <1>11, <2>1
<1>13. ASSUME NEW i \in 1 .. n, NEW j \in 1 .. n, i < j PROVE c[i] < c[j]
  <2>1. c[i] \in S /\ c[j] \in S /\ Cardinality(below(c[i])) < Cardinality(below(c[j]))
    BY <1>1, <1>11, <1>13
  <2> HIDE DEF c, below
  <2>2. PICK s \in S, t \in S : s = c[i] /\ t = c[j]
    BY <2>1
  <2>3. s \in Int /\ t \in Int /\ Cardinality(below(s)) < Cardinality(below(t))
    BY <2>1, <2>2
  <2>4. Cardinality(below(s)) \in Nat /\ Cardinality(below(t)) \in Nat
    BY <1>2
  <2>5. t < s => Cardinality(below(t)) < Cardinality(below(s))
    BY <1>4
  <2>6. s < t
    BY <2>3, <2>4, <2>5
  <2> QED BY <2>2, <2>6
<1>14. ASSUME NEW s \in S PROVE \E i \in 1 .. n : c[i] = s
  <2> DEFINE i == Cardinality(below(s)) + 1
  <2>1. i \in 1 .. n /\ i - 1 = Cardinality(below(s))
    <3> HIDE DEF below
    <3> QED BY <1>1, <1>3
  <2>2. c[i] \in S /\ Cardinality(below(c[i])) = i - 1
    BY <1>11, <2>1
  <2>3. c[i] = s
    <3>1. rank[c[i]] = rank[s]
      BY <2>1, <2>2 DEF rank
    <3> HIDE DEF c, i
    <3> QED BY <1>6, <2>2, <3>1
  <2> QED BY <2>1, <2>3
<1> HIDE DEF n, c
<1> QED BY <1>1, <1>12, <1>13, <1>14 DEF n, c

(* The targets of a check: one calendar, an attorney's or not, or those of *)
(* several attorneys.                                                      *)
PoolTargets == {[who |-> a, calendar |-> a] : a \in Attorney}
TargetsOK(targets) ==
  \/ targets \subseteq PoolTargets
  \/ \E who \in Attorney \cup {Nobody}, c \in Calendar :
       targets = {[who |-> who, calendar |-> c]}

Entries == [start : Int, who : Attorney \cup {Nobody}, calendar : Calendar]

LEMMA TargetIs ==
  ASSUME NEW targets, TargetsOK(targets), NEW r \in targets
  PROVE  r.who \in Attorney \cup {Nobody} /\ r.calendar \in Calendar
  BY DEF TargetsOK, PoolTargets, Calendar

LEMMA GivenIs ==
  ASSUME NEW T, NEW merged \in Seq(T), NEW who
  PROVE  Given(merged, who) \in Nat
<1>1. {i \in DOMAIN merged : merged[i].who = who} \subseteq 1 .. Len(merged)
  OBVIOUS
<1>2. IsFiniteSet({i \in DOMAIN merged : merged[i].who = who})
  BY <1>1, IntervalsAreFinite
<1> QED BY <1>2, FS_CardinalityType DEF Given

(* Of the free targets, one has fewest. *)
LEMMA SomeFewest ==
  ASSUME NEW targets, TargetsOK(targets), NEW free, free \subseteq targets, free # {},
         NEW T, NEW merged \in Seq(T)
  PROVE  Fewest(merged, free) # {} /\ Fewest(merged, free) \subseteq free
<1> DEFINE given(r) == Given(merged, r.who)
<1>1. \A r \in free : given(r) \in Nat
  BY GivenIs
<1> HIDE DEF given
<1>2. CASE \E who, c : targets = {[who |-> who, calendar |-> c]}
  <2>1. \A q, r \in free : r.who = q.who
    BY <1>2
  <2> QED BY <2>1 DEF Fewest
<1>3. CASE targets \subseteq PoolTargets
  <2>1. \A r \in free : r.who \in Nat
    BY <1>3, OffersAssumption DEF PoolTargets
  <2> DEFINE Counts == {given(r) : r \in free}
  <2>2. Counts \subseteq Nat /\ Counts # {}
    BY <1>1
  <2>3. PICK g \in Counts : \A k \in Counts : g <= k
    BY <2>2, LeastNat
  <2>4. g \in Nat /\ \A r \in free : g <= given(r)
    BY <2>2, <2>3
  <2> DEFINE Least == {r \in free : given(r) = g}
             Keys == {r.who : r \in Least}
  <2>5. Keys \subseteq Nat /\ Keys # {}
    BY <2>1, <2>3
  <2>6. PICK a \in Keys : \A b \in Keys : a <= b
    BY <2>5, LeastNat
  <2>7. PICK r \in Least : a = r.who
    BY <2>6
  <2>8. r \in free /\ given(r) = g
    BY <2>7
  <2>9. ASSUME NEW q \in free
        PROVE  r.who = q.who \/ given(r) < given(q) \/ (given(r) = given(q) /\ r.who < q.who)
    <3>1. r.who \in Nat /\ q.who \in Nat /\ given(r) \in Nat /\ given(q) \in Nat /\ given(r) <= given(q)
      BY <1>1, <2>1, <2>4, <2>8, <2>9
    <3>2. given(r) = given(q) => r.who <= q.who
      BY <2>6, <2>7, <2>8
    <3> QED BY <3>1, <3>2
  <2>10. r \in Fewest(merged, free)
    BY <2>8, <2>9 DEF Fewest, given
  <2> QED BY <2>10 DEF Fewest
<1> QED BY <1>2, <1>3 DEF TargetsOK

(* The k-th round of the merge gives the k-th start away. *)
Grow(slots, starts, f, k) ==
  IF k = 0 THEN <<>> ELSE Append(f[k - 1], Attributed(slots, f[k - 1], starts[k]))

Rounds(slots, starts, n, f) == f = [k \in 0 .. n |-> Grow(slots, starts, f, k)]

LEMMA MergeIs ==
  ASSUME NEW slots
  PROVE  LET starts == Chronological(Starts(slots))
         IN Merge(slots) = (CHOOSE f : Rounds(slots, starts, Len(starts), f))[Len(starts)]
  BY DEF Merge, Rounds, Grow

(* There are as many rounds as there are starts. *)
LEMMA RoundsExist ==
  ASSUME NEW slots, NEW starts, NEW n \in Nat
  PROVE  \E f : Rounds(slots, starts, n, f)
<1> DEFINE Bad == {k \in Nat : ~\E f : Rounds(slots, starts, k, f)}
<1>1. SUFFICES ASSUME Bad # {} PROVE FALSE
  OBVIOUS
<1>2. Bad \subseteq Nat
  OBVIOUS
<1>3. PICK k \in Bad : \A j \in Bad : k <= j
  BY <1>1, <1>2, LeastNat
<1>4. k \in Nat /\ ~\E f : Rounds(slots, starts, k, f)
  BY <1>3
<1>5. CASE k = 0
  <2> DEFINE f == [j \in 0 .. 0 |-> <<>>]
  <2>1. \A j \in 0 .. 0 : Grow(slots, starts, f, j) = <<>>
    BY DEF Grow
  <2> HIDE DEF f
  <2>2. [j \in 0 .. 0 |-> Grow(slots, starts, f, j)] = [j \in 0 .. 0 |-> <<>>]
    BY <2>1
  <2>3. Rounds(slots, starts, 0, f)
    BY <2>2 DEF Rounds, f
  <2> QED BY <1>4, <1>5, <2>3
<1>6. CASE k # 0
  <2>1. k - 1 \in Nat /\ k - 1 \notin Bad
    BY <1>3, <1>4, <1>6
  <2>2. PICK f : Rounds(slots, starts, k - 1, f)
    BY <2>1
  <2> DEFINE g == [j \in 0 .. k |-> IF j = k THEN Grow(slots, starts, f, k) ELSE f[j]]
  <2>3. \A j \in 0 .. k : g[j] = IF j = k THEN Grow(slots, starts, f, k) ELSE f[j]
    OBVIOUS
  <2>4. g = [j \in 0 .. k |-> g[j]]
    OBVIOUS
  <2> HIDE DEF g
  <2>5. \A j \in 0 .. k : g[j] = Grow(slots, starts, g, j)
    <3> TAKE j \in 0 .. k
    <3>1. j # 0 => j - 1 \in 0 .. k /\ j - 1 # k
      BY <1>4
    <3>2. Grow(slots, starts, g, j) = Grow(slots, starts, f, j)
      BY <2>3, <3>1 DEF Grow
    <3>3. j # k => j \in 0 .. k - 1
      BY <1>4
    <3>4. j # k => f[j] = Grow(slots, starts, f, j)
      BY <2>2, <3>3 DEF Rounds
    <3> QED BY <2>3, <3>2, <3>4
  <2>6. Rounds(slots, starts, k, g)
    BY <2>4, <2>5 DEF Rounds
  <2> QED BY <1>4, <2>6
<1> QED BY <1>5, <1>6

(* What a start is attributed to is free at it, and has fewest. *)
LEMMA AttributedIs ==
  ASSUME NEW slots, TargetsOK(DOMAIN slots), Starts(slots) \subseteq Int,
         NEW s \in Starts(slots), NEW merged \in Seq(Entries)
  PROVE  /\ Attributed(slots, merged, s) \in Entries
         /\ Attributed(slots, merged, s).start = s
         /\ \E r \in Fewest(merged, Free(slots, s)) :
              /\ r \in Free(slots, s)
              /\ Attributed(slots, merged, s).who = r.who
              /\ Attributed(slots, merged, s).calendar = r.calendar
<1> DEFINE r == CHOOSE r \in Fewest(merged, Free(slots, s)) : TRUE
           m == Attributed(slots, merged, s)
<1>1. Free(slots, s) \subseteq DOMAIN slots /\ Free(slots, s) # {}
  BY DEF Free, Starts
<1>2. Fewest(merged, Free(slots, s)) # {} /\ Fewest(merged, Free(slots, s)) \subseteq Free(slots, s)
  BY <1>1, SomeFewest
<1>3. r \in Fewest(merged, Free(slots, s)) /\ r \in Free(slots, s) /\ r \in DOMAIN slots
  BY <1>1, <1>2
<1>4. m = [start |-> s, who |-> r.who, calendar |-> r.calendar]
  BY DEF Attributed
<1> HIDE DEF r, m
<1>5. r.who \in Attorney \cup {Nobody} /\ r.calendar \in Calendar /\ s \in Int
  BY <1>3, TargetIs
<1>6. m \in Entries /\ m.start = s /\ m.who = r.who /\ m.calendar = r.calendar
  BY <1>4, <1>5 DEF Entries
<1> QED BY <1>3, <1>6 DEF m

(* After k rounds, k starts are given away, each by those before it.       *)
GivenAway(slots, starts, n, f) ==
  \A k \in 0 .. n :
    /\ f[k] \in Seq(Entries) /\ Len(f[k]) = k
    /\ \A i \in 1 .. k : f[k][i] = Attributed(slots, f[i - 1], starts[i])

LEMMA RoundsAre ==
  ASSUME NEW slots, TargetsOK(DOMAIN slots), Starts(slots) \subseteq Int,
         NEW n, n \in Nat, NEW starts, \A i \in 1 .. n : starts[i] \in Starts(slots),
         NEW f, Rounds(slots, starts, n, f)
  PROVE  GivenAway(slots, starts, n, f)
<1> DEFINE Good(j) == /\ f[j] \in Seq(Entries) /\ Len(f[j]) = j
                      /\ \A i \in 1 .. j : f[j][i] = Attributed(slots, f[i - 1], starts[i])
           Bad == {j \in 0 .. n : ~Good(j)}
<1>1. SUFFICES ASSUME Bad # {} PROVE FALSE
  BY DEF GivenAway
<1>2. Bad \subseteq Nat
  OBVIOUS
<1>3. PICK j \in Bad : \A i \in Bad : j <= i
  BY <1>1, <1>2, LeastNat
<1>4. j \in 0 .. n /\ ~Good(j)
  BY <1>3
<1>5. f[j] = Grow(slots, starts, f, j)
  BY <1>4 DEF Rounds
<1>6. CASE j = 0
  <2>1. f[j] = <<>>
    BY <1>5, <1>6 DEF Grow
  <2> QED BY <1>4, <1>6, <2>1
<1>7. CASE j # 0
  <2> DEFINE before == f[j - 1]
             m == Attributed(slots, before, starts[j])
  <2>1. j - 1 \in 0 .. n /\ j - 1 \notin Bad /\ j \in 1 .. n
    BY <1>3, <1>4, <1>7
  <2>2. Good(j - 1)
    BY <2>1
  <2>3. before \in Seq(Entries) /\ Len(before) = j - 1
        /\ \A i \in 1 .. j - 1 : before[i] = Attributed(slots, f[i - 1], starts[i])
    BY <2>2
  <2>4. m \in Entries
    BY <2>1, <2>3, AttributedIs
  <2>5. f[j] = Append(before, m)
    BY <1>5, <1>7 DEF Grow
  <2> HIDE DEF before, m
  <2>6. f[j] \in Seq(Entries) /\ Len(f[j]) = j /\ f[j][j] = m
        /\ \A i \in 1 .. j - 1 : f[j][i] = before[i]
    BY <2>1, <2>3, <2>4, <2>5
  <2>7. \A i \in 1 .. j : f[j][i] = Attributed(slots, f[i - 1], starts[i])
    <3> TAKE i \in 1 .. j
    <3>1. CASE i = j
      BY <2>6, <3>1 DEF m, before
    <3>2. CASE i # j
      <4>1. i \in 1 .. j - 1
        BY <2>1, <3>2
      <4> QED BY <2>3, <2>6, <4>1
    <3> QED BY <3>1, <3>2
  <2> QED BY <1>4, <2>6, <2>7
<1> QED BY <1>6, <1>7

(* The starts that were given to who before the i-th *)
GivenBefore(merged, who, i) == Cardinality({j \in 1 .. i - 1 : merged[j].who = who})

(* The merge lists every start once, in order, with a target that is free  *)
(* at it and, of those, has fewest so far.                                 *)
LEMMA MergeWorks ==
  ASSUME NEW slots, TargetsOK(DOMAIN slots),
         Starts(slots) \subseteq Int, IsFiniteSet(Starts(slots))
  PROVE  LET merged == Merge(slots)
             n == Len(merged)
         IN /\ merged \in Seq(Entries)
            /\ \A i, j \in 1 .. n : i < j => merged[i].start < merged[j].start
            /\ \A s \in Starts(slots) : \E i \in 1 .. n : merged[i].start = s
            /\ \A i \in 1 .. n : \E r \in DOMAIN slots :
                 /\ merged[i].start \in slots[r]
                 /\ merged[i].who = r.who /\ merged[i].calendar = r.calendar
                 /\ \A q \in DOMAIN slots : merged[i].start \in slots[q] =>
                      r.who = q.who \/ GivenBefore(merged, r.who, i) <= GivenBefore(merged, q.who, i)
<1> DEFINE starts == Chronological(Starts(slots))
           n == Cardinality(Starts(slots))
           merged == Merge(slots)
<1>1. /\ n \in Nat /\ starts \in [1 .. n -> Starts(slots)]
      /\ \A i, j \in 1 .. n : i < j => starts[i] < starts[j]
      /\ \A s \in Starts(slots) : \E i \in 1 .. n : starts[i] = s
  BY ChronologicalIs
<1>2. Len(starts) = n
  <2> HIDE DEF n, starts
  <2>1. starts \in Seq(Starts(slots)) /\ DOMAIN starts = 1 .. n
    BY <1>1
  <2> QED BY <1>1, <2>1
<1>3. \E f : Rounds(slots, starts, n, f)
  <2> HIDE DEF starts, n
  <2> QED BY <1>1, RoundsExist
<1>4. PICK f : Rounds(slots, starts, n, f) /\ merged = f[n]
  <2> HIDE DEF n
  <2>1. merged = (CHOOSE f : Rounds(slots, starts, n, f))[n]
    BY <1>2, MergeIs
  <2> HIDE DEF starts, merged
  <2> QED BY <1>3, <2>1
<1> HIDE DEF starts, n, merged
<1>5. GivenAway(slots, starts, n, f)
  <2>1. n \in Nat /\ \A i \in 1 .. n : starts[i] \in Starts(slots)
    BY <1>1
  <2> QED BY <1>4, <2>1, RoundsAre
<1>6. merged \in Seq(Entries) /\ Len(merged) = n
        /\ \A i \in 1 .. n : merged[i] = Attributed(slots, f[i - 1], starts[i])
  <2>1. n \in 0 .. n
    BY <1>1
  <2> QED BY <1>4, <1>5, <2>1 DEF GivenAway
<1>7. ASSUME NEW i \in 1 .. n
      PROVE  /\ merged[i].start = starts[i]
             /\ \E r \in DOMAIN slots :
                  /\ merged[i].start \in slots[r]
                  /\ merged[i].who = r.who /\ merged[i].calendar = r.calendar
                  /\ \A q \in DOMAIN slots : merged[i].start \in slots[q] =>
                      r.who = q.who \/ GivenBefore(merged, r.who, i) <= GivenBefore(merged, q.who, i)
  <2> DEFINE sofar == f[i - 1]
             s == starts[i]
  <2>1. i - 1 \in 0 .. n /\ i \in Nat /\ \A j \in 1 .. i - 1 : j \in 1 .. n
    BY <1>1
  <2>2. sofar \in Seq(Entries) /\ Len(sofar) = i - 1
    BY <1>5, <2>1 DEF GivenAway
  <2>3. \A j \in 1 .. i - 1 : sofar[j] = merged[j]
    BY <1>5, <1>6, <2>1 DEF GivenAway
  <2>4. s \in Starts(slots) /\ merged[i] = Attributed(slots, sofar, s)
    BY <1>1, <1>6
  <2> HIDE DEF sofar, s
  <2>5. /\ merged[i].start = s
        /\ \E r \in Fewest(sofar, Free(slots, s)) :
             r \in Free(slots, s) /\ merged[i].who = r.who /\ merged[i].calendar = r.calendar
    BY <2>2, <2>4, AttributedIs
  <2>6. PICK r \in Fewest(sofar, Free(slots, s)) :
          r \in Free(slots, s) /\ merged[i].who = r.who /\ merged[i].calendar = r.calendar
    BY <2>5
  <2>7. ASSUME NEW who PROVE Given(sofar, who) = GivenBefore(merged, who, i)
    <3>1. DOMAIN sofar = 1 .. i - 1
      BY <2>1, <2>2
    <3>2. {j \in DOMAIN sofar : sofar[j].who = who} = {j \in 1 .. i - 1 : merged[j].who = who}
      BY <2>3, <3>1
    <3> QED BY <3>2 DEF Given, GivenBefore
  <2>8. ASSUME NEW q \in Free(slots, s)
        PROVE  r.who = q.who \/ GivenBefore(merged, r.who, i) <= GivenBefore(merged, q.who, i)
    <3>1. r.who = q.who \/ Given(sofar, r.who) < Given(sofar, q.who) \/ Given(sofar, r.who) = Given(sofar, q.who)
      BY <2>6 DEF Fewest
    <3>2. Given(sofar, r.who) \in Nat /\ Given(sofar, q.who) \in Nat
      BY <2>2, GivenIs
    <3>3. Given(sofar, r.who) = GivenBefore(merged, r.who, i) /\ Given(sofar, q.who) = GivenBefore(merged, q.who, i)
      BY <2>7
    <3> QED BY <3>1, <3>2, <3>3
  <2>9. \A q \in DOMAIN slots : q \in Free(slots, s) <=> s \in slots[q]
    BY DEF Free
  <2>10. r \in DOMAIN slots /\ s \in slots[r]
    BY <2>6 DEF Free
  <2> QED BY <2>5, <2>6, <2>8, <2>9, <2>10 DEF s
<1>8. \A i, j \in 1 .. n : i < j => merged[i].start < merged[j].start
  BY <1>1, <1>7
<1>9. \A s \in Starts(slots) : \E i \in 1 .. n : merged[i].start = s
  BY <1>1, <1>7
<1> QED BY <1>6, <1>7, <1>8, <1>9 DEF merged

-----------------------------------------------------------------------------
(* selectSlots() *)

LEMMA RanksAre ==
  ASSUME NEW p \in Policies, NEW m
  PROVE  /\ Preferred(p, m) \cup {26} \subseteq Int
         /\ Preferred(p, m) \cup {26} # {} /\ IsFiniteSet(Preferred(p, m) \cup {26})
<1> DEFINE ranks == Preferred(p, m)
           last == Len(p.first)
<1>1. ranks \subseteq 1 .. last /\ last \in Int
  BY PolicyOK DEF Preferred
<1> HIDE DEF ranks, last
<1>2. 1 \in Int
  OBVIOUS
<1>3. IsFiniteSet(ranks) /\ ranks \subseteq Int
  BY <1>1, <1>2, IntervalsAreFinite
<1>4. IsFiniteSet(ranks \cup {26}) /\ ranks \cup {26} \subseteq Int
  BY <1>3, FS_AddElement
<1> QED BY <1>4 DEF ranks

LEMMA PointsAre ==
  ASSUME NEW p \in Policies, NEW m
  PROVE  Points(p, m) \in Int
<1>1. Min(Preferred(p, m) \cup {26}) \in Int
  BY RanksAre, MinIs
<1> QED BY <1>1 DEF Points

(* A target ranked as early by the preferred attorneys has as many points. *)
LEMMA PointsByRank ==
  ASSUME NEW p \in Policies, NEW m, NEW n,
         \A i \in Preferred(p, m) : \E j \in Preferred(p, n) : j <= i
  PROVE  Points(p, n) >= Points(p, m)
<1> DEFINE ranks(c) == Preferred(p, c) \cup {26}
<1>1. \A c : ranks(c) \subseteq Int /\ ranks(c) # {} /\ IsFiniteSet(ranks(c))
  BY RanksAre
<1>2. \A i \in ranks(m) : \E j \in ranks(n) : j <= i
  OBVIOUS
<1>3. \A c : 26 \in ranks(c)
  OBVIOUS
<1>4. \A c : Points(p, c) = IF Preferred(p, c) = {} THEN 0 ELSE 51 - Min(ranks(c))
  BY DEF Points
<1> HIDE DEF ranks
<1>5. Min(ranks(m)) \in ranks(m) /\ Min(ranks(n)) \in ranks(n)
        /\ (\A j \in ranks(n) : Min(ranks(n)) <= j)
  BY <1>1, MinIs
<1>6. Min(ranks(m)) \in Int /\ Min(ranks(n)) \in Int /\ Min(ranks(n)) <= 26
  BY <1>1, <1>3, <1>5
<1>7. Min(ranks(n)) <= Min(ranks(m))
  <2>1. PICK j \in ranks(n) : j <= Min(ranks(m))
    BY <1>2, <1>5
  <2>2. j \in Int /\ Min(ranks(n)) <= j
    BY <1>1, <1>5
  <2> QED BY <1>6, <2>1, <2>2
<1>8. CASE Preferred(p, m) = {}
  BY <1>4, <1>6, <1>8
<1>9. CASE Preferred(p, m) # {}
  <2>1. Preferred(p, n) # {}
    BY <1>9
  <2> QED BY <1>4, <1>6, <1>7, <1>9, <2>1
<1> QED BY <1>8, <1>9

LEMMA ScoreIs ==
  ASSUME NEW z, NEW p \in Policies, NEW m
  PROVE  Score(z, p, m) \in Int
  BY PointsAre DEF Score

(* The ranking is a strict order. *)
LEMMA BeforeIsAnOrder ==
  ASSUME NEW z, NEW p \in Policies,
         NEW l, NEW m, NEW n, {l.start, m.start, n.start} \subseteq Int
  PROVE  /\ ~Before(z, p, m, m)
         /\ Before(z, p, l, m) /\ Before(z, p, m, n) => Before(z, p, l, n)
<1> DEFINE score(c) == Score(z, p, c)
<1>1. score(l) \in Int /\ score(m) \in Int /\ score(n) \in Int
  BY ScoreIs
<1>2. l.start \in Int /\ m.start \in Int /\ n.start \in Int
  OBVIOUS
<1>3. \A c, e : Before(z, p, c, e) <=> score(c) > score(e) \/ (score(c) = score(e) /\ c.start < e.start)
  BY DEF Before
<1> HIDE DEF score
<1> QED BY <1>1, <1>2, <1>3

(* Who precedes an earlier one precedes a later one, and so does that one. *)
LEMMA FewerBefore ==
  ASSUME NEW z, NEW p \in Policies, NEW slots, IsFiniteSet(slots),
         \A c \in slots : c.start \in Int, NEW m \in slots, NEW n \in slots, Before(z, p, n, m)
  PROVE  /\ Cardinality({c \in slots : Before(z, p, c, n)}) \in Nat
         /\ Cardinality({c \in slots : Before(z, p, c, m)}) \in Nat
         /\ Cardinality({c \in slots : Before(z, p, c, n)})
              < Cardinality({c \in slots : Before(z, p, c, m)})
<1> DEFINE before(x) == {c \in slots : Before(z, p, c, x)}
<1>1. before(n) \in SUBSET before(m) /\ n \in before(m) /\ n \notin before(n)
  BY BeforeIsAnOrder
<1>2. before(m) \in SUBSET slots /\ before(n) \in SUBSET slots
  OBVIOUS
<1> HIDE DEF before
<1>3. IsFiniteSet(before(m)) /\ IsFiniteSet(before(n))
  BY <1>2, FS_Subset
<1>4. Cardinality(before(m)) \in Nat /\ Cardinality(before(n)) \in Nat
  BY <1>3, FS_CardinalityType
<1>5. Cardinality(before(n)) <= Cardinality(before(m)) /\ Cardinality(before(n)) # Cardinality(before(m))
  BY <1>1, <1>3, FS_Subset
<1>6. Cardinality(before(n)) < Cardinality(before(m))
  BY <1>4, <1>5
<1> QED BY <1>4, <1>6 DEF before

(* No slot before one of the best is left out. *)
LEMMA BestIsClosed ==
  ASSUME NEW z, NEW p \in Policies, NEW slots, IsFiniteSet(slots),
         \A c \in slots : c.start \in Int,
         NEW m \in Best(z, p, slots), NEW n \in slots, Before(z, p, n, m)
  PROVE  n \in Best(z, p, slots)
<1>1. m \in slots /\ Cardinality({c \in slots : Before(z, p, c, m)}) < Limit
  BY DEF Best
<1>2. /\ Cardinality({c \in slots : Before(z, p, c, n)}) \in Nat
      /\ Cardinality({c \in slots : Before(z, p, c, m)}) \in Nat
      /\ Cardinality({c \in slots : Before(z, p, c, n)}) < Cardinality({c \in slots : Before(z, p, c, m)})
  BY <1>1, FewerBefore
<1>3. Limit \in Nat
  BY OffersAssumption
<1>4. Cardinality({c \in slots : Before(z, p, c, n)}) < Limit
  BY <1>1, <1>2, <1>3
<1> QED BY <1>4 DEF Best

(* Of some slots, one is offered. *)
LEMMA SomeBest ==
  ASSUME NEW z, NEW p \in Policies, NEW slots, IsFiniteSet(slots), slots # {},
         \A c \in slots : c.start \in Int
  PROVE  Best(z, p, slots) # {}
<1> DEFINE before(x) == {c \in slots : Before(z, p, c, x)}
           Sizes == {Cardinality(before(x)) : x \in slots}
<1>1. \A x \in slots : Cardinality(before(x)) \in Nat
  <2> TAKE x \in slots
  <2>1. before(x) \in SUBSET slots
    OBVIOUS
  <2> HIDE DEF before
  <2> QED BY <2>1, FS_Subset, FS_CardinalityType
<1>2. Sizes \subseteq Nat /\ Sizes # {}
  BY <1>1
<1>3. PICK k \in Sizes : \A l \in Sizes : k <= l
  BY <1>2, LeastNat
<1>4. PICK m \in slots : k = Cardinality(before(m))
  BY <1>3
<1>5. \A x \in slots : k <= Cardinality(before(x))
  BY <1>3
<1>6. ASSUME NEW n \in slots, Before(z, p, n, m) PROVE FALSE
  <2>1. Cardinality(before(n)) < Cardinality(before(m))
    BY <1>4, <1>6, FewerBefore
  <2>2. Cardinality(before(m)) <= Cardinality(before(n))
    BY <1>4, <1>5, <1>6
  <2>3. Cardinality(before(n)) \in Nat /\ Cardinality(before(m)) \in Nat
    BY <1>1, <1>4, <1>6
  <2> QED BY <2>1, <2>2, <2>3
<1>7. {c \in slots : Before(z, p, c, m)} = {}
  BY <1>6
<1>8. Cardinality({c \in slots : Before(z, p, c, m)}) = 0
  BY <1>7, FS_EmptySet
<1>9. 0 < Limit
  BY OffersAssumption
<1> QED BY <1>4, <1>8, <1>9 DEF Best

(* A slot as good to every preference and earlier is before another.       *)
LEMMA AsGoodAndEarlier ==
  ASSUME NEW z, NEW p \in Policies, NEW m, NEW n, n.start < m.start,
         \A i \in Preferred(p, m) : \E j \in Preferred(p, n) : j <= i,
         PreferredDay(z, p, m) => PreferredDay(z, p, n),
         PreferredHalf(z, p, m) => PreferredHalf(z, p, n)
  PROVE  Before(z, p, n, m)
<1> DEFINE day(c) == IF PreferredDay(z, p, c) THEN 20 ELSE 0
           half(c) == IF PreferredHalf(z, p, c) THEN 20 ELSE 0
<1>1. Points(p, n) \in Int /\ Points(p, m) \in Int /\ Points(p, n) >= Points(p, m)
  BY PointsAre, PointsByRank
<1>2. day(n) \in Int /\ half(n) \in Int /\ day(m) \in Int /\ half(m) \in Int
  OBVIOUS
<1>3. day(n) >= day(m) /\ half(n) >= half(m)
  OBVIOUS
<1>4. /\ Score(z, p, n) = Points(p, n) + day(n) + half(n)
      /\ Score(z, p, m) = Points(p, m) + day(m) + half(m)
  BY DEF Score
<1> HIDE DEF day, half
<1>5. Score(z, p, n) > Score(z, p, m) \/ Score(z, p, n) = Score(z, p, m)
  BY <1>1, <1>2, <1>3, <1>4
<1> QED BY <1>5 DEF Before

-----------------------------------------------------------------------------
(* What a check generates, merges and offers *)

(* The facts of a check that its handlers rely on, its reads included. *)
CheckOK(chk) ==
  /\ chk = [pc |-> chk.pc, req |-> chk.req, targets |-> chk.targets, hours |-> chk.hours,
            seen |-> chk.seen, offices |-> chk.offices, offer |-> chk.offer]
  /\ chk.pc \in {"reading", "answered"}
  /\ chk.req \in Requests /\ TargetsOK(chk.targets)
  /\ chk.hours \in [chk.targets -> SUBSET Window]
  /\ chk.seen = [r \in chk.targets |-> chk.seen[r]]
  /\ \A r \in chk.targets :
       chk.req.kind = "feed" /\ chk.seen[r] # Nobody => chk.seen[r] \subseteq Int

HasRead(chk) == \A r \in chk.targets : chk.seen[r] # Nobody

LEMMA RequestOK ==
  ASSUME NEW req \in Requests
  PROVE  /\ req.kind \in {"native", "feed", "move"} /\ req.attorney \in Attorney \cup {Nobody}
         /\ req.days \in Int \X Int /\ req.days[1] \in Int /\ req.days[2] + 1 \in Int
<1>1. /\ req.kind \in {"native", "feed", "move"} /\ req.attorney \in Attorney \cup {Nobody}
      /\ req.days \in Int \X Int
  BY RoutingsAssumption
<1> QED BY <1>1

LEMMA WindowIs ==
  ASSUME NEW z, ZoneOK(z), NEW req \in Requests
  PROVE  From(z, req) \in Int /\ To(z, req) \in Int
<1>1. ASSUME NEW d \in Int PROVE Midnight(z, d) \in Int
  <2> DEFINE lo == d * Day
             g1 == lo - Offset(z, lo)
             g2 == lo - Offset(z, g1)
             g3 == lo - Offset(z, g2)
  <2>1. lo \in Int
    BY DayOK
  <2>2. Midnight(z, d) = g3
    BY DEF Midnight
  <2> HIDE DEF lo
  <2>3. g1 \in Int
    BY <2>1, Clock
  <2> HIDE DEF g1
  <2>4. g2 \in Int
    BY <2>1, <2>3, Clock
  <2> HIDE DEF g2
  <2>5. g3 \in Int
    BY <2>1, <2>4, Clock
  <2> QED BY <2>2, <2>5
<1>2. req.days[1] \in Int /\ req.days[2] + 1 \in Int
  BY RequestOK
<1> QED BY <1>1, <1>2 DEF From, To

(* The slots of a target are in the window asked for. *)
LEMMA SlotsInWindow ==
  ASSUME NEW z, ZoneOK(z), NEW p \in Policies, NEW req \in Requests,
         NEW hours, hours \subseteq Window, NEW seen, req.kind = "feed" => seen \subseteq Int
  PROVE  SlotsOf(z, p, req, hours, seen) \subseteq From(z, req) .. To(z, req)
<1> DEFINE from == From(z, req)
           to == To(z, req)
<1>1. from \in Int /\ to \in Int
  BY WindowIs
<1>2. CASE req.kind = "feed"
  <2>1. SlotsOf(z, p, req, hours, seen) = {s \in seen : s >= from /\ s < to} /\ seen \subseteq Int
    BY <1>2 DEF SlotsOf, InWindow
  <2> HIDE DEF from, to
  <2>2. \A s \in seen : s >= from /\ s < to => s \in from .. to
    <3> TAKE s \in seen
    <3>1. s \in Int
      BY <2>1
    <3> QED BY <1>1, <3>1
  <2> QED BY <2>1, <2>2 DEF from, to
<1>3. CASE req.kind # "feed"
  <2> DEFINE slots == Generate(z, p, hours, seen, from, to)
  <2>1. SlotsOf(z, p, req, hours, seen) \subseteq slots
    BY <1>3 DEF SlotsOf
  <2> HIDE DEF from, to
  <2>2. \A s \in slots : s \in Int /\ s >= Earliest(p, from) /\ s + p.duration <= Latest(p, to)
    BY <1>1, GeneratedIs
  <2> HIDE DEF slots
  <2>3. ASSUME NEW s \in slots PROVE s \in from .. to
    <3>1. p.duration \in Nat /\ s \in Int /\ s + p.duration \in Int
      BY <2>2, PolicyOK
    <3>2. s >= from /\ s + p.duration <= to
      BY <1>1, <2>2, <3>1, Bounds
    <3> QED BY <1>1, <3>1, <3>2
  <2> QED BY <2>1, <2>3 DEF from, to
<1> QED BY <1>2, <1>3

LEMMA SlotsSeenAre ==
  ASSUME NEW z, ZoneOK(z), NEW p \in Policies, NEW chk, CheckOK(chk), HasRead(chk)
  PROVE  LET slots == SlotsSeen(z, p, chk)
         IN /\ DOMAIN slots = chk.targets /\ TargetsOK(DOMAIN slots)
            /\ \A r \in chk.targets :
                 slots[r] = SlotsOf(z, p, chk.req, chk.hours[r], chk.seen[r])
            /\ Starts(slots) \subseteq Int /\ IsFiniteSet(Starts(slots))
<1> DEFINE slots == SlotsSeen(z, p, chk)
           from == From(z, chk.req)
           to == To(z, chk.req)
<1>1. /\ DOMAIN slots = chk.targets
      /\ \A r \in chk.targets : slots[r] = SlotsOf(z, p, chk.req, chk.hours[r], chk.seen[r])
  BY DEF SlotsSeen
<1>2. /\ chk.req \in Requests /\ TargetsOK(chk.targets)
      /\ \A r \in chk.targets : chk.hours[r] \subseteq Window
      /\ \A r \in chk.targets : chk.req.kind = "feed" => chk.seen[r] \subseteq Int
  BY DEF CheckOK, HasRead
<1>3. from \in Int /\ to \in Int
  BY <1>2, WindowIs
<1> HIDE DEF slots
<1>4. \A r \in chk.targets : slots[r] \subseteq from .. to
  BY <1>1, <1>2, SlotsInWindow
<1> HIDE DEF from, to
<1>5. Starts(slots) \subseteq from .. to
  BY <1>1, <1>4 DEF Starts
<1>6. Starts(slots) \subseteq Int /\ IsFiniteSet(Starts(slots))
  BY <1>3, <1>5, IntervalsAreFinite
<1> QED BY <1>1, <1>2, <1>6 DEF slots

Merged(z, p, chk) == Merge(SlotsSeen(z, p, chk))

(* What a check merges, in its own terms *)
LEMMA MergedIs ==
  ASSUME NEW z, ZoneOK(z), NEW p \in Policies, NEW chk, CheckOK(chk), HasRead(chk)
  PROVE  LET slots == SlotsSeen(z, p, chk)
             merged == Merged(z, p, chk)
             n == Len(merged)
         IN /\ n \in Nat /\ DOMAIN merged = 1 .. n /\ merged \in Seq(Entries)
            /\ \A i \in 1 .. n : merged[i].start \in Int
            /\ \A i, j \in 1 .. n : i < j => merged[i].start < merged[j].start
            /\ \A r \in chk.targets : \A s \in slots[r] : \E i \in 1 .. n : merged[i].start = s
            /\ \A i \in 1 .. n : \E r \in chk.targets :
                 /\ merged[i].start \in slots[r]
                 /\ merged[i].who = r.who /\ merged[i].calendar = r.calendar
                 /\ \A q \in chk.targets : merged[i].start \in slots[q] =>
                      r.who = q.who \/ GivenBefore(merged, r.who, i) <= GivenBefore(merged, q.who, i)
            /\ ToSet(merged) = {merged[i] : i \in 1 .. n}
            /\ IsFiniteSet(ToSet(merged))
<1> DEFINE slots == SlotsSeen(z, p, chk)
           merged == Merged(z, p, chk)
           n == Len(merged)
<1>1. /\ DOMAIN slots = chk.targets /\ TargetsOK(DOMAIN slots)
      /\ Starts(slots) \subseteq Int /\ IsFiniteSet(Starts(slots))
  BY SlotsSeenAre
<1>2. merged = Merge(slots)
  BY DEF Merged
<1> HIDE DEF slots, merged
<1>3. /\ merged \in Seq(Entries)
      /\ \A i, j \in 1 .. n : i < j => merged[i].start < merged[j].start
      /\ \A s \in Starts(slots) : \E i \in 1 .. n : merged[i].start = s
      /\ \A i \in 1 .. n : \E r \in chk.targets :
           /\ merged[i].start \in slots[r]
           /\ merged[i].who = r.who /\ merged[i].calendar = r.calendar
           /\ \A q \in chk.targets : merged[i].start \in slots[q] =>
                r.who = q.who \/ GivenBefore(merged, r.who, i) <= GivenBefore(merged, q.who, i)
  BY <1>1, <1>2, MergeWorks
<1>4. n \in Nat /\ DOMAIN merged = 1 .. n /\ \A i \in 1 .. n : merged[i] \in Entries
  BY <1>3
<1> HIDE DEF n
<1>5. \A i \in 1 .. n : merged[i].start \in Int
  BY <1>4 DEF Entries
<1>6. \A r \in chk.targets : \A s \in slots[r] : \E i \in 1 .. n : merged[i].start = s
  BY <1>1, <1>3 DEF Starts
<1>7. ToSet(merged) = {merged[i] : i \in 1 .. n}
  BY <1>4 DEF ToSet
<1>8. IsFiniteSet(ToSet(merged))
  <2> DEFINE f == [i \in 1 .. n |-> merged[i]]
  <2>1. f \in Surjection(1 .. n, ToSet(merged))
    BY <1>7 DEF Surjection
  <2>2. IsFiniteSet(1 .. n)
    BY <1>4, FS_Interval
  <2> QED BY <2>1, <2>2, FS_Surjection
<1> QED BY <1>3, <1>4, <1>5, <1>6, <1>7, <1>8 DEF slots, merged, n

(* The last start of an attorney that another was free at as well was his  *)
(* because he had no more than the other.                                  *)
LEMMA SpreadEvenly ==
  ASSUME NEW z, ZoneOK(z), NEW p \in Policies, NEW chk, CheckOK(chk), HasRead(chk),
         NEW q \in chk.targets, NEW r \in chk.targets,
         Given(Merged(z, p, chk), r.who) > Given(Merged(z, p, chk), q.who) + 1
  PROVE  Max({m.start : m \in {n \in ToSet(Merged(z, p, chk)) : n.who = r.who}})
           \notin SlotsSeen(z, p, chk)[q]
<1> DEFINE slots == SlotsSeen(z, p, chk)
           merged == Merged(z, p, chk)
           n == Len(merged)
           own(who) == {i \in 1 .. n : merged[i].who = who}
           starts == {m.start : m \in {e \in ToSet(merged) : e.who = r.who}}
<1>1. /\ n \in Nat /\ DOMAIN merged = 1 .. n /\ merged \in Seq(Entries)
      /\ \A i \in 1 .. n : merged[i].start \in Int
      /\ \A i, j \in 1 .. n : i < j => merged[i].start < merged[j].start
      /\ \A i \in 1 .. n : \E t \in chk.targets :
           /\ merged[i].start \in slots[t]
           /\ merged[i].who = t.who /\ merged[i].calendar = t.calendar
           /\ \A u \in chk.targets : merged[i].start \in slots[u] =>
                t.who = u.who \/ GivenBefore(merged, t.who, i) <= GivenBefore(merged, u.who, i)
      /\ ToSet(merged) = {merged[i] : i \in 1 .. n}
      /\ IsFiniteSet(ToSet(merged))
  BY MergedIs
<1> HIDE DEF slots, merged, n
<1>2. \A who : Given(merged, who) \in Nat /\ Given(merged, who) = Cardinality(own(who))
  <2> TAKE who
  <2>1. Given(merged, who) \in Nat
    BY <1>1, GivenIs
  <2>2. {i \in DOMAIN merged : merged[i].who = who} = own(who)
    BY <1>1
  <2> QED BY <2>1, <2>2 DEF Given
<1>3. \A who : own(who) \in SUBSET (1 .. n) /\ IsFiniteSet(own(who))
  BY <1>1, FS_Interval, FS_Subset
<1>4. starts = {merged[i].start : i \in own(r.who)}
  <2>1. \A e : e \in ToSet(merged) /\ e.who = r.who <=> \E i \in own(r.who) : e = merged[i]
    BY <1>1
  <2>2. {e \in ToSet(merged) : e.who = r.who} = {merged[i] : i \in own(r.who)}
    BY <2>1
  <2> HIDE DEF own
  <2> QED BY <2>2
<1>5. own(r.who) # {}
  <2>1. Given(merged, r.who) > 0
    BY <1>2 DEF merged
  <2> HIDE DEF own
  <2> QED BY <1>2, <2>1, FS_EmptySet
<1>6. starts \subseteq Int /\ starts # {}
  BY <1>1, <1>4, <1>5
<1>7. IsFiniteSet(starts)
  <2> DEFINE f == [i \in own(r.who) |-> merged[i].start]
  <2>1. f \in Surjection(own(r.who), starts)
    <3> HIDE DEF own, starts
    <3> QED BY <1>4 DEF Surjection
  <2>2. IsFiniteSet(own(r.who))
    BY <1>3
  <2> HIDE DEF f, own, starts
  <2> QED BY <2>1, <2>2, FS_Surjection
<1> HIDE DEF starts
<1>8. Max(starts) \in starts /\ \A s \in starts : s <= Max(starts)
  BY <1>6, <1>7, MaxIs
<1>9. PICK i \in own(r.who) : Max(starts) = merged[i].start
  BY <1>4, <1>8
<1>10. i \in 1 .. n /\ merged[i].who = r.who
  BY <1>9
<1>11. \A j \in own(r.who) : j <= i
  <2> TAKE j \in own(r.who)
  <2>1. j \in 1 .. n /\ merged[j].start \in starts
    BY <1>4
  <2>2. merged[j].start <= merged[i].start
    BY <1>8, <1>9, <2>1
  <2>3. i < j => merged[i].start < merged[j].start
    BY <1>1, <1>10, <2>1
  <2>4. merged[i].start \in Int /\ merged[j].start \in Int
    BY <1>1, <1>10, <2>1
  <2> QED BY <1>10, <2>1, <2>2, <2>3, <2>4
<1> DEFINE earlier(who) == {j \in 1 .. i - 1 : merged[j].who = who}
<1>12. \A who : earlier(who) \in SUBSET own(who) /\ IsFiniteSet(earlier(who))
  <2>1. \A who : earlier(who) \in SUBSET own(who)
    BY <1>1, <1>10
  <2> HIDE DEF earlier, own
  <2> QED BY <1>3, <2>1, FS_Subset
<1>13. own(r.who) = earlier(r.who) \cup {i} /\ i \notin earlier(r.who)
  BY <1>10, <1>11, <1>1
<1>14. \A who : GivenBefore(merged, who, i) = Cardinality(earlier(who))
  BY DEF GivenBefore
<1> HIDE DEF own, earlier
<1>15. \A who : Cardinality(earlier(who)) \in Nat
  BY <1>12, FS_CardinalityType
<1>16. Given(merged, r.who) = Cardinality(earlier(r.who)) + 1
  BY <1>2, <1>12, <1>13, FS_AddElement
<1>17. Cardinality(earlier(q.who)) <= Given(merged, q.who)
  BY <1>2, <1>3, <1>12, FS_Subset
<1>18. Given(merged, r.who) > Given(merged, q.who) + 1
  BY DEF merged
<1>19. ASSUME merged[i].start \in slots[q] PROVE FALSE
  <2>1. PICK t \in chk.targets :
          /\ merged[i].who = t.who
          /\ \A u \in chk.targets : merged[i].start \in slots[u] =>
               t.who = u.who \/ GivenBefore(merged, t.who, i) <= GivenBefore(merged, u.who, i)
    BY <1>1, <1>10
  <2>2. r.who = q.who \/ Cardinality(earlier(r.who)) <= Cardinality(earlier(q.who))
    BY <1>10, <1>14, <1>19, <2>1
  <2>3. r.who # q.who
    BY <1>2, <1>18
  <2> QED BY <1>2, <1>15, <1>16, <1>17, <1>18, <2>2, <2>3
<1> QED BY <1>9, <1>19 DEF starts, slots, merged

-----------------------------------------------------------------------------
(* Every check has its targets and their hours from the configuration,     *)
(* and an answer is the best of what its reads, all of them made, leave    *)
(* and the office hours it was judged by admit.                            *)
Offered(z, p, chk) ==
  Best(z, p, {m \in ToSet(Merged(z, p, chk)) : Within(z, p, m.start, chk.offices)})

OffersInv ==
  /\ deployed \in [zone : Zones, policy : Policies, routing : Routings]
  /\ offices \in SUBSET Hours
  /\ check.pc = "idle" \/ CheckOK(check)
  /\ check.pc = "answered" => HasRead(check) /\ check.offer = Offered(zone, policy, check)

(* resolveSchedulingTarget() has one calendar or those of attorneys, and a *)
(* move has the calendar of its row.                                       *)
LEMMA TargetsForOK ==
  ASSUME OffersInv, NEW req \in Requests
  PROVE  TargetsOK(TargetsFor(req))
<1>1. routing.bound \subseteq Attorney /\ routing.members \subseteq Attorney
      /\ routing.calendars \subseteq {Shared, Default}
  BY RoutingsAssumption DEF OffersInv, routing
<1>2. ASSUME NEW who PROVE Attorneys(who) \subseteq PoolTargets
  BY <1>1 DEF Attorneys, PoolTargets
<1>3. TargetsOK({})
  BY DEF TargetsOK
<1>4. TargetsOK({[who |-> Nobody, calendar |-> Shared]})
  BY DEF TargetsOK, Calendar
<1>5. TargetsOK({[who |-> Nobody, calendar |-> c] : c \in {Default} \cap routing.calendars})
  <2>1. CASE Default \in routing.calendars
    <3>1. {[who |-> Nobody, calendar |-> c] : c \in {Default} \cap routing.calendars}
            = {[who |-> Nobody, calendar |-> Default]}
      BY <2>1
    <3> QED BY <3>1 DEF TargetsOK, Calendar
  <2>2. CASE Default \notin routing.calendars
    <3>1. {[who |-> Nobody, calendar |-> c] : c \in {Default} \cap routing.calendars} = {}
      BY <2>2
    <3> QED BY <3>1, <1>3
  <2> QED BY <2>1, <2>2
<1>6. \A who : TargetsOK(Attorneys(who))
  BY <1>2 DEF TargetsOK
<1>7. TargetsOK(Targets(req))
  BY <1>3, <1>4, <1>5, <1>6 DEF Targets
<1>8. ASSUME req.kind = "move"
      PROVE  TargetsOK({TargetOfRow(req)})
  <2>1. req.attorney \in Attorney \cup {Nobody} /\ req.calendar \in Calendar
    BY <1>8, RoutingsAssumption
  <2> QED BY <2>1 DEF TargetsOK, TargetOfRow
<1> QED BY <1>3, <1>7, <1>8 DEF TargetsFor

(* resolveHoursForTarget() has weekly hours. *)
LEMMA HoursOfOK ==
  ASSUME OffersInv, NEW who
  PROVE  HoursOf(who) \in SUBSET Window
<1>1. policy.own \in [Attorney -> SUBSET Window]
  BY PolicyOK DEF OffersInv, policy
<1>2. \A h \in offices : h \subseteq Window
  BY OffersAssumption DEF OffersInv
<1>3. Cardinality(offices) = 1 => offices # {}
  BY FS_EmptySet
<1>4. Cardinality(offices) = 1 => (CHOOSE h \in offices : TRUE) \subseteq Window
  BY <1>2, <1>3
<1> QED BY <1>1, <1>4 DEF HoursOf

LEMMA OffersInit == Init => OffersInv
  BY DEF Init, OffersInv, Idle

LEMMA AskKeeps ==
  ASSUME OffersInv, NEW req \in Requests, Ask(req)
  PROVE  OffersInv'
<1> DEFINE targets == TargetsFor(req)
<1>1. check' = [pc |-> "reading", req |-> req, targets |-> targets,
                hours |-> [r \in targets |-> HoursOf(r.who)],
                seen |-> [r \in targets |-> Nobody], offices |-> {}, offer |-> {}]
      /\ deployed' = deployed /\ offices' = offices
  BY DEF Ask
<1>2. TargetsOK(targets)
  BY TargetsForOK
<1> HIDE DEF targets
<1>3. [r \in targets |-> HoursOf(r.who)] \in [targets -> SUBSET Window]
  BY HoursOfOK
<1>4. check'.seen = [r \in check'.targets |-> check'.seen[r]]
      /\ \A r \in check'.targets : check'.seen[r] = Nobody
  BY <1>1
<1>5. CheckOK(check')
  BY <1>1, <1>2, <1>3, <1>4 DEF CheckOK
<1> QED BY <1>1, <1>5 DEF OffersInv

LEMMA FetchedIs == \A seen \in Fetched : seen \subseteq Int
<1> SUFFICES ASSUME NEW feed \in Feeds, Believable(feed) PROVE ToSet(feed) \subseteq Int
  BY DEF Fetched
<1>1. feed \in Seq(Int \cup {Nobody}) /\ Nobody \notin ToSet(feed)
  BY RoutingsAssumption DEF Believable
<1>2. ToSet(feed) \subseteq Int \cup {Nobody}
  BY <1>1 DEF ToSet
<1> QED BY <1>1, <1>2

LEMMA ReadKeeps ==
  ASSUME OffersInv, check.pc = "reading", NEW r \in check.targets, Read(r)
  PROVE  OffersInv'
<1>1. CheckOK(check)
  BY DEF OffersInv
<1>2. PICK seen : /\ check' = [check EXCEPT !.seen[r] = seen]
                  /\ check.req.kind = "feed" => seen \subseteq Int
                  /\ deployed' = deployed /\ offices' = offices
  BY FetchedIs DEF Read
<1> DEFINE reads == [check.seen EXCEPT ![r] = seen]
<1>3. check' = [pc |-> check.pc, req |-> check.req, targets |-> check.targets, hours |-> check.hours,
                seen |-> reads, offices |-> check.offices, offer |-> check.offer]
  BY <1>1, <1>2 DEF CheckOK
<1>4. DOMAIN check.seen = check.targets /\ reads = [q \in check.targets |-> reads[q]]
  <2>1. DOMAIN check.seen = check.targets
    BY <1>1 DEF CheckOK
  <2> QED BY <2>1
<1>5. \A q \in check.targets : reads[q] = IF q = r THEN seen ELSE check.seen[q]
  BY <1>4
<1> HIDE DEF reads
<1>6. CheckOK(check')
  BY <1>1, <1>2, <1>3, <1>4, <1>5 DEF CheckOK
<1> QED BY <1>2, <1>3, <1>6 DEF OffersInv

LEMMA SameReads ==
  ASSUME NEW z, NEW p, NEW chk, NEW new, new.req = chk.req, new.targets = chk.targets,
         new.hours = chk.hours, new.seen = chk.seen
  PROVE  SlotsSeen(z, p, new) = SlotsSeen(z, p, chk) /\ Merged(z, p, new) = Merged(z, p, chk)
  BY DEF SlotsSeen, Merged

LEMMA AnswerKeeps ==
  ASSUME OffersInv, Answer
  PROVE  OffersInv'
<1> DEFINE offer == Best(zone, policy, {m \in Candidates : Within(zone, policy, m.start, offices)})
<1>1. CheckOK(check) /\ HasRead(check) /\ deployed' = deployed /\ offices' = offices
      /\ check' = [check EXCEPT !.pc = "answered", !.offices = offices, !.offer = offer]
  BY DEF Answer, OffersInv, HasRead
<1> HIDE DEF offer
<1>2. check' = [pc |-> "answered", req |-> check.req, targets |-> check.targets, hours |-> check.hours,
                seen |-> check.seen, offices |-> offices, offer |-> offer]
  BY <1>1 DEF CheckOK
<1>3. CheckOK(check') /\ HasRead(check')
  BY <1>1, <1>2 DEF CheckOK, HasRead
<1>4. Merged(zone, policy, check') = Merged(zone, policy, check)
  <2>1. /\ check'.req = check.req /\ check'.targets = check.targets
        /\ check'.hours = check.hours /\ check'.seen = check.seen
    BY <1>2
  <2> QED BY <2>1, SameReads
<1>5. zone' = zone /\ policy' = policy
  BY <1>1 DEF zone, policy
<1>6. Candidates = ToSet(Merged(zone, policy, check))
  BY DEF Candidates, Merged
<1>7. Offered(zone, policy, check') = offer
  BY <1>2, <1>4, <1>6 DEF Offered, offer
<1> QED BY <1>1, <1>2, <1>3, <1>5, <1>7 DEF OffersInv

LEMMA OffersStep == OffersInv /\ [Next]_vars => OffersInv'
<1> SUFFICES ASSUME OffersInv, [Next]_vars PROVE OffersInv'
  OBVIOUS
<1>1. ASSUME NEW req \in Requests, Ask(req) PROVE OffersInv'
  BY <1>1, AskKeeps
<1>2. ASSUME check.pc = "reading", NEW r \in check.targets, Read(r) PROVE OffersInv'
  BY <1>2, ReadKeeps
<1>3. CASE ReadFails
  BY <1>3 DEF ReadFails, OffersInv, Idle
<1>4. CASE Answer
  BY <1>4, AnswerKeeps
<1>5. CASE Forget
  BY <1>5 DEF Forget, OffersInv, Idle
<1>6. ASSUME NEW c \in Calendar, NEW b \in Busy, Fill(c, b) PROVE OffersInv'
  BY <1>6 DEF Fill, OffersInv, zone, policy
<1>7. ASSUME NEW locations \in SUBSET Hours, Rehours(locations) PROVE OffersInv'
  BY <1>7 DEF Rehours, OffersInv, zone, policy
<1>8. ASSUME NEW a \in active, Deactivate(a) PROVE OffersInv'
  BY <1>8 DEF Deactivate, OffersInv, zone, policy
<1>9. CASE UNCHANGED vars
  BY <1>9 DEF vars, OffersInv, zone, policy
<1> QED BY <1>1, <1>2, <1>3, <1>4, <1>5, <1>6, <1>7, <1>8, <1>9 DEF Next

-----------------------------------------------------------------------------
LEMMA AnsweredIs ==
  ASSUME OffersInv, check.pc = "answered"
  PROVE  /\ CheckOK(check) /\ HasRead(check) /\ check.req \in Requests
         /\ zone \in Zones /\ ZoneOK(zone) /\ policy \in Policies
         /\ check.offer = Offered(zone, policy, check)
         /\ Candidates = ToSet(Merged(zone, policy, check))
         /\ IsFiniteSet(Candidates) /\ \A m \in Candidates : m.start \in Int
<1>1. /\ CheckOK(check) /\ HasRead(check) /\ check.offer = Offered(zone, policy, check)
      /\ zone \in Zones /\ policy \in Policies
  BY DEF OffersInv, zone, policy
<1>2. ZoneOK(zone) /\ check.req \in Requests
  BY <1>1, ZonesOK DEF CheckOK
<1>3. Candidates = ToSet(Merged(zone, policy, check))
  BY DEF Candidates, Merged
<1>4. IsFiniteSet(Candidates) /\ \A m \in Candidates : m.start \in Int
  BY <1>1, <1>2, <1>3, MergedIs
<1> QED BY <1>1, <1>2, <1>3, <1>4

(* Every slot left out is after each one offered, or is as good to fewer   *)
(* of the preferences.                                                     *)
LEMMA InvOrdersOffers == OffersInv => NoBetterSlotLeftOut
<1> SUFFICES ASSUME OffersInv, check.pc = "answered", NEW m \in check.offer,
                    NEW n \in {c \in Candidates : Within(zone, policy, c.start, check.offices)} \ check.offer,
                    n.start < m.start,
                    \A i \in Preferred(policy, m) : \E j \in Preferred(policy, n) : j <= i,
                    PreferredDay(zone, policy, m) => PreferredDay(zone, policy, n),
                    PreferredHalf(zone, policy, m) => PreferredHalf(zone, policy, n)
             PROVE  FALSE
  BY DEF NoBetterSlotLeftOut, Answered
<1> DEFINE admitted == {c \in Candidates : Within(zone, policy, c.start, check.offices)}
<1>1. /\ policy \in Policies /\ IsFiniteSet(Candidates) /\ \A c \in Candidates : c.start \in Int
      /\ check.offer = Best(zone, policy, admitted)
  BY AnsweredIs DEF Offered
<1>2. admitted \in SUBSET Candidates /\ n \in admitted /\ n \notin check.offer
  OBVIOUS
<1> HIDE DEF admitted
<1>3. IsFiniteSet(admitted) /\ \A c \in admitted : c.start \in Int
  BY <1>1, <1>2, FS_Subset
<1>4. Before(zone, policy, n, m)
  BY <1>1, AsGoodAndEarlier
<1>5. n \in Best(zone, policy, admitted)
  BY <1>1, <1>2, <1>3, <1>4, BestIsClosed
<1> QED BY <1>1, <1>2, <1>5

LEMMA InvSpreads == OffersInv => EvenSpread
<1> SUFFICES ASSUME OffersInv, check.pc = "answered",
                    NEW q \in check.targets, NEW r \in check.targets,
                    Given(Merged(zone, policy, check), r.who)
                      > Given(Merged(zone, policy, check), q.who) + 1
             PROVE  Max({m.start : m \in {n \in ToSet(Merged(zone, policy, check)) : n.who = r.who}})
                      \notin SlotsSeen(zone, policy, check)[q]
  BY DEF EvenSpread, Answered, Merged
<1> QED BY AnsweredIs, SpreadEvenly

(* A slot of a target's is generated iff it qualifies and is not the one   *)
(* that is moved.                                                          *)
LEMMA SlotsQualify ==
  ASSUME OffersInv, check.pc = "answered", check.req.kind \in {"native", "move"},
         ChangesByDay(zone), NEW r \in check.targets, NEW s \in Int,
         Clear(zone, LocalDay(zone, s), check.hours[r])
  PROVE  s \in SlotsSeen(zone, policy, check)[r] <=>
           /\ Qualifies(zone, policy, s, check.hours[r], check.seen[r], check.req)
           /\ check.req.kind = "move" => s # check.req.own
<1>1. /\ CheckOK(check) /\ HasRead(check) /\ ZoneOK(zone) /\ policy \in Policies
      /\ check.req \in Requests
  BY AnsweredIs
<1>2. check.hours[r] \subseteq Window /\ check.req.days \in Int \X Int
  BY <1>1, RequestOK DEF CheckOK
<1>3. SlotsSeen(zone, policy, check)[r] =
        SlotsOf(zone, policy, check.req, check.hours[r], check.seen[r])
  BY DEF SlotsSeen
<1>4. s \in Generate(zone, policy, check.hours[r], check.seen[r],
                     From(zone, check.req), To(zone, check.req))
        <=> Qualifies(zone, policy, s, check.hours[r], check.seen[r], check.req)
  BY <1>1, <1>2, GeneratedQualifies
<1>5. check.req.kind # "feed"
  OBVIOUS
<1> QED BY <1>3, <1>4, <1>5 DEF SlotsOf

LEMMA InvDocuments ==
  ASSUME \A z \in Zones : ChangesByDay(z)
  PROVE  OffersInv => OffersAreDocumented
<1> SUFFICES ASSUME OffersInv, Answered({"native", "move"}) PROVE OffersAreDocumented
  BY DEF OffersAreDocumented
<1> DEFINE slots == SlotsSeen(zone, policy, check)
           merged == Merged(zone, policy, check)
           n == Len(merged)
           admitted == {c \in Candidates : Within(zone, policy, c.start, check.offices)}
<1>1. check.pc = "answered" /\ check.req.kind \in {"native", "move"}
  BY DEF Answered
<1>2. /\ CheckOK(check) /\ HasRead(check) /\ check.req \in Requests
      /\ zone \in Zones /\ ZoneOK(zone) /\ policy \in Policies
      /\ check.offer = Best(zone, policy, admitted)
      /\ Candidates = ToSet(merged)
      /\ IsFiniteSet(Candidates) /\ \A m \in Candidates : m.start \in Int
  BY <1>1, AnsweredIs DEF Offered
<1>3. ChangesByDay(zone)
  BY <1>2
<1>4. /\ \A r \in check.targets : \A s \in slots[r] : \E i \in 1 .. n : merged[i].start = s
      /\ \A i \in 1 .. n : \E r \in check.targets :
           /\ merged[i].start \in slots[r]
           /\ merged[i].who = r.who /\ merged[i].calendar = r.calendar
      /\ Candidates = {merged[i] : i \in 1 .. n}
  BY <1>2, MergedIs
<1>5. \A r \in check.targets, s \in Int :
        Clear(zone, LocalDay(zone, s), check.hours[r]) =>
          (s \in slots[r] <=>
             /\ Qualifies(zone, policy, s, check.hours[r], check.seen[r], check.req)
             /\ check.req.kind = "move" => s # check.req.own)
  BY <1>1, <1>3, SlotsQualify
<1> HIDE DEF slots, merged, n
<1>6. ASSUME NEW m \in check.offer
      PROVE  \E r \in check.targets :
               /\ r.calendar = m.calendar /\ r.who = m.who
               /\ Clear(zone, LocalDay(zone, m.start), check.hours[r]) => Eligible(r, m.start)
  <2>1. m \in Candidates /\ Within(zone, policy, m.start, check.offices) /\ m.start \in Int
    BY <1>2 DEF Best
  <2>2. PICK i \in 1 .. n : m = merged[i]
    BY <1>4, <2>1
  <2>3. PICK r \in check.targets :
          m.start \in slots[r] /\ m.who = r.who /\ m.calendar = r.calendar
    BY <1>4, <2>2
  <2>4. Clear(zone, LocalDay(zone, m.start), check.hours[r]) => Eligible(r, m.start)
    BY <1>5, <2>1, <2>3 DEF Eligible
  <2> QED BY <2>3, <2>4
<1>7. ASSUME check.offer = {}, NEW r \in check.targets,
             NEW s \in From(zone, check.req) .. To(zone, check.req), Eligible(r, s),
             Clear(zone, LocalDay(zone, s), check.hours[r])
      PROVE  FALSE
  <2>1. s \in Int
    BY <1>2, WindowIs
  <2>2. s \in slots[r] /\ Within(zone, policy, s, check.offices)
    BY <1>5, <1>7, <2>1 DEF Eligible
  <2>3. PICK i \in 1 .. n : merged[i].start = s
    BY <1>4, <2>2
  <2>4. merged[i] \in admitted
    BY <1>4, <2>2, <2>3
  <2>5. admitted \in SUBSET Candidates
    OBVIOUS
  <2> HIDE DEF admitted
  <2>6. IsFiniteSet(admitted) /\ \A c \in admitted : c.start \in Int
    BY <1>2, <2>5, FS_Subset
  <2> QED BY <1>2, <1>7, <2>4, <2>6, SomeBest
<1> QED BY <1>6, <1>7 DEF OffersAreDocumented

-----------------------------------------------------------------------------
(* Every check's targets and hours are those of the configuration, and an  *)
(* answer is the best of the slots its reads leave: what selectOfferedSlots*)
(* () and selectSlots() hand over, never part of a merge that was not done.*)
THEOREM AnswersAreBest == Spec => []OffersInv
<1> QED BY OffersInit, OffersStep, PTL DEF Spec

(* An offer is a documented slot of the calendar it will be booked in, and *)
(* none is only when there is none, in zones that change no clock at       *)
(* midnight: generateCandidateSlots() leaves nothing out and lets nothing  *)
(* else in.                                                                *)
THEOREM OffersAlwaysDocumented ==
  ASSUME \A z \in Zones : ChangesByDay(z)
  PROVE  Spec => []OffersAreDocumented
<1>1. OffersInv => OffersAreDocumented
  BY InvDocuments
<1> QED BY <1>1, OffersInit, OffersStep, PTL DEF Spec

(* mergeCandidatesBalanced() spreads the starts of a pool, whatever the    *)
(* number of its attorneys and of the starts they share.                   *)
THEOREM SpreadIsEven == Spec => []EvenSpread
<1> QED BY OffersInit, OffersStep, InvSpreads, PTL DEF Spec

(* selectSlots() offers no slot that one left out is earlier than and as   *)
(* good as, whatever the preferences.                                      *)
THEOREM NoBetterLeftOut == Spec => []NoBetterSlotLeftOut
<1> QED BY OffersInit, OffersStep, InvOrdersOffers, PTL DEF Spec
=============================================================================
