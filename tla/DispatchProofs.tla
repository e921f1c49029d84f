--------------------------- MODULE DispatchProofs ---------------------------
(***************************************************************************)
(* What holds of every plan the optimiser makes, for every queue, crew     *)
(* list, pack and table of distances.                                      *)
(*                                                                         *)
(* The plan is built one visit at a time on the end of one crew's route,   *)
(* so the invariant is about the end of a route: where and when the crew   *)
(* is free there is what its last visit says.                              *)
(***************************************************************************)
EXTENDS Dispatch, WellFoundedInduction, TLAPS

(* Largest and least *)

\* `max` of two instants is one of them and not before either.
LEMMA MaxOfTwo ==
  ASSUME NEW a \in Int, NEW b \in Int
  PROVE  Max({a, b}) \in {a, b} /\ Max({a, b}) \in Int /\ Max({a, b}) >= a /\ Max({a, b}) >= b
<1>1. \E x \in {a, b} : \A y \in {a, b} : x >= y
  OBVIOUS
<1>2. Max({a, b}) \in {a, b} /\ \A y \in {a, b} : Max({a, b}) >= y
  BY <1>1 DEF Max
<1> QED BY <1>2

\* The same of three instants.
LEMMA MaxOfThree ==
  ASSUME NEW a \in Int, NEW b \in Int, NEW c \in Int
  PROVE  /\ Max({a, b, c}) \in Int
         /\ Max({a, b, c}) >= a /\ Max({a, b, c}) >= b /\ Max({a, b, c}) >= c
<1>1. \E x \in {a, b, c} : \A y \in {a, b, c} : x >= y
  OBVIOUS
<1>2. Max({a, b, c}) \in {a, b, c} /\ \A y \in {a, b, c} : Max({a, b, c}) >= y
  BY <1>1 DEF Max
<1> QED BY <1>2

\* `min` of two numbers is one of them and not after either.
LEMMA MinOfTwo ==
  ASSUME NEW a \in Int, NEW b \in Int
  PROVE  Min({a, b}) \in Int /\ Min({a, b}) <= a /\ Min({a, b}) <= b
<1>1. \E x \in {a, b} : \A y \in {a, b} : x <= y
  OBVIOUS
<1>2. Min({a, b}) \in {a, b} /\ \A y \in {a, b} : Min({a, b}) <= y
  BY <1>1 DEF Min
<1> QED BY <1>2

\* `min` of two numbers is one of them.
LEMMA MinIsOne ==
  ASSUME NEW a \in Int, NEW b \in Int
  PROVE  Min({a, b}) \in {a, b}
<1>1. \E x \in {a, b} : \A y \in {a, b} : x <= y
  OBVIOUS
<1> QED BY <1>1 DEF Min

-----------------------------------------------------------------------------
(* The invariant *)

VisitRecords == [job : Jobs, start : Int, end : Int]
Route == [visits : Seq(VisitRecords), free : Int, at : Places \cup {Anywhere}]

Typed ==
  /\ problem \in Problems
  /\ waiting \subseteq Jobs /\ refused \subseteq Jobs
  /\ routes \in [Crews -> Route]

LastVisit(c) == Visits(c)[Len(Visits(c))]

\* A crew is free where and when its last visit ended, or at its depot when the shift begins.
EndOfRoute ==
  \A c \in Crews :
    IF Len(Visits(c)) = 0 THEN routes[c].free = Crew(c).from /\ routes[c].at = Anywhere
    ELSE routes[c].free = LastVisit(c).end /\ routes[c].at = Place(LastVisit(c))

\* A visit lasts as long as its job.
VisitsLast ==
  \A c \in Crews : \A n \in 1..Len(Visits(c)) :
    Visits(c)[n].end = Visits(c)[n].start + Job(Visits(c)[n].job).dur

\* The jobs on the plan, by the place they have in it
OnPlan(j) == \E c \in Crews : \E n \in 1..Len(Visits(c)) : Visits(c)[n].job = j

\* Every job is waiting, refused or on the plan, and on the plan once.
OnePlace ==
  /\ waiting \cap refused = {}
  /\ \A j \in Jobs : j \in waiting \/ j \in refused \/ OnPlan(j)
  /\ \A j \in waiting \cup refused : ~OnPlan(j)
  /\ \A c, d \in Crews : \A m \in 1..Len(Visits(c)), n \in 1..Len(Visits(d)) :
       Visits(c)[m].job = Visits(d)[n].job => c = d /\ m = n

\* The visits of a crew, as a set, are its visits in order.
LEMMA VisitsByPlace ==
  ASSUME Typed
  PROVE  /\ \A c \in Crews : /\ Visits(c) \in Seq(VisitRecords) /\ DOMAIN Visits(c) = 1..Len(Visits(c))
                             /\ Range(Visits(c)) = {Visits(c)[n] : n \in 1..Len(Visits(c))}
         /\ \A j : j \in Scheduled <=> OnPlan(j)
<1>1. \A c \in Crews : Visits(c) \in Seq(VisitRecords)
  BY DEF Typed, Route, Visits
<1>2. \A c \in Crews : DOMAIN Visits(c) = 1..Len(Visits(c))
  BY <1>1
<1>3. \A c \in Crews : Range(Visits(c)) = {Visits(c)[n] : n \in 1..Len(Visits(c))}
  BY <1>2 DEF Range
<1>4. ASSUME NEW j PROVE j \in Scheduled <=> \E c \in Crews : \E v \in Range(Visits(c)) : v.job = j
  BY DEF Scheduled
<1>5. \A j : j \in Scheduled <=> OnPlan(j)
  BY <1>3, <1>4 DEF OnPlan
<1> QED BY <1>1, <1>2, <1>3, <1>5

-----------------------------------------------------------------------------
(* Travel and starts *)

\* What the solve was given is what the catalogues hold.
LEMMA Given ==
  ASSUME Typed
  PROVE  /\ \A j \in Jobs : Job(j) \in JobCatalog
         /\ \A c \in Crews : Crew(c) \in CrewCatalog
         /\ problem.now \in Int /\ problem.routed \in Routings
<1>1. /\ problem.jobs \in [Jobs -> JobCatalog] /\ problem.crews \in [Crews -> CrewCatalog]
      /\ problem.now \in Nows /\ problem.routed \in Routings
  BY DEF Typed, Problems
<1> QED BY <1>1, DispatchAssumption DEF DispatchAssumption, Job, Crew

\* The slowest archetype is one of those the pack has.
LEMMA SlowestIsArchetype == SlowestArchetype \in Archetypes
BY TravelAssumption DEF TravelAssumption, SlowestArchetype

\* Driving between two places takes some whole number of steps, never less than none.
LEMMA TravelTakesTime ==
  ASSUME Typed, NEW from \in Places, NEW to \in Places, NEW area \in Archetypes \cup {"unknown"}
  PROVE  Between(from, to, area) \in Nat
<1>1. CASE <<from, to>> \in problem.routed
  <2>1. problem.routed \in Routings
    BY Given
  <2>2. Routed[<<from, to>>] \in Nat
    BY <1>1, <2>1, TravelAssumption DEF TravelAssumption
  <2> QED BY <1>1, <2>2 DEF Between
<1>2. CASE <<from, to>> \notin problem.routed
  <2> DEFINE a == IF area = "unknown" THEN SlowestArchetype ELSE area
  <2>1. a \in Archetypes
    BY SlowestIsArchetype
  <2>2. Overhead[a] \in Nat /\ Ferry[a] \in Nat /\ Slowness[a] \in Nat
    BY <2>1, TravelAssumption DEF TravelAssumption
  <2>3. CASE Anywhere \in {from, to}
    BY <1>2, <2>2, <2>3 DEF Between, Estimated
  <2>4. CASE Anywhere \notin {from, to}
    <3>1. Km[<<from, to>>] \in Nat
      BY <2>4, TravelAssumption DEF TravelAssumption
    <3>2. Km[<<from, to>>] * Slowness[a] \in Nat
      BY <2>2, <3>1
    <3>3. Between(from, to, area) = Overhead[a] + Ferry[a] + Km[<<from, to>>] * Slowness[a]
      BY <1>2, <2>4 DEF Between, Estimated
    <3> QED BY <2>2, <3>2, <3>3
  <2> QED BY <2>3, <2>4
<1> QED BY <1>1, <1>2

\* The places of jobs, crews and visits are places.
LEMMA PlacesOfDay ==
  ASSUME Typed
  PROVE  /\ \A j \in Jobs : Job(j).place \in Places /\ Job(j).area \in Archetypes \cup {"unknown"}
         /\ \A c \in Crews : Crew(c).base \in Places /\ Position(c) \in Places
<1>1. \A j \in Jobs : Job(j).place \in Places /\ Job(j).area \in Archetypes \cup {"unknown"}
  BY Given, TravelAssumption DEF TravelAssumption, Places
<1>2. \A c \in Crews : Crew(c).base \in Places
  BY Given DEF Places
<1>3. \A c \in Crews : routes[c].at \in Places \cup {Anywhere}
  BY DEF Typed, Route
<1>4. \A c \in Crews : Position(c) \in Places
  BY <1>2, <1>3 DEF Position
<1> QED BY <1>1, <1>2, <1>4

\* The search does not begin before the crew, free, in its shift and after the solve, has driven.
LEMMA EarliestIsReachable ==
  ASSUME Typed, NEW j \in Jobs, NEW c \in Crews
  PROVE  /\ TravelTo(j, c) \in Nat /\ Earliest(j, c) \in Int
         /\ Earliest(j, c) >= routes[c].free + TravelTo(j, c)
         /\ Earliest(j, c) >= Crew(c).from + TravelTo(j, c)
         /\ Earliest(j, c) >= problem.now + TravelTo(j, c)
<1>1. TravelTo(j, c) \in Nat
  BY PlacesOfDay, TravelTakesTime DEF TravelTo
<1>2. routes[c].free \in Int /\ Crew(c).from \in Int /\ problem.now \in Int /\ Job(j).earliest \in Int
  BY Given, DispatchAssumption DEF Typed, Route, DispatchAssumption
<1> DEFINE ready == Max({routes[c].free, Crew(c).from, problem.now})
<1>3. ready \in Int /\ ready >= routes[c].free /\ ready >= Crew(c).from /\ ready >= problem.now
  BY <1>2, MaxOfThree
<1>4. Earliest(j, c) = Max({ready + TravelTo(j, c), Job(j).earliest})
  BY DEF Earliest
<1> HIDE DEF ready
<1>5. ready + TravelTo(j, c) \in Int
  BY <1>1, <1>3
<1>6. Earliest(j, c) \in Int /\ Earliest(j, c) >= ready + TravelTo(j, c)
  BY <1>2, <1>4, <1>5, MaxOfTwo
<1> QED BY <1>1, <1>2, <1>3, <1>6

\* The windows searched are intervals of instants.
LEMMA WindowsAreIntervals ==
  ASSUME Typed, NEW j \in Jobs, NEW w \in Windows(j)
  PROVE  w[1] \in Int /\ w[2] \in Int
<1>1. Job(j).windows \subseteq Int \X Int /\ Job(j).building \subseteq Int \X Int
  BY Given, DispatchAssumption DEF DispatchAssumption
<1>2. CASE Job(j).windows = {}
  BY <1>1, <1>2 DEF Windows
<1>3. CASE Job(j).windows # {} /\ Job(j).building = {}
  BY <1>1, <1>3 DEF Windows
<1>4. CASE Job(j).windows # {} /\ Job(j).building # {}
  <2>1. PICK v \in Job(j).windows, b \in Job(j).building : w = Overlap(v, b)
    BY <1>4 DEF Windows
  <2>2. {v[1], v[2], b[1], b[2]} \subseteq Int
    BY <1>1
  <2>3. w[1] = Max({v[1], b[1]}) /\ w[2] = Min({v[2], b[2]})
    BY <2>1 DEF Overlap
  <2>4. Max({v[1], b[1]}) \in Int /\ Min({v[2], b[2]}) \in Int
    <3> HIDE DEF Max, Min
    <3>1. v[1] \in Int /\ b[1] \in Int /\ v[2] \in Int /\ b[2] \in Int
      BY <2>2
    <3> QED BY <3>1, MaxOfTwo, MinOfTwo
  <2> QED BY <2>3, <2>4
<1> QED BY <1>2, <1>3, <1>4

\* Every start tried is an instant at which the crew can be there.
LEMMA StartsAreReachable ==
  ASSUME Typed, NEW j \in Jobs, NEW c \in Crews, NEW s \in StartsForCrew(j, c)
  PROVE  s \in Int /\ s >= Earliest(j, c) /\ ~Refuses(j, c, s)
<1> DEFINE e == Earliest(j, c)
<1>1. e \in Int
  BY EarliestIsReachable
<1>2. s \in WindowStarts(j, e) /\ ~Refuses(j, c, s)
  BY DEF StartsForCrew
<1>3. CASE Windows(j) = {}
  <2>1. PICK i \in 0..(MaxSteps - 1) : s = e + i
    BY <1>2, <1>3 DEF WindowStarts
  <2>2. MaxSteps \in Nat
    BY DispatchAssumption DEF DispatchAssumption
  <2>3. i \in Nat
    BY <2>1, <2>2
  <2> QED BY <1>1, <1>2, <2>1, <2>3
<1>4. CASE Windows(j) # {}
  <2>1. CASE s = e
    BY <1>1, <1>2, <2>1
  <2>2. CASE s # e
    <3>1. PICK w \in Windows(j) : s = Max({e, w[1]})
      BY <1>2, <1>4, <2>2 DEF WindowStarts
    <3>2. w[1] \in Int
      BY WindowsAreIntervals
    <3> HIDE DEF e
    <3>3. s \in Int /\ s >= e
      BY <1>1, <3>1, <3>2, MaxOfTwo
    <3> QED BY <1>2, <3>3 DEF e
  <2> QED BY <2>1, <2>2
<1> QED BY <1>3, <1>4

-----------------------------------------------------------------------------
(* One job is placed *)

VisitOf(j, s) == [job |-> j, start |-> s, end |-> s + Job(j).dur]

\* Job j, whose turn it is, is given to crew c at s.
Placed(j, c, s) ==
  /\ j \in Turn /\ c \in Offered /\ s \in StartsForCrew(j, c)
  /\ routes' = Take(c, VisitOf(j, s))
  /\ waiting' = waiting \ {j} /\ UNCHANGED <<problem, refused>>

\* An assignment is the placing of one job at a start the search found.
LEMMA AssignPlaces == Assign => \E j \in Turn, c \in Offered : \E s \in StartsForCrew(j, c) : Placed(j, c, s)
<1> SUFFICES ASSUME Assign
             PROVE  \E j \in Turn, c \in Offered : \E s \in StartsForCrew(j, c) : Placed(j, c, s)
  OBVIOUS
<1>1. PICK j \in Turn :
        /\ \E a \in Best(j) :
             routes' = Take(a.crew, [job |-> j, start |-> a.start, end |-> a.start + Job(j).dur])
        /\ waiting' = waiting \ {j} /\ UNCHANGED <<problem, refused>>
  BY DEF Assign
<1>2. PICK a \in Attempts(j) : routes' = Take(a.crew, VisitOf(j, a.start))
  BY <1>1 DEF Best, VisitOf
<1>3. PICK c \in Offered : a \in {[crew |-> c, start |-> s] : s \in StartsForCrew(j, c)}
  BY DEF Attempts
<1>4. PICK s \in StartsForCrew(j, c) : a = [crew |-> c, start |-> s]
  BY <1>3
<1>5. routes' = Take(c, VisitOf(j, s))
  BY <1>2, <1>4
<1>6. Placed(j, c, s)
  BY <1>1, <1>5 DEF Placed
<1> QED BY <1>6

\* What a placing leaves: one visit more at the end of one route, and nothing else changed.
LEMMA RouteGrows ==
  ASSUME Typed, NEW j \in Jobs, NEW c \in Crews, NEW s \in Int, Placed(j, c, s)
  PROVE  /\ VisitOf(j, s) \in VisitRecords
         /\ Typed'
         /\ Visits(c) \in Seq(VisitRecords)
         /\ Visits(c)' = Append(Visits(c), VisitOf(j, s))
         /\ routes'[c].free = s + Job(j).dur /\ routes'[c].at = Job(j).place
         /\ \A d \in Crews \ {c} : routes'[d] = routes[d] /\ Visits(d)' = Visits(d)
         /\ \A x : Job(x)' = Job(x) /\ Crew(x)' = Crew(x)
<1>1. Job(j).dur \in Int
  BY Given, DispatchAssumption DEF DispatchAssumption
<1>2. VisitOf(j, s) \in VisitRecords
  BY <1>1 DEF VisitOf, VisitRecords
<1>3. Visits(c) \in Seq(VisitRecords)
  BY VisitsByPlace
<1> DEFINE r == [visits |-> Append(Visits(c), VisitOf(j, s)), free |-> s + Job(j).dur, at |-> Job(j).place]
<1>4. routes' = [routes EXCEPT ![c] = r]
  BY DEF Placed, Take, VisitOf
<1>5. Append(Visits(c), VisitOf(j, s)) \in Seq(VisitRecords)
  BY <1>2, <1>3
<1>6. r \in Route
  BY <1>1, <1>5, PlacesOfDay DEF Route
<1>7. routes \in [Crews -> Route]
  BY DEF Typed
<1>8. routes' \in [Crews -> Route] /\ routes'[c] = r /\ \A d \in Crews \ {c} : routes'[d] = routes[d]
  BY <1>4, <1>6, <1>7
<1>9. problem' = problem /\ refused' = refused /\ waiting' \subseteq waiting
  BY DEF Placed
<1>10. Typed'
  BY <1>8, <1>9 DEF Typed
<1>11. \A x : Job(x)' = Job(x) /\ Crew(x)' = Crew(x)
  BY <1>9 DEF Job, Crew
<1> QED BY <1>2, <1>3, <1>8, <1>10, <1>11 DEF Visits

\* The route after a placing, visit by visit.
LEMMA VisitsAfter ==
  ASSUME Typed, NEW j \in Jobs, NEW c \in Crews, NEW s \in Int, Placed(j, c, s)
  PROVE  /\ Len(Visits(c)) \in Nat /\ Len(Visits(c)') = Len(Visits(c)) + 1
         /\ \A n \in 1..Len(Visits(c)) : Visits(c)'[n] = Visits(c)[n]
         /\ Visits(c)'[Len(Visits(c)) + 1] = VisitOf(j, s)
<1>1. /\ Visits(c) \in Seq(VisitRecords) /\ VisitOf(j, s) \in VisitRecords
      /\ Visits(c)' = Append(Visits(c), VisitOf(j, s))
  BY RouteGrows
<1> HIDE DEF Visits, VisitOf
<1> QED BY <1>1

-----------------------------------------------------------------------------
(* Every step keeps the invariant *)

DayInv == Typed /\ EndOfRoute /\ VisitsLast /\ DayCanBeWorked

\* The visit just placed can be worked after those before it.
LEMMA NextVisitCanBeWorked ==
  ASSUME DayInv, NEW j \in Jobs, NEW c \in Offered, NEW s \in StartsForCrew(j, c)
  PROVE  LET n == Len(Visits(c))
             from == IF n = 0 THEN Crew(c).base ELSE Place(LastVisit(c))
             free == IF n = 0 THEN Max({Crew(c).from, problem.now}) ELSE LastVisit(c).end
         IN /\ s >= free + (IF from = Anywhere THEN 0 ELSE Between(from, Job(j).place, Job(j).area))
            /\ s + Job(j).dur <= Crew(c).until + Overtime
            /\ Crew(c).booked + n + 1 <= Crew(c).max
<1> DEFINE n == Len(Visits(c))
<1> USE DEF DayInv
<1>1. c \in Crews
  BY DEF Offered
<1>2. /\ s \in Int /\ s >= Earliest(j, c) /\ ~Refuses(j, c, s)
      /\ TravelTo(j, c) \in Nat /\ Earliest(j, c) \in Int
      /\ Earliest(j, c) >= routes[c].free + TravelTo(j, c)
      /\ Earliest(j, c) >= Crew(c).from + TravelTo(j, c)
      /\ Earliest(j, c) >= problem.now + TravelTo(j, c)
  BY <1>1, StartsAreReachable, EarliestIsReachable
<1>3. /\ {Crew(c).from, Crew(c).until, Crew(c).max, Crew(c).booked} \subseteq Int
      /\ problem.now \in Int /\ Job(j).dur \in Nat \ {0} /\ routes[c].free \in Int
      /\ Overtime \in Nat /\ ShiftLimit \in Nat /\ n \in Nat
  <2>1. n \in Nat
    BY <1>1, VisitsByPlace
  <2> QED BY <1>1, <2>1, Given, DispatchAssumption DEF DispatchAssumption, Typed, Route
<1>4. s >= routes[c].free + TravelTo(j, c) /\ s >= Crew(c).from + TravelTo(j, c)
      /\ s >= problem.now + TravelTo(j, c)
  BY <1>2, <1>3, SMTT(30)
<1>5. s + Job(j).dur <= Crew(c).until + Overtime
  <2>1. ~OutsideHours(c, s, s + Job(j).dur)
    BY <1>2 DEF Refuses
  <2> QED BY <1>2, <1>3, <2>1 DEF OutsideHours
<1>6. Crew(c).booked + n + 1 <= Crew(c).max
  <2>1. ~Full(c)
    BY <1>2 DEF Refuses, Permanent
  <2>2. Remaining(c) \in Int /\ Remaining(c) = Crew(c).max - Crew(c).booked /\ ShiftLimit \in Int
    BY <1>3 DEF Remaining
  <2>3. Min({Remaining(c), ShiftLimit}) \in Int /\ Min({Remaining(c), ShiftLimit}) <= Remaining(c)
    BY <2>2, MinOfTwo
  <2>4. n < Min({Remaining(c), ShiftLimit})
    BY <1>3, <2>1, <2>3 DEF Full
  <2> QED BY <1>3, <2>2, <2>3, <2>4
<1>7. CASE n = 0
  <2>1. routes[c].free = Crew(c).from /\ routes[c].at = Anywhere
    BY <1>1, <1>7 DEF EndOfRoute
  <2>2. TravelTo(j, c) = Between(Crew(c).base, Job(j).place, Job(j).area)
    BY <2>1 DEF TravelTo, Position
  <2>3. Max({Crew(c).from, problem.now}) \in Int
        /\ (Max({Crew(c).from, problem.now}) = Crew(c).from \/ Max({Crew(c).from, problem.now}) = problem.now)
    BY <1>3, MaxOfTwo
  <2>4. s >= Max({Crew(c).from, problem.now}) + TravelTo(j, c)
    BY <1>2, <1>3, <1>4, <2>3
  <2>5. s >= Max({Crew(c).from, problem.now})
    BY <1>2, <1>3, <2>3, <2>4
  <2> QED BY <1>2, <1>5, <1>6, <1>7, <2>2, <2>3, <2>4, <2>5
<1>8. CASE n # 0
  <2>1. routes[c].free = LastVisit(c).end /\ routes[c].at = Place(LastVisit(c))
    BY <1>1, <1>8 DEF EndOfRoute
  <2>2. Place(LastVisit(c)) # Anywhere =>
          TravelTo(j, c) = Between(Place(LastVisit(c)), Job(j).place, Job(j).area)
    BY <2>1 DEF TravelTo, Position
  <2>3. s >= routes[c].free
    BY <1>2, <1>3, <1>4
  <2> QED BY <1>2, <1>3, <1>4, <1>5, <1>6, <1>8, <2>1, <2>2, <2>3
<1> QED BY <1>7, <1>8

\* The end of every route is still what the crew will leave from.
LEMMA EndOfRouteKept ==
  ASSUME Typed, EndOfRoute, NEW j \in Jobs, NEW c \in Crews, NEW s \in Int, Placed(j, c, s)
  PROVE  EndOfRoute'
<1>0. problem' = problem
  BY DEF Placed
<1> SUFFICES ASSUME NEW d \in Crews
             PROVE  IF Len(Visits(d)') = 0 THEN routes'[d].free = Crew(d).from /\ routes'[d].at = Anywhere
                    ELSE /\ routes'[d].free = Visits(d)'[Len(Visits(d)')].end
                         /\ routes'[d].at = Job(Visits(d)'[Len(Visits(d)')].job).place
  BY <1>0 DEF EndOfRoute, LastVisit, Place, Job, Crew
<1>1. CASE d = c
  <2>1. /\ routes'[c].free = s + Job(j).dur /\ routes'[c].at = Job(j).place
        /\ \A x : Job(x)' = Job(x)
    BY RouteGrows
  <2>2. /\ Len(Visits(c)) \in Nat /\ Len(Visits(c)') = Len(Visits(c)) + 1
        /\ Visits(c)'[Len(Visits(c)')] = VisitOf(j, s)
    BY VisitsAfter
  <2>3. VisitOf(j, s).end = s + Job(j).dur /\ VisitOf(j, s).job = j
    BY DEF VisitOf
  <2> QED BY <1>1, <2>1, <2>2, <2>3
<1>2. CASE d # c
  <2>1. routes'[d] = routes[d] /\ Visits(d)' = Visits(d) /\ \A x : Job(x)' = Job(x) /\ Crew(x)' = Crew(x)
    BY <1>2, RouteGrows
  <2> QED BY <2>1 DEF EndOfRoute, LastVisit, Place
<1> QED BY <1>1, <1>2

\* Every visit still lasts as long as its job.
LEMMA VisitsLastKept ==
  ASSUME Typed, VisitsLast, NEW j \in Jobs, NEW c \in Crews, NEW s \in Int, Placed(j, c, s)
  PROVE  VisitsLast'
<1>0. problem' = problem
  BY DEF Placed
<1> SUFFICES ASSUME NEW d \in Crews, NEW n \in 1..Len(Visits(d)')
             PROVE  Visits(d)'[n].end = Visits(d)'[n].start + Job(Visits(d)'[n].job).dur
  BY <1>0 DEF VisitsLast, Job
<1>1. /\ \A x : Job(x)' = Job(x)
      /\ d # c => Visits(d)' = Visits(d)
  BY RouteGrows
<1>2. /\ Len(Visits(c)) \in Nat /\ Len(Visits(c)') = Len(Visits(c)) + 1
      /\ \A m \in 1..Len(Visits(c)) : Visits(c)'[m] = Visits(c)[m]
      /\ Visits(c)'[Len(Visits(c)) + 1] = VisitOf(j, s)
  BY VisitsAfter
<1>3. CASE d # c
  BY <1>1, <1>3 DEF VisitsLast
<1>4. CASE d = c /\ n \in 1..Len(Visits(c))
  BY <1>1, <1>2, <1>4 DEF VisitsLast
<1>5. CASE d = c /\ n \notin 1..Len(Visits(c))
  <2>1. n = Len(Visits(c)) + 1
    BY <1>2, <1>5
  <2>2. VisitOf(j, s).end = s + Job(j).dur /\ VisitOf(j, s).start = s /\ VisitOf(j, s).job = j
    BY DEF VisitOf
  <2> QED BY <1>1, <1>2, <1>5, <2>1, <2>2
<1> QED BY <1>3, <1>4, <1>5

\* Every day can still be worked.
LEMMA DayKept ==
  ASSUME DayInv, NEW j \in Jobs, NEW c \in Offered, NEW s \in StartsForCrew(j, c), Placed(j, c, s)
  PROVE  DayCanBeWorked'
<1> USE DEF DayInv
<1>1. c \in Crews /\ s \in Int
  BY StartsAreReachable DEF Offered
<1>2. /\ \A x : Job(x)' = Job(x) /\ Crew(x)' = Crew(x)
      /\ \A d \in Crews \ {c} : Visits(d)' = Visits(d)
  BY <1>1, RouteGrows
<1>3. /\ Len(Visits(c)) \in Nat /\ Len(Visits(c)') = Len(Visits(c)) + 1
      /\ \A m \in 1..Len(Visits(c)) : Visits(c)'[m] = Visits(c)[m]
      /\ Visits(c)'[Len(Visits(c)) + 1] = VisitOf(j, s)
  BY <1>1, VisitsAfter
<1>4. problem' = problem
  BY DEF Placed
<1>5. VisitOf(j, s).end = s + Job(j).dur /\ VisitOf(j, s).start = s /\ VisitOf(j, s).job = j
  BY DEF VisitOf
\* What one visit of crew d must satisfy, after the step
<1> DEFINE from(d, i) == IF i = 1 THEN Crew(d).base ELSE Job(Visits(d)'[i - 1].job).place
           free(d, i) == IF i = 1 THEN Max({Crew(d).from, problem.now}) ELSE Visits(d)'[i - 1].end
           v(d, i) == Visits(d)'[i]
           Reached(d, i) == v(d, i).start >= free(d, i)
              + (IF from(d, i) = Anywhere THEN 0
                 ELSE Between(from(d, i), Job(v(d, i).job).place, Job(v(d, i).job).area))
           InTime(d, i) == v(d, i).end <= Crew(d).until + Overtime
           Room(d) == Len(Visits(d)') > 0 => Crew(d).booked + Len(Visits(d)') <= Crew(d).max
<1>6. ASSUME NEW d \in Crews \ {c} PROVE (\A i \in 1..Len(Visits(d)') : Reached(d, i) /\ InTime(d, i)) /\ Room(d)
  BY <1>2, <1>4, <1>6 DEF DayCanBeWorked, Place
<1>7. ASSUME NEW i \in 1..Len(Visits(c)) PROVE Reached(c, i) /\ InTime(c, i)
  <2>1. i # 1 => i - 1 \in 1..Len(Visits(c))
    BY <1>3
  <2>2. v(c, i) = Visits(c)[i] /\ (i # 1 => Visits(c)'[i - 1] = Visits(c)[i - 1])
    BY <1>3, <2>1
  <2> QED BY <1>1, <1>2, <1>4, <2>2 DEF DayCanBeWorked, Place
<1>8. LET i == Len(Visits(c)) + 1 IN Reached(c, i) /\ InTime(c, i)
  <2> DEFINE n == Len(Visits(c))
  <2>1. LET from0 == IF n = 0 THEN Crew(c).base ELSE Place(LastVisit(c))
            free0 == IF n = 0 THEN Max({Crew(c).from, problem.now}) ELSE LastVisit(c).end
        IN /\ s >= free0 + (IF from0 = Anywhere THEN 0 ELSE Between(from0, Job(j).place, Job(j).area))
           /\ s + Job(j).dur <= Crew(c).until + Overtime
    BY NextVisitCanBeWorked
  <2>2. v(c, n + 1) = VisitOf(j, s)
    BY <1>3
  <2>3. n + 1 = 1 <=> n = 0
    BY <1>3
  <2>4. n # 0 => Visits(c)'[n + 1 - 1] = LastVisit(c)
    BY <1>3 DEF LastVisit
  <2>5. from(c, n + 1) = IF n = 0 THEN Crew(c).base ELSE Place(LastVisit(c))
    BY <1>2, <2>3, <2>4 DEF Place
  <2>6. free(c, n + 1) = IF n = 0 THEN Max({Crew(c).from, problem.now}) ELSE LastVisit(c).end
    BY <1>2, <1>4, <2>3, <2>4
  <2> HIDE DEF from, free
  <2> QED BY <1>2, <1>4, <1>5, <2>1, <2>2, <2>5, <2>6
<1>9. Room(c)
  <2>1. Crew(c).booked + Len(Visits(c)) + 1 <= Crew(c).max
    BY NextVisitCanBeWorked
  <2>2. Crew(c).booked \in Int
    BY <1>1, Given, DispatchAssumption DEF DispatchAssumption
  <2> QED BY <1>2, <1>3, <2>1, <2>2
<1>10. \A i \in 1..Len(Visits(c)') : Reached(c, i) /\ InTime(c, i)
  <2>1. \A i \in 1..Len(Visits(c)') : i \in 1..Len(Visits(c)) \/ i = Len(Visits(c)) + 1
    BY <1>3
  <2> HIDE DEF Reached, InTime
  <2> QED BY <1>7, <1>8, <2>1
<1>11. \A d \in Crews : (\A i \in 1..Len(Visits(d)') : Reached(d, i) /\ InTime(d, i)) /\ Room(d)
  <2> HIDE DEF Reached, InTime, Room
  <2> QED BY <1>6, <1>9, <1>10
<1>12. \A x, y, area : Between(x, y, area)' = Between(x, y, area)
  BY <1>4 DEF Between
<1>13. ASSUME NEW d \in Crews, NEW i \in 1..Len(Visits(d)')
       PROVE (LET w == Visits(d)[i]
                  x == IF i = 1 THEN Crew(d).base ELSE Place(Visits(d)[i - 1])
                  t == IF i = 1 THEN Max({Crew(d).from, problem.now}) ELSE Visits(d)[i - 1].end
              IN /\ w.start >= t + (IF x = Anywhere THEN 0 ELSE Between(x, Place(w), Job(w.job).area))
                 /\ w.end <= Crew(d).until + Overtime)'
  BY <1>4, <1>11, <1>12 DEF Place, Job, Crew
<1> QED BY <1>4, <1>11, <1>13 DEF DayCanBeWorked, Crew

\* Every visit is within the windows that were asked for, by its place in a route.
Kept(v, windows) == \E w \in windows : w[1] <= v.start /\ v.end <= w[2]
Agreed(v) ==
  /\ RespectWindows /\ Job(v.job).access => Kept(v, Job(v.job).windows)
  /\ Job(v.job).building # {} => Kept(v, Job(v.job).building)
AllAgreed == \A c \in Crews : \A n \in 1..Len(Visits(c)) : Agreed(Visits(c)[n])

\* Every visit is still within the windows that were asked for.
LEMMA AgreedKept ==
  ASSUME Typed, AllAgreed, NEW j \in Jobs, NEW c \in Crews, NEW s \in StartsForCrew(j, c), Placed(j, c, s)
  PROVE  AllAgreed'
<1>0. problem' = problem /\ s \in Int
  BY StartsAreReachable DEF Placed
<1>1. \A v : Agreed(v)' = Agreed(v)
  BY <1>0 DEF Agreed, Job
<1>2. Agreed(VisitOf(j, s))
  <2>1. ~Closed(j, s, s + Job(j).dur)
    BY StartsAreReachable DEF Refuses
  <2> QED BY <2>1 DEF Closed, WithinAny, Agreed, Kept, VisitOf
<1>3. /\ Len(Visits(c)) \in Nat /\ Len(Visits(c)') = Len(Visits(c)) + 1
      /\ \A n \in 1..Len(Visits(c)) : Visits(c)'[n] = Visits(c)[n]
      /\ Visits(c)'[Len(Visits(c)) + 1] = VisitOf(j, s)
  BY <1>0, VisitsAfter
<1>4. \A n \in 1..Len(Visits(c)') : n \in 1..Len(Visits(c)) \/ n = Len(Visits(c)) + 1
  BY <1>3
<1>5. \A n \in 1..Len(Visits(c)') : Agreed(Visits(c)'[n])
  BY <1>2, <1>3, <1>4 DEF AllAgreed
<1>6. \A d \in Crews \ {c} : Visits(d)' = Visits(d)
  BY <1>0, RouteGrows
<1>7. \A d \in Crews : \A n \in 1..Len(Visits(d)') : Agreed(Visits(d)'[n])
  BY <1>5, <1>6 DEF AllAgreed
<1> QED BY <1>0, <1>7 DEF AllAgreed, Agreed, Job

\* Placing a job whose turn it is leaves every job in one place.
LEMMA OnePlaceAfterPlacing ==
  ASSUME Typed, OnePlace, NEW j \in Turn, NEW c \in Crews, NEW s \in Int, Placed(j, c, s)
  PROVE  OnePlace' /\ \A i : OnPlan(i)' <=> OnPlan(i) \/ i = j
<1>1. j \in waiting /\ j \in Jobs /\ refused' = refused /\ waiting' = waiting \ {j}
  BY DEF Turn, Typed, Placed
<1>2. /\ Len(Visits(c)) \in Nat /\ Len(Visits(c)') = Len(Visits(c)) + 1
      /\ \A n \in 1..Len(Visits(c)) : Visits(c)'[n] = Visits(c)[n]
      /\ Visits(c)'[Len(Visits(c)) + 1].job = j
  <2>1. VisitOf(j, s).job = j
    BY DEF VisitOf
  <2> QED BY <1>1, <2>1, VisitsAfter
<1>3. \A d \in Crews \ {c} : Visits(d)' = Visits(d)
  BY <1>1, RouteGrows
<1>4. \A n : n \in 1..Len(Visits(c)') <=> n \in 1..Len(Visits(c)) \/ n = Len(Visits(c)) + 1
  BY <1>2
<1>5. \A i : (\E n \in 1..Len(Visits(c)') : Visits(c)'[n].job = i)
               <=> (\E n \in 1..Len(Visits(c)) : Visits(c)[n].job = i) \/ i = j
  BY <1>2, <1>4
<1>6. \A i : OnPlan(i)' <=> OnPlan(i) \/ i = j
  <2> DEFINE Has(d, i) == \E n \in 1..Len(Visits(d)) : Visits(d)[n].job = i
             HasNow(d, i) == \E n \in 1..Len(Visits(d)') : Visits(d)'[n].job = i
  <2>1. \A i : \A d \in Crews \ {c} : HasNow(d, i) <=> Has(d, i)
    BY <1>3
  <2>2. \A i : HasNow(c, i) <=> Has(c, i) \/ i = j
    BY <1>5
  <2>3. \A i : (OnPlan(i) <=> \E d \in Crews : Has(d, i)) /\ (OnPlan(i)' <=> \E d \in Crews : HasNow(d, i))
    BY DEF OnPlan
  <2> HIDE DEF Has, HasNow
  <2> QED BY <2>1, <2>2, <2>3
<1>7. ASSUME NEW d \in Crews, NEW e \in Crews, NEW m \in 1..Len(Visits(d)'), NEW n \in 1..Len(Visits(e)'),
             Visits(d)'[m].job = Visits(e)'[n].job
      PROVE  d = e /\ m = n
  <2> DEFINE New(x, k) == x = c /\ k = Len(Visits(c)) + 1
  <2>1. \A x \in Crews : \A k \in 1..Len(Visits(x)') :
          \/ New(x, k) /\ Visits(x)'[k].job = j
          \/ k \in 1..Len(Visits(x)) /\ Visits(x)'[k] = Visits(x)[k] /\ Visits(x)'[k].job # j
    <3>1. ~OnPlan(j)
      BY <1>1 DEF OnePlace
    <3>2. \A x \in Crews : \A k \in 1..Len(Visits(x)) : Visits(x)[k].job # j
      BY <3>1 DEF OnPlan
    <3> QED BY <1>2, <1>3, <1>4, <3>2
  <2> QED BY <1>7, <2>1 DEF OnePlace
<1>8. waiting' \cap refused' = {}
  BY <1>1 DEF OnePlace
<1>9. \A i \in Jobs : i \in waiting' \/ i \in refused' \/ OnPlan(i)'
  BY <1>1, <1>6 DEF OnePlace
<1>10. \A i \in waiting' \cup refused' : ~OnPlan(i)'
  BY <1>1, <1>6 DEF OnePlace
<1>11. OnePlace'
  BY <1>7, <1>8, <1>9, <1>10 DEF OnePlace
<1> QED BY <1>6, <1>11

-----------------------------------------------------------------------------
(* Predecessors *)

\* No two jobs are each sooner than the other.
LEMMA SoonerIsAsymmetric ==
  ASSUME NEW jobs \in [Jobs -> JobCatalog], NEW i \in Jobs, NEW j \in Jobs, Sooner(jobs, i, j)
  PROVE  ~Sooner(jobs, j, i)
<1>1. \A k \in Jobs : UrgencyRank(jobs[k]) \in Int
  <2> SUFFICES ASSUME NEW k \in Jobs PROVE UrgencyRank(jobs[k]) \in Int
    OBVIOUS
  <2> DEFINE r == jobs[k]
  <2>1. r.dur \in Nat \ {0} /\ r.sla \in Int /\ r.priority \in Int /\ r.affected \in Int
    BY DispatchAssumption DEF DispatchAssumption
  <2> HIDE DEF r
  <2>2. SlaUrgency(r) \in Int
    BY <2>1 DEF SlaUrgency
  <2> DEFINE all == 100
  <2>3. all \in Int
    OBVIOUS
  <2> HIDE DEF all
  <2>4. Min({all, r.affected}) \in Int
    BY <2>1, <2>3, MinOfTwo
  <2> QED BY <2>1, <2>2, <2>4 DEF UrgencyRank, r, all
<1>2. i \in Nat /\ j \in Nat
  BY DispatchAssumption DEF DispatchAssumption
<1> QED BY <1>1, <1>2 DEF Sooner

\* When a job's turn comes, none of those it waits for has its turn still to come.
LEMMA TurnAfterPredecessors ==
  ASSUME Typed, NEW j \in Turn
  PROVE  Job(j).after \cap waiting = {}
<1> DEFINE jobs == problem.jobs
<1>1. j \in Jobs /\ jobs \in [Jobs -> JobCatalog] /\ SingleLevel(jobs) /\ j \notin jobs[j].after
      /\ waiting \subseteq Jobs
  BY DEF Typed, Problems, Turn
<1> HIDE DEF jobs
<1> SUFFICES ASSUME NEW p \in jobs[j].after \cap waiting PROVE FALSE
  BY DEF Job, jobs
<1>2. p \in Jobs /\ p # j /\ Precedes(jobs, j, p)
  BY <1>1 DEF Turn, jobs
<1>3. PICK k \in Jobs, l \in Jobs :
        /\ Brings(jobs, k, j) /\ Brings(jobs, l, p)
        /\ Sooner(jobs, k, l) \/ (k = l /\ j # k /\ (p = k \/ j < p))
  BY <1>2 DEF Precedes
<1>4. k = j
  <2> SUFFICES ASSUME k # j PROVE FALSE
    OBVIOUS
  <2>1. j \in jobs[k].after \cap Jobs
    BY <1>1, <1>3 DEF Brings
  <2>2. jobs[j].after = {}
    BY <1>1, <2>1 DEF SingleLevel
  <2> QED BY <2>2
<1>5. l = j \/ Sooner(jobs, l, j)
  BY <1>1, <1>3 DEF Brings
<1>6. Sooner(jobs, j, l)
  BY <1>3, <1>4
<1> QED BY <1>1, <1>5, <1>6, SoonerIsAsymmetric

\* What is on the plan, or refused, has had its say: nobody it waits for is still to come.
Ordered ==
  /\ \A j : OnPlan(j) => \A p \in Job(j).after : OnPlan(p)
  /\ \A j \in refused : Job(j).after \cap waiting = {}

-----------------------------------------------------------------------------
(* The inductive invariant *)

Inv == DayInv /\ AllAgreed /\ OnePlace /\ Ordered

\* An empty plan satisfies the invariant.
LEMMA InvInit == Init => Inv
<1> SUFFICES ASSUME Init PROVE Inv
  OBVIOUS
<1>1. /\ problem.jobs \in [Jobs -> JobCatalog] /\ problem.crews \in [Crews -> CrewCatalog]
  BY DEF Init, Problems
<1>2. \A c \in Crews : /\ routes[c] = Depot(Crew(c)) /\ Crew(c).from \in Int
  BY <1>1, DispatchAssumption DEF Init, Crew, DispatchAssumption
<1>3. ASSUME NEW c \in Crews
      PROVE  /\ Visits(c) = <<>> /\ Len(Visits(c)) = 0 /\ 1..Len(Visits(c)) = {}
             /\ routes[c].free = Crew(c).from /\ routes[c].at = Anywhere
  <2>0. routes[c] = [visits |-> <<>>, free |-> Crew(c).from, at |-> Anywhere]
    BY <1>2 DEF Depot
  <2>1. routes[c].visits = <<>> /\ routes[c].free = Crew(c).from /\ routes[c].at = Anywhere
    BY <2>0
  <2>2. Visits(c) = <<>>
    BY <2>1 DEF Visits
  <2>3. Len(Visits(c)) = 0
    BY <2>2
  <2>4. 1..0 = {}
    OBVIOUS
  <2> QED BY <2>1, <2>2, <2>3, <2>4
<1>4. ASSUME NEW c \in Crews PROVE routes[c] \in Route
  <2>1. routes[c] = [visits |-> <<>>, free |-> Crew(c).from, at |-> Anywhere]
    BY <1>2 DEF Depot
  <2>2. <<>> \in Seq(VisitRecords) /\ Crew(c).from \in Int
    BY <1>2
  <2> QED BY <2>1, <2>2 DEF Route
<1>5. routes \in [Crews -> Route]
  BY <1>4 DEF Init
<1>6. Typed
  BY <1>5 DEF Init, Typed
<1>7. EndOfRoute /\ VisitsLast /\ DayCanBeWorked /\ AllAgreed
  BY <1>3 DEF EndOfRoute, VisitsLast, DayCanBeWorked, AllAgreed
<1>8. \A j : ~OnPlan(j)
  BY <1>3 DEF OnPlan
<1>9. OnePlace /\ Ordered
  BY <1>3, <1>8 DEF OnePlace, Ordered, Init
<1> QED BY <1>6, <1>7, <1>9 DEF Inv, DayInv

\* Placing a job keeps the invariant.
LEMMA InvAssign == Inv /\ Assign => Inv'
<1> SUFFICES ASSUME Inv, Assign PROVE Inv'
  OBVIOUS
<1> USE DEF Inv, DayInv
<1>1. PICK j \in Turn, c \in Offered : \E s \in StartsForCrew(j, c) : Placed(j, c, s)
  BY AssignPlaces
<1>2. PICK s \in StartsForCrew(j, c) : Placed(j, c, s)
  BY <1>1
<1>3. j \in Jobs /\ c \in Crews /\ s \in Int
  <2>1. j \in Jobs /\ c \in Crews
    BY DEF Turn, Offered, Typed
  <2> QED BY <2>1, StartsAreReachable
<1>4. Typed'
  BY <1>2, <1>3, RouteGrows
<1>5. EndOfRoute'
  BY <1>2, <1>3, EndOfRouteKept
<1>6. VisitsLast'
  BY <1>2, <1>3, VisitsLastKept
<1>7. DayCanBeWorked'
  BY <1>2, <1>3, DayKept
<1>8. AllAgreed'
  BY <1>2, <1>3, AgreedKept
<1>9. OnePlace' /\ \A i : OnPlan(i)' <=> OnPlan(i) \/ i = j
  BY <1>2, <1>3, OnePlaceAfterPlacing
<1>10. Ordered'
  <2>1. problem' = problem /\ refused' = refused /\ waiting' \subseteq waiting
    BY <1>2 DEF Placed
  <2>2. Job(j).after \subseteq Scheduled
    <3>1. ~Refuses(j, c, s)
      BY <1>3, StartsAreReachable
    <3> QED BY <3>1 DEF Refuses, Permanent, AwaitsOthers
  <2>3. \A p \in Job(j).after : OnPlan(p)
    BY <2>2, VisitsByPlace
  <2>4. \A i : Job(i)' = Job(i)
    BY <2>1 DEF Job
  <2>5. \A i : OnPlan(i)' => \A p \in Job(i)'.after : OnPlan(p)'
    BY <1>9, <2>3, <2>4 DEF Ordered
  <2>6. \A i \in refused' : Job(i)'.after \cap waiting' = {}
    BY <2>1, <2>4 DEF Ordered
  <2> QED BY <2>5, <2>6 DEF Ordered
<1> QED BY <1>4, <1>5, <1>6, <1>7, <1>8, <1>9, <1>10

\* Leaving a job to the dispatcher keeps the invariant.
LEMMA InvRefuse == Inv /\ Refuse => Inv'
<1> SUFFICES ASSUME Inv, Refuse PROVE Inv'
  OBVIOUS
<1> USE DEF Inv, DayInv
<1>1. PICK j \in Turn : /\ refused' = refused \cup {j} /\ waiting' = waiting \ {j}
                        /\ UNCHANGED <<problem, routes>>
  BY DEF Refuse
<1>2. j \in waiting /\ j \in Jobs
  BY DEF Turn, Typed
<1>3. /\ \A i : Job(i)' = Job(i) /\ Crew(i)' = Crew(i) /\ Visits(i)' = Visits(i)
      /\ \A i : OnPlan(i)' <=> OnPlan(i)
  BY <1>1 DEF Job, Crew, Visits, OnPlan
<1>4. Typed'
  BY <1>1, <1>2 DEF Typed
<1>5. EndOfRoute' /\ VisitsLast' /\ AllAgreed'
  BY <1>1 DEF EndOfRoute, LastVisit, Place, VisitsLast, AllAgreed, Agreed, Job, Crew, Visits
<1>6. DayCanBeWorked'
  BY <1>1, ZenonT(40) DEF DayCanBeWorked, Between, Place, Job, Crew, Visits
<1>7. OnePlace'
  BY <1>1, <1>2, <1>3 DEF OnePlace
<1>8. Ordered'
  <2>1. Job(j).after \cap waiting = {}
    BY TurnAfterPredecessors
  <2>2. \A i \in refused' : Job(i).after \cap waiting' = {}
    BY <1>1, <2>1 DEF Ordered
  <2> QED BY <1>3, <2>2 DEF Ordered
<1> QED BY <1>4, <1>5, <1>6, <1>7, <1>8

\* A step that changes nothing keeps the invariant.
LEMMA InvStutter == Inv /\ UNCHANGED vars => Inv'
<1> SUFFICES ASSUME Inv, UNCHANGED vars PROVE Inv'
  OBVIOUS
<1> USE DEF Inv, DayInv
<1>1. problem' = problem /\ waiting' = waiting /\ routes' = routes /\ refused' = refused
  BY DEF vars
<1>2. Typed' /\ EndOfRoute' /\ VisitsLast' /\ AllAgreed'
  BY <1>1 DEF Typed, EndOfRoute, LastVisit, Place, VisitsLast, AllAgreed, Agreed, Job, Crew, Visits
<1>3. DayCanBeWorked'
  <2>1. /\ \A c : Visits(c)' = Visits(c) /\ Crew(c)' = Crew(c)
        /\ \A j : Job(j)' = Job(j)
    BY <1>1 DEF Visits, Crew, Job
  <2>2. \A v : Place(v)' = Place(v)
    BY <2>1 DEF Place
  <2>3. \A from, to, area : Between(from, to, area)' = Between(from, to, area)
    BY <1>1 DEF Between
  <2> QED BY <1>1, <2>1, <2>2, <2>3 DEF DayCanBeWorked
<1>4. OnePlace' /\ Ordered'
  BY <1>1 DEF OnePlace, Ordered, OnPlan, Job, Visits
<1> QED BY <1>2, <1>3, <1>4

\* The invariant holds throughout.
THEOREM PlanInvariant == Spec => []Inv
<1>1. Inv /\ [Next]_vars => Inv'
  BY InvAssign, InvRefuse, InvStutter DEF Next, Solved
<1> QED BY InvInit, <1>1, PTL DEF Spec

-----------------------------------------------------------------------------
(* What follows *)

\* Every job is waiting, refused or on the plan once, and no visit is empty (`solve`).
THEOREM TypeCorrect == Spec => []TypeOK
<1>1. Inv => TypeOK
  <2> SUFFICES ASSUME Inv PROVE TypeOK
    OBVIOUS
  <2> USE DEF Inv, DayInv
  <2>1. \A c \in Crews : /\ Visits(c) \in Seq(VisitRecords) /\ DOMAIN Visits(c) = 1..Len(Visits(c))
                         /\ Range(Visits(c)) = {Visits(c)[n] : n \in 1..Len(Visits(c))}
    BY VisitsByPlace
  <2>2. \A j : j \in Scheduled <=> OnPlan(j)
    BY VisitsByPlace
  <2>3. ASSUME NEW c \in Crews, NEW v \in Range(Visits(c)) PROVE v.job \in Jobs /\ v.start < v.end
    <3>1. PICK n \in 1..Len(Visits(c)) : v = Visits(c)[n]
      BY <2>1
    <3>2. v \in VisitRecords
      BY <2>1, <3>1
    <3>3. v.end = v.start + Job(v.job).dur
      BY <3>1 DEF VisitsLast
    <3>4. Job(v.job).dur \in Nat \ {0}
      BY <3>2, Given, DispatchAssumption DEF VisitRecords, DispatchAssumption
    <3> QED BY <3>2, <3>3, <3>4 DEF VisitRecords
  <2>4. \A j : OnPlan(j) => j \in Jobs
    <3> SUFFICES ASSUME NEW c \in Crews, NEW n \in 1..Len(Visits(c)) PROVE Visits(c)[n].job \in Jobs
      BY DEF OnPlan
    <3>1. Visits(c)[n] \in Range(Visits(c))
      BY <2>1
    <3> QED BY <2>3, <3>1
  <2>5. waiting \cup refused \cup Scheduled = Jobs
    BY <2>2, <2>4 DEF OnePlace, Typed
  <2>6. waiting \cap refused = {} /\ Scheduled \cap (waiting \cup refused) = {}
    BY <2>2 DEF OnePlace
  <2>7. \A c, d \in Crews : \A m \in DOMAIN Visits(c), n \in DOMAIN Visits(d) :
          Visits(c)[m].job = Visits(d)[n].job => c = d /\ m = n
    BY <2>1 DEF OnePlace
  <2> QED BY <2>3, <2>5, <2>6, <2>7 DEF TypeOK, Typed
<1> QED BY <1>1, PlanInvariant, PTL

\* Every crew can work the day it is given (`_Route`, `_crew_slot` and the shift checks).
THEOREM DayWorkable == Spec => []DayCanBeWorked
<1>1. Inv => DayCanBeWorked
  BY DEF Inv, DayInv
<1> QED BY <1>1, PlanInvariant, PTL

\* Customers and buildings are visited when they said they could be (`check_windows`).
THEOREM Appointments == Spec => []AppointmentsKept
<1>1. Inv => AppointmentsKept
  <2> SUFFICES ASSUME Inv, NEW c \in Crews, NEW v \in Range(Visits(c)) PROVE Agreed(v)
    BY DEF AppointmentsKept, Agreed, Kept
  <2>1. PICK n \in 1..Len(Visits(c)) : v = Visits(c)[n]
    BY VisitsByPlace DEF Inv, DayInv
  <2> QED BY <2>1 DEF Inv, AllAgreed
<1> QED BY <1>1, PlanInvariant, PTL

\* Jobs are placed after those they wait for, and none is refused too early (`_queue`).
THEOREM Predecessors == Spec => []PredecessorsGoFirst
<1>1. Inv => PredecessorsGoFirst
  <2> SUFFICES ASSUME Inv PROVE PredecessorsGoFirst
    OBVIOUS
  <2>1. \A j : j \in Scheduled <=> OnPlan(j)
    BY VisitsByPlace DEF Inv, DayInv
  <2> QED BY <2>1 DEF Inv, Ordered, PredecessorsGoFirst
<1> QED BY <1>1, PlanInvariant, PTL

-----------------------------------------------------------------------------
(* Refusals *)

\* The least of a set of instants that are all at or after some instant
LEMMA LeastInstant ==
  ASSUME NEW e \in Int, NEW S, \A s \in S : s \in Int /\ s >= e, S # {}
  PROVE  \E s \in S : \A t \in S : s <= t
<1> DEFINE T == {n \in Nat : e + n \in S}
<1>1. T # {}
  <2>1. PICK s \in S : TRUE
    OBVIOUS
  <2>2. s \in Int /\ s >= e
    OBVIOUS
  <2>3. s - e \in Nat /\ e + (s - e) = s
    BY <2>2
  <2> QED BY <2>3
<1>2. PICK n \in T : \A m \in T : ~(<<m, n>> \in OpToRel(<, Nat))
  BY <1>1, NatLessThanWellFounded, WFMin
<1>3. \A m \in T : n <= m
  <2> SUFFICES ASSUME NEW m \in T PROVE n <= m
    OBVIOUS
  <2>1. ~(m < n)
    BY <1>2 DEF OpToRel
  <2> QED BY <2>1
<1>4. ASSUME NEW t \in S PROVE e + n <= t
  <2>1. t \in Int /\ t >= e
    OBVIOUS
  <2>2. t - e \in Nat /\ e + (t - e) = t
    BY <2>1
  <2>3. n <= t - e
    BY <1>3, <2>2
  <2> QED BY <2>1, <2>3
<1> QED BY <1>4

\* The starts tried are instants, none before the earliest.
LEMMA TriedAfterEarliest ==
  ASSUME Typed, NEW j \in Jobs, NEW e \in Int, NEW s \in WindowStarts(j, e)
  PROVE  s \in Int /\ s >= e
<1>1. CASE Windows(j) = {}
  <2>1. PICK i \in 0..(MaxSteps - 1) : s = e + i
    BY <1>1 DEF WindowStarts
  <2>2. MaxSteps \in Nat
    BY DispatchAssumption DEF DispatchAssumption
  <2> QED BY <2>1, <2>2
<1>2. CASE Windows(j) # {} /\ s # e
  <2>1. PICK w \in Windows(j) : s = Max({e, w[1]})
    BY <1>2 DEF WindowStarts
  <2>2. w[1] \in Int
    BY WindowsAreIntervals
  <2> QED BY <2>1, <2>2, MaxOfTwo
<1> QED BY <1>1, <1>2

\* A visit within a window the search uses is one the constraints allow.
LEMMA WindowsAreOpen ==
  ASSUME Typed, NEW j \in Jobs, NEW w \in Windows(j), NEW s \in Int,
         w[1] <= s, s + Job(j).dur <= w[2]
  PROVE  ~Closed(j, s, s + Job(j).dur)
<1> DEFINE e == s + Job(j).dur
<1>1. /\ Job(j).windows \cup Job(j).building \subseteq Int \X Int
      /\ Job(j).access => Job(j).windows # {}
      /\ e \in Int
  BY Given, DispatchAssumption DEF DispatchAssumption
<1> HIDE DEF e
<1> SUFFICES /\ Job(j).windows # {} => WithinAny(s, e, Job(j).windows)
             /\ Job(j).building # {} => WithinAny(s, e, Job(j).building)
  BY <1>1 DEF Closed, e
<1>2. w[1] <= s /\ e <= w[2]
  BY DEF e
<1>3. CASE Job(j).windows = {} \/ Job(j).building = {}
  BY <1>2, <1>3 DEF Windows, WithinAny
<1>4. CASE Job(j).windows # {} /\ Job(j).building # {}
  <2>1. PICK v \in Job(j).windows, b \in Job(j).building : w = Overlap(v, b)
    BY <1>4 DEF Windows
  <2>2. v[1] \in Int /\ v[2] \in Int /\ b[1] \in Int /\ b[2] \in Int
    BY <1>1
  <2>3. w[1] >= v[1] /\ w[1] >= b[1] /\ w[1] \in Int
    BY <2>1, <2>2, MaxOfTwo DEF Overlap
  <2>4. w[2] <= v[2] /\ w[2] <= b[2] /\ w[2] \in Int
    BY <2>1, <2>2, MinOfTwo DEF Overlap
  <2>5. v[1] <= s /\ e <= v[2] /\ b[1] <= s /\ e <= b[2]
    BY <1>1, <1>2, <2>2, <2>3, <2>4
  <2> QED BY <2>5 DEF WithinAny
<1> QED BY <1>3, <1>4

\* A visit the constraints allow a job whose windows bind lies within a window the search uses, if it
\* uses any.
LEMMA OpenIsInAWindow ==
  ASSUME Typed, NEW j \in Jobs, NEW s \in Int, WindowsBind(j), ~Closed(j, s, s + Job(j).dur),
         Job(j).windows # {} \/ Job(j).building # {}
  PROVE  \E w \in Windows(j) : w[1] <= s /\ s + Job(j).dur <= w[2]
<1> DEFINE e == s + Job(j).dur
<1>1. /\ Job(j).windows \cup Job(j).building \subseteq Int \X Int
      /\ Job(j).dur \in Nat \ {0} /\ e \in Int /\ s < e
  BY Given, DispatchAssumption DEF DispatchAssumption
<1>2. /\ Job(j).windows # {} => WithinAny(s, e, Job(j).windows)
      /\ Job(j).building # {} => WithinAny(s, e, Job(j).building)
  BY DEF Closed, WindowsBind
<1> HIDE DEF e
<1> SUFFICES \E w \in Windows(j) : w[1] <= s /\ e <= w[2]
  BY DEF e
<1>3. CASE Job(j).windows = {} \/ Job(j).building = {}
  BY <1>2, <1>3 DEF Windows, WithinAny
<1>4. CASE Job(j).windows # {} /\ Job(j).building # {}
  <2>1. PICK v \in Job(j).windows : v[1] <= s /\ e <= v[2]
    BY <1>2, <1>4 DEF WithinAny
  <2>2. PICK b \in Job(j).building : b[1] <= s /\ e <= b[2]
    BY <1>2, <1>4 DEF WithinAny
  <2>3. v[1] \in Int /\ v[2] \in Int /\ b[1] \in Int /\ b[2] \in Int
    BY <1>1
  <2> DEFINE o == Overlap(v, b)
  <2>4. o[1] = Max({v[1], b[1]}) /\ o[2] = Min({v[2], b[2]})
    BY DEF Overlap
  <2>5. o[1] \in {v[1], b[1]}
    BY <2>3, <2>4, MaxOfTwo
  <2>6. o[2] \in {v[2], b[2]}
    BY <2>3, <2>4, MinIsOne
  <2>7. o[1] <= s /\ e <= o[2] /\ o[1] < o[2]
    BY <1>1, <2>1, <2>2, <2>3, <2>5, <2>6
  <2>8. o \in Windows(j)
    BY <1>4, <2>7 DEF Windows
  <2> QED BY <2>7, <2>8
<1> QED BY <1>3, <1>4

\* Within one day the time of day is later for a later instant, and so for all that lies between.
LEMMA SameDay ==
  ASSUME NEW e \in Int, NEW t \in Int, NEW s \in Int, e <= t, t <= s, s \div 48 = e \div 48
  PROVE  t % 48 <= s % 48
<1>1. t \div 48 = e \div 48
  OBVIOUS
<1>2. t = 48 * (t \div 48) + (t % 48) /\ s = 48 * (s \div 48) + (s % 48)
  OBVIOUS
<1>3. {t \div 48, s \div 48, t % 48, s % 48} \subseteq Int
  OBVIOUS
<1> QED BY <1>1, <1>2, <1>3

\* An earlier start of the shift that is in a window, or needs none, is refused only if the later is.
LEMMA EarlierIsNoWorse ==
  ASSUME Typed, NEW j \in Jobs, NEW c \in Crews, NEW s \in Int, NEW t \in Int,
         t >= Earliest(j, c), t <= s, OnTheSameDay(j, c, s),
         ~Late(j, s), ~Refuses(j, c, s), ~Closed(j, t, t + Job(j).dur)
  PROVE  ~Late(j, t) /\ ~Refuses(j, c, t)
<1>1. /\ Job(j).dur \in Nat \ {0} /\ Crew(c).from \in Int /\ Crew(c).until \in Int /\ Overtime \in Nat
  BY Given, DispatchAssumption DEF DispatchAssumption
<1>2. t >= Crew(c).from
  <2>1. TravelTo(j, c) \in Nat /\ Earliest(j, c) \in Int /\ Earliest(j, c) >= Crew(c).from + TravelTo(j, c)
    BY EarliestIsReachable
  <2> QED BY <1>1, <2>1
<1>3. s + Job(j).dur <= Crew(c).until + Overtime
  BY <1>1 DEF Refuses, OutsideHours
<1>4. ~OutsideHours(c, t, t + Job(j).dur)
  BY <1>1, <1>2, <1>3 DEF OutsideHours
<1>5. ~PastCutoff(j, t)
  <2>1. Job(j).area = "remote_island" => t % 48 <= s % 48
    <3>1. Earliest(j, c) \in Int
      BY EarliestIsReachable
    <3> QED BY <3>1, SameDay DEF OnTheSameDay
  <2>2. t % 48 \in Int /\ s % 48 \in Int /\ IslandCutoff \in Int
    BY DispatchAssumption DEF DispatchAssumption
  <2>3. Job(j).area = "remote_island" => ~(s % 48 > IslandCutoff)
    BY DEF Refuses, PastCutoff, TimeOfDay
  <2> QED BY <2>1, <2>2, <2>3 DEF PastCutoff, TimeOfDay
<1>6. ~Late(j, t)
  <2>1. Job(j).latest \in Int
    BY Given, DispatchAssumption DEF DispatchAssumption
  <2> QED BY <1>1, <2>1 DEF Late
<1> QED BY <1>4, <1>5, <1>6 DEF Refuses

\* A job one of the crews offered could take at some moment is not left to the dispatcher.
LEMMA StartableIsFound ==
  ASSUME Typed, NEW j \in Jobs, NEW c \in Offered, NEW s \in Startable(j, c),
         OnTheSameDay(j, c, s), WindowsBind(j), ~Late(j, s), ~Refuses(j, c, s)
  PROVE  Attempts(j) # {}
<1> DEFINE e == Earliest(j, c)
           starts == WindowStarts(j, e)
           feasible(t) == ~Late(j, t) /\ ~Refuses(j, c, t)
           found == {t \in starts : feasible(t)}
<1>1. c \in Crews /\ e \in Int
  BY EarliestIsReachable DEF Offered
<1>2. s \in Int /\ e <= s
  <2>1. Crew(c).until + Overtime \in Int
    BY <1>1, Given, DispatchAssumption DEF DispatchAssumption
  <2> QED BY <1>1, <2>1 DEF Startable
<1>3. \A t \in starts : t \in Int /\ t >= e
  BY <1>1, TriedAfterEarliest
<1>4. ~Closed(j, s, s + Job(j).dur) /\ ~Permanent(j, c)
  BY DEF Refuses
<1>5. \E t \in starts : t <= s /\ ~Closed(j, t, t + Job(j).dur)
  <2>1. CASE Job(j).windows # {} \/ Job(j).building # {}
    <3>1. PICK w \in Windows(j) : w[1] <= s /\ s + Job(j).dur <= w[2]
      BY <1>2, <1>4, <2>1, OpenIsInAWindow
    <3> DEFINE t == Max({e, w[1]})
    <3>2. w[1] \in Int /\ w[2] \in Int /\ Job(j).dur \in Nat \ {0}
      BY WindowsAreIntervals, Given, DispatchAssumption DEF DispatchAssumption
    <3>3. t \in {e, w[1]} /\ t \in Int /\ t >= e /\ t >= w[1]
      BY <1>1, <3>2, MaxOfTwo
    <3> HIDE DEF t, e
    <3>4. t <= s /\ t + Job(j).dur <= w[2] /\ e <= w[2]
      BY <1>1, <1>2, <3>1, <3>2, <3>3
    <3>5. t \in WindowStarts(j, e)
      BY <3>4 DEF WindowStarts, t
    <3>6. ~Closed(j, t, t + Job(j).dur)
      BY <3>3, <3>4, WindowsAreOpen
    <3> QED BY <3>4, <3>5, <3>6
  <2>2. CASE Job(j).windows = {} /\ Job(j).building = {}
    <3>1. Windows(j) = {}
      BY <2>2 DEF Windows
    <3>2. MaxSteps \in Nat \ {0}
      BY DispatchAssumption DEF DispatchAssumption
    <3>3. 0 \in 0..(MaxSteps - 1) /\ e + 0 = e
      BY <1>1, <3>2
    <3>4. e \in WindowStarts(j, e)
      BY <3>1, <3>3 DEF WindowStarts
    <3>5. ~Closed(j, e, e + Job(j).dur)
      BY <2>2, Given, DispatchAssumption DEF Closed, DispatchAssumption
    <3> QED BY <1>2, <3>4, <3>5
  <2> QED BY <2>1, <2>2
<1>6. found # {}
  <2>1. PICK t \in starts : t <= s /\ ~Closed(j, t, t + Job(j).dur)
    BY <1>5
  <2>2. t \in Int /\ t >= e
    BY <1>3
  <2>3. feasible(t)
    BY <1>1, <1>2, <2>1, <2>2, EarlierIsNoWorse
  <2> QED BY <2>3
<1>7. PICK first \in found : \A t \in found : first <= t
  <2> HIDE DEF starts, feasible
  <2>1. \A t \in found : t \in Int /\ t >= e
    BY <1>3
  <2> HIDE DEF found, e
  <2> QED BY <1>1, <1>6, <2>1, LeastInstant
<1>8. first \in starts /\ feasible(first) /\ first \in Int
  BY <1>3
<1>9. ASSUME NEW t \in starts, t < first PROVE ~feasible(t) /\ ~Late(j, t) /\ ~Permanent(j, c)
  <2>1. t \in Int
    BY <1>3
  <2>2. ~feasible(t)
    <3>1. ~(first <= t)
      BY <1>8, <1>9, <2>1
    <3> QED BY <1>7, <3>1
  <2>3. ~Late(j, t)
    <3>1. Job(j).dur \in Int /\ Job(j).latest \in Int
      BY Given, DispatchAssumption DEF DispatchAssumption
    <3>2. t + Job(j).dur <= first + Job(j).dur
      BY <1>8, <1>9, <2>1, <3>1
    <3> QED BY <1>8, <2>1, <3>1, <3>2 DEF Late
  <2> QED BY <1>4, <2>2, <2>3
<1>10. first \in StartsForCrew(j, c)
  BY <1>8, <1>9 DEF StartsForCrew
<1>11. [crew |-> c, start |-> first] \in Attempts(j)
  BY <1>10 DEF Attempts
<1> QED BY <1>11

\* Nothing the search skips loses a visit (`_windows`, `_window_starts`, `_starts_for_crew`): a job whose
\* windows bind is left to the dispatcher only when every start of every crew (for an island job, of the
\* day the crew could first be there) is refused by a constraint or too late, whatever the packs, the
\* shifts and the tables of distances.
THEOREM RefusalsAreGenuine == Spec => RefusalIsGenuine
<1> DEFINE Step == \A j \in refused' \ refused :
                     WindowsBind(j) => \A c \in Offered : \A s \in Startable(j, c) :
                                         OnTheSameDay(j, c, s) => Late(j, s) \/ Refuses(j, c, s)
<1>1. Inv /\ [Next]_vars => [Step]_vars
  <2> SUFFICES ASSUME Inv, Next PROVE Step
    OBVIOUS
  <2> SUFFICES ASSUME NEW j \in refused' \ refused, WindowsBind(j),
                      NEW c \in Offered, NEW s \in Startable(j, c), OnTheSameDay(j, c, s),
                      ~Late(j, s), ~Refuses(j, c, s)
               PROVE  FALSE
    OBVIOUS
  <2>1. Refuse
    BY DEF Next, Assign, Solved, vars
  <2>2. j \in Turn /\ Attempts(j) = {}
    BY <2>1 DEF Refuse
  <2>3. Typed /\ j \in Jobs
    BY <2>2 DEF Inv, DayInv, Typed, Turn
  <2> QED BY <2>2, <2>3, StartableIsFound
<1>2. Spec => [][Step]_vars
  <2> HIDE DEF Step
  <2> QED BY <1>1, PlanInvariant, PTL DEF Spec
<1> QED BY <1>2 DEF RefusalIsGenuine

=============================================================================
