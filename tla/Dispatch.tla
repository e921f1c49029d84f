------------------------------ MODULE Dispatch ------------------------------
(***************************************************************************)
(* The dispatch optimiser (dispatch/): a queue of jobs, most urgent first, *)
(* each given the best crew and start that no hard constraint refuses, or  *)
(* left to a dispatcher.  One action places one job.                       *)
(*                                                                         *)
(* Times count half hours of UTC and so do travel and visits.  Left out:   *)
(* the wording of an explanation and the terms of the score that are the   *)
(* same for every candidate of one job.                                    *)
(***************************************************************************)
EXTENDS Integers, SequencesExt, FiniteSetsExt, Functions

CONSTANTS
  Jobs,          \* requirement ids, numbers: ties fall to the smaller
  Crews,         \* crew ids, numbers
  JobCatalog,    \* what a requirement and its context may be
  CrewCatalog,   \* rows the workforce system may return for a crew
  Nows,          \* when the solve may run
  Routings,      \* the sets of legs the routing engine may have answered
  Km,            \* <<from, to>> -> half hours of driving at the archetype's slowest
  Routed,        \* <<from, to>> -> half hours as routed
  Overhead, Ferry, Slowness,   \* archetype -> the pack's terms of travel
  Overtime, ShiftLimit, IslandCutoff, AppointmentWeight,   \* the pack's limits
  MatchCrewType, RespectWindows,                           \* and switches
  Behind,        \* how far local time is behind UTC
  MaxSteps       \* _MAX_SLOT_STEPS

Anywhere == "anywhere"   \* no coordinates
AnyTime  == -1           \* no earliest_start or latest_finish
Archetypes == DOMAIN Overhead

ASSUME DispatchAssumption ==
  /\ Jobs \subseteq Nat /\ Crews \subseteq Nat /\ MaxSteps \in Nat \ {0}
  /\ Nows \subseteq Int /\ {Overtime, ShiftLimit, IslandCutoff} \subseteq Nat
  /\ \A j \in JobCatalog : /\ j.dur \in Nat \ {0} /\ {j.earliest, j.latest, j.sla, j.priority, j.affected} \subseteq Int
                           /\ j.windows \cup j.building \subseteq Int \X Int
                           /\ j.access => j.windows # {}
  /\ \A c \in CrewCatalog : {c.from, c.until, c.max, c.booked} \subseteq Int /\ c.from < c.until

Cost(a) == Overhead[a] + Ferry[a] + Slowness[a]
Places == {j.place : j \in JobCatalog} \cup {c.base : c \in CrewCatalog}

ASSUME TravelAssumption ==
  /\ Overhead \in [Archetypes -> Nat] /\ Ferry \in [Archetypes -> Nat] /\ Slowness \in [Archetypes -> Nat]
  /\ \A j \in JobCatalog : j.area \in Archetypes \cup {"unknown"}
  /\ \E a \in Archetypes : \A b \in Archetypes : Cost(b) <= Cost(a)
  /\ \A from, to \in Places \ {Anywhere} : Km[<<from, to>>] \in Nat
  /\ \A routed \in Routings : \A leg \in routed : Routed[leg] \in Nat

VARIABLES
  problem,   \* the jobs and crews of this solve, its time and the legs that were routed
  waiting,   \* the jobs whose turn is still to come
  routes,    \* each crew's day so far: its visits, when and where it is free
  refused    \* the jobs left unassigned
vars == <<problem, waiting, routes, refused>>

Job(j)  == problem.jobs[j]
Crew(c) == problem.crews[c]
Visits(c) == routes[c].visits
Scheduled == {v.job : v \in UNION {Range(Visits(c)) : c \in Crews}}
-----------------------------------------------------------------------------
(* Travel *)

\* `_slowest_archetype`: an archetype nobody named is priced as the worst one.
SlowestArchetype == CHOOSE a \in Archetypes : \A b \in Archetypes : Cost(b) <= Cost(a)

\* `PolicyTravelModel.between`
Estimated(from, to, area) ==
  LET a == IF area = "unknown" THEN SlowestArchetype ELSE area
  IN Overhead[a] + Ferry[a] + (IF Anywhere \in {from, to} THEN 0 ELSE Km[<<from, to>>] * Slowness[a])

\* `MatrixTravelModel.between`: a leg the routing engine did not answer is estimated.
Between(from, to, area) ==
  IF <<from, to>> \in problem.routed THEN Routed[<<from, to>>] ELSE Estimated(from, to, area)

\* `_Route.position`: a visit without coordinates leaves the crew where its depot is.
Position(c) == IF routes[c].at = Anywhere THEN Crew(c).base ELSE routes[c].at

TravelTo(j, c) == Between(Position(c), Job(j).place, Job(j).area)

\* `_Route.ready_at`, and the earliest start `_attempts` gives the search
Earliest(j, c) ==
  Max({Max({routes[c].free, Crew(c).from, problem.now}) + TravelTo(j, c), Job(j).earliest})
-----------------------------------------------------------------------------
(* The constraints *)

\* Mutant: the visit begins inside a window.
BeginsInAny(s, e, windows) == \E w \in windows : w[1] <= s /\ s <= w[2]
\* `_within_any`: the whole visit
WithinAny(s, e, windows) == \E w \in windows : w[1] <= s /\ e <= w[2]

\* `_crew_slot`: what the crew can still take; a full crew is no slot.
Remaining(c) == Crew(c).max - Crew(c).booked
Offered == {c \in Crews : Remaining(c) >= 1}

Full(c) == Len(Visits(c)) >= Min({Remaining(c), ShiftLimit})

AwaitsOthers(j) == ~(Job(j).after \subseteq Scheduled)

\* Refusals that no other start would lift
Permanent(j, c) ==
  \/ ~(Job(j).skills \subseteq Crew(c).skills)
  \/ MatchCrewType /\ Crew(c).type # Job(j).type
  \/ ~(Job(j).gear \subseteq Crew(c).gear)
  \/ ~(Job(j).parts \subseteq Crew(c).parts) \/ (Job(j).parts # {} /\ ~Job(j).stocked)
  \/ Job(j).area # "unknown" /\ Crew(c).areas # {} /\ Job(j).area \notin Crew(c).areas
  \/ Full(c)
  \/ AwaitsOthers(j)

OutsideHours(c, s, e) == s < Crew(c).from \/ e > Crew(c).until + Overtime

\* `check_remote_access_window` reads the time of day off the UTC instant.
TimeOfDay(t) == t % 48
PastCutoff(j, t) == Job(j).area = "remote_island" /\ TimeOfDay(t) > IslandCutoff

Closed(j, s, e) ==
  \/ RespectWindows /\ Job(j).access /\ ~WithinAny(s, e, Job(j).windows)
  \/ Job(j).building # {} /\ ~WithinAny(s, e, Job(j).building)

\* Some constraint refuses the candidate.
Refuses(j, c, s) ==
  LET e == s + Job(j).dur
  IN \/ Permanent(j, c) \/ Job(j).grounded
     \/ OutsideHours(c, s, e) \/ Closed(j, s, e) \/ PastCutoff(j, s)

Late(j, s) == Job(j).latest # AnyTime /\ s + Job(j).dur > Job(j).latest
-----------------------------------------------------------------------------
(* The search *)

Overlap(w, b) == <<Max({w[1], b[1]}), Min({w[2], b[2]})>>
\* `_windows`: customer and building windows, intersected
Windows(j) ==
  CASE Job(j).windows = {} -> Job(j).building
    [] Job(j).windows # {} /\ Job(j).building = {} -> Job(j).windows
    [] OTHER -> {o \in {Overlap(w, b) : w \in Job(j).windows, b \in Job(j).building} : o[1] < o[2]}

\* Mutant: only the moment a window opens is tried.
WindowOpenings(j, earliest) == {w[1] : w \in {w \in Windows(j) : earliest <= w[1]}}
\* `_window_starts`: the opening of each window not yet over, or every step when there is none.
WindowStarts(j, earliest) ==
  IF Windows(j) = {} THEN {earliest + i : i \in 0..(MaxSteps - 1)}
  ELSE {earliest} \cup {Max({earliest, w[1]}) : w \in {w \in Windows(j) : earliest <= w[2]}}

\* `_starts_for_crew`: in order, until one is feasible, too late, or refused for good.
StartsForCrew(j, c) ==
  LET starts == WindowStarts(j, Earliest(j, c))
      feasible(s) == ~Late(j, s) /\ ~Refuses(j, c, s)
  IN {s \in starts : /\ feasible(s)
                     /\ \A t \in starts : t < s =>
                          ~feasible(t) /\ ~Late(j, t) /\ ~Permanent(j, c)}

Attempts(j) == UNION {{[crew |-> c, start |-> s] : s \in StartsForCrew(j, c)} : c \in Offered}

\* `appointment_fit`, in halves
AppointmentFit(j, s) ==
  CASE Job(j).windows = {} -> 1
    [] WithinAny(s, s + Job(j).dur, Job(j).windows) -> 2
    [] OTHER -> 0

\* `score_candidate`: the terms that tell two candidates of a job apart
Score(j, a) == AppointmentWeight * AppointmentFit(j, a.start) - 2 * TravelTo(j, a.crew)

\* `_best`: the highest score, then the earliest start, then the smallest crew id
Better(j, a, b) ==
  \/ Score(j, a) > Score(j, b)
  \/ Score(j, a) = Score(j, b) /\ (a.start < b.start \/ (a.start = b.start /\ a.crew < b.crew))
Best(j) == {a \in Attempts(j) : \A b \in Attempts(j) : b = a \/ Better(j, a, b)}
-----------------------------------------------------------------------------
(* The queue *)

\* `sla_urgency`, in percent; -1 is no deadline known
SlaUrgency(j) ==
  CASE j.sla = -1 -> IF j.risk THEN 100 ELSE 0
    [] j.sla # -1 /\ j.sla <= j.dur -> 100
    [] OTHER -> (100 * j.dur) \div j.sla

\* `urgency_rank`: twice the urgency, the share of customers, and the planner's priority
UrgencyRank(j) == 2 * SlaUrgency(j) + Min({100, j.affected}) + j.priority

\* The key of `_queue`: most urgent first, ties to the smaller id
Sooner(jobs, i, j) ==
  \/ UrgencyRank(jobs[i]) > UrgencyRank(jobs[j])
  \/ UrgencyRank(jobs[i]) = UrgencyRank(jobs[j]) /\ i < j

\* The loop of `_queue` places j on the turn of k: the first of j itself and the jobs that wait for j.
Brings(jobs, k, j) ==
  LET bringers == {l \in Jobs : l = j \/ j \in jobs[l].after}
  IN k \in bringers /\ \A l \in bringers \ {k} : Sooner(jobs, k, l)

\* `_queue`: i comes before j.  On one turn the job's predecessors go in the order of their ids, and
\* the job itself goes last.
Precedes(jobs, i, j) ==
  \E k, l \in Jobs :
    /\ Brings(jobs, k, i) /\ Brings(jobs, l, j)
    /\ \/ Sooner(jobs, k, l)
       \/ k = l /\ i # k /\ (j = k \/ i < j)

\* A requirement's predecessors have none of their own: the dependencies the queue allows for.
SingleLevel(jobs) == \A j \in Jobs : \A p \in jobs[j].after \cap Jobs : jobs[p].after = {}

Problems ==
  {p \in [jobs : [Jobs -> JobCatalog], crews : [Crews -> CrewCatalog], now : Nows, routed : Routings] :
     SingleLevel(p.jobs) /\ \A j \in Jobs : j \notin p.jobs[j].after}

Depot(c) == [visits |-> <<>>, free |-> c.from, at |-> Anywhere]

Init ==
  /\ problem \in Problems
  /\ waiting = Jobs
  /\ routes = [c \in Crews |-> Depot(problem.crews[c])]
  /\ refused = {}

\* Whose turn it is
Turn == {j \in waiting : \A i \in waiting \ {j} : Precedes(problem.jobs, j, i)}

\* Mutant: the crew's day is only its latest visit.
Overwrites(c, v) ==
  [routes EXCEPT ![c] = [visits |-> <<v>>, free |-> v.end, at |-> Job(v.job).place]]
\* Mutant: the crew sets out for the next job from where it started the day.
StaysAtDepot(c, v) ==
  [routes EXCEPT ![c] = [visits |-> Append(Visits(c), v), free |-> v.end, at |-> Anywhere]]
Take(c, v) ==
  [routes EXCEPT ![c] = [visits |-> Append(Visits(c), v), free |-> v.end, at |-> Job(v.job).place]]

Assign ==
  \E j \in Turn :
    /\ \E a \in Best(j) :
         routes' = Take(a.crew, [job |-> j, start |-> a.start, end |-> a.start + Job(j).dur])
    /\ waiting' = waiting \ {j} /\ UNCHANGED <<problem, refused>>

Refuse ==
  \E j \in Turn :
    /\ Attempts(j) = {}
    /\ refused' = refused \cup {j}
    /\ waiting' = waiting \ {j} /\ UNCHANGED <<problem, routes>>

Solved == waiting = {} /\ UNCHANGED vars

Next == Assign \/ Refuse \/ Solved
Spec == Init /\ [][Next]_vars
-----------------------------------------------------------------------------
TypeOK ==
  /\ problem \in Problems
  /\ \A c \in Crews : \A v \in Range(Visits(c)) : v.job \in Jobs /\ v.start < v.end
  \* every job is in exactly one place
  /\ waiting \cup refused \cup Scheduled = Jobs
  /\ waiting \cap refused = {} /\ Scheduled \cap (waiting \cup refused) = {}
  /\ \A c, d \in Crews : \A m \in DOMAIN Visits(c), n \in DOMAIN Visits(d) :
       Visits(c)[m].job = Visits(d)[n].job => c = d /\ m = n

Place(v) == Job(v.job).place

\* A day a crew can work: it reaches each visit from where the one before it was, after it ended, and
\* is done within its shift and the overtime the pack buys, with no more visits than it had room for.
DayCanBeWorked ==
  \A c \in Crews :
    /\ \A i \in 1..Len(Visits(c)) :
         LET v == Visits(c)[i]
             from == IF i = 1 THEN Crew(c).base ELSE Place(Visits(c)[i - 1])
             free == IF i = 1 THEN Max({Crew(c).from, problem.now}) ELSE Visits(c)[i - 1].end
         IN /\ v.start >= free + (IF from = Anywhere THEN 0
                                  ELSE Between(from, Place(v), Job(v.job).area))
            /\ v.end <= Crew(c).until + Overtime
    /\ Len(Visits(c)) > 0 => Crew(c).booked + Len(Visits(c)) <= Crew(c).max

\* Whoever must be home, and whoever holds the key to the building, is there for the whole visit.
AppointmentsKept ==
  \A c \in Crews : \A v \in Range(Visits(c)) :
    LET kept(windows) == \E w \in windows : w[1] <= v.start /\ v.end <= w[2]
    IN /\ RespectWindows /\ Job(v.job).access => kept(Job(v.job).windows)
       /\ Job(v.job).building # {} => kept(Job(v.job).building)

\* No job is on the plan without the jobs it waits for, and none is refused for waiting on a job
\* whose turn comes later.
PredecessorsGoFirst ==
  /\ \A j \in Scheduled : Job(j).after \subseteq Scheduled
  /\ \A j \in refused : Job(j).after \cap waiting = {}

\* Windows that bind nobody narrow the search all the same; those jobs are left out here.
WindowsBind(j) == Job(j).windows # {} => Job(j).access /\ RespectWindows

Startable(j, c) == Earliest(j, c)..(Crew(c).until + Overtime)

\* The cutoff is a time of day of UTC: to an island job the next day is open again, as far as an
\* evening shift reaches into it, and the search may stop before it gets there.
OnTheSameDay(j, c, s) == Job(j).area = "remote_island" => s \div 48 = Earliest(j, c) \div 48

\* A job is left to the dispatcher only when no crew could have taken it at any moment of its shift
\* (for an island job, of that day): stopping at window openings, at the first refusal for good and
\* after MaxSteps loses no visit.
RefusalIsGenuine ==
  [][\A j \in refused' \ refused :
       WindowsBind(j) => \A c \in Offered : \A s \in Startable(j, c) :
                           OnTheSameDay(j, c, s) => Late(j, s) \/ Refuses(j, c, s)]_vars

(* What the pack says of the island cutoff, and the check does not do *)

\* The cutoff is local time: an island job is refused only if no start by that hour would have done.
RefusesByLocalTime(j, c, s) ==
  LET e == s + Job(j).dur
  IN \/ Permanent(j, c) \/ Job(j).grounded \/ OutsideHours(c, s, e) \/ Closed(j, s, e)
     \/ TimeOfDay(s - Behind) > IslandCutoff
IslandJobsAreTaken ==
  [][\A j \in refused' \ refused :
       Job(j).area = "remote_island" =>
         \A c \in Offered : \A s \in Startable(j, c) : RefusesByLocalTime(j, c, s)]_vars
=============================================================================
