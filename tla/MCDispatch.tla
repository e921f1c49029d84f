----------------------------- MODULE MCDispatch -----------------------------
EXTENDS Dispatch

MCJobs == 1..3
MCCrews == 1..2

\* Puerto Rico is four hours behind UTC: the day shift is 12:00 to 20:00 UTC, the evening shift of
\* CREW-CLEAN-SJ-02 is 16:00 to 02:00.
MCOverhead == [metro_mdu |-> 1, remote_island |-> 1]
MCFerry    == [metro_mdu |-> 0, remote_island |-> 3]
MCSlowness == [metro_mdu |-> 1, remote_island |-> 1]
Spots == {"depot", "near", "far"}
MCKm     == [leg \in Spots \X Spots |-> IF leg[1] = leg[2] THEN 0 ELSE IF "far" \in Range(leg) THEN 3 ELSE 1]
MCRouted == [leg \in Spots \X Spots |-> IF leg[1] = leg[2] THEN 1 ELSE 2]
MCRoutings == {{}, {<<"depot", "far">>}}

Visit ==
  [type |-> "clean", skills |-> {}, gear |-> {}, parts |-> {}, stocked |-> TRUE, area |-> "metro_mdu",
   place |-> "near", dur |-> 2, access |-> FALSE, windows |-> {}, building |-> {}, grounded |-> FALSE,
   earliest |-> AnyTime, latest |-> AnyTime, after |-> {}, sla |-> -1, risk |-> FALSE, affected |-> 1,
   priority |-> 50]

MCJobCatalog ==
  { Visit,
    [Visit EXCEPT !.place = "far", !.dur = 4, !.sla = 6],
    [Visit EXCEPT !.place = Anywhere, !.area = "unknown", !.affected = 30],
    [Visit EXCEPT !.access = TRUE, !.windows = {<<28, 31>>, <<34, 38>>}, !.dur = 4, !.risk = TRUE],
    [Visit EXCEPT !.access = TRUE, !.windows = {<<26, 34>>}, !.building = {<<30, 40>>}, !.dur = 3],
    [Visit EXCEPT !.windows = {<<36, 40>>}, !.building = {<<28, 40>>}, !.dur = 6],
    [Visit EXCEPT !.after = {2}, !.sla = 1],
    [Visit EXCEPT !.after = {9}],
    [Visit EXCEPT !.place = "far", !.area = "remote_island", !.priority = 80],
    [Visit EXCEPT !.skills = {"splicing"}, !.parts = {"drop"}, !.earliest = 34, !.latest = 38] }

Van ==
  [type |-> "clean", skills |-> {}, gear |-> {}, parts |-> {}, areas |-> {}, base |-> "depot",
   from |-> 24, until |-> 40, max |-> 6, booked |-> 0]
MCCrewCatalog ==
  { Van,
    [Van EXCEPT !.skills = {"splicing"}, !.parts = {"drop"}, !.base = "far", !.until = 33],
    [Van EXCEPT !.max = 2, !.booked = 1, !.areas = {"metro_mdu"}],
    [Van EXCEPT !.from = 32, !.until = 52],
    [Van EXCEPT !.booked = 6] }
MCNows == {20, 28}
=============================================================================
