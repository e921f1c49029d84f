---------------------------- MODULE Assessment ----------------------------
(***************************************************************************)
(* How evidence becomes a root cause: the nodes P07-P11 of the parent      *)
(* graph with what they read, the detectors that speak, the tests that are *)
(* planned for their rivals, and the arithmetic that folds every finding   *)
(* of the case into one fault domain and a confidence.                     *)
(*                                                                         *)
(* A reading's content is what its detector says of it: nothing, or one    *)
(* finding with a domain and a weight (score x confidence, in hundredths). *)
(* A finding that names no domain changes no conclusion and is left out.   *)
(* Posteriors and confidences are in ten-thousandths, rounded as the code  *)
(* rounds them.                                                            *)
(***************************************************************************)
EXTENDS Integers, FiniteSets, FiniteSetsExt

CONSTANTS
  Technology,       \* "hfc", "pon" or "unknown"
  Resolved,         \* the references enrichment found for the service
  Detectors,        \* the telemetry detectors that have something to say in this case
  Strengths,        \* what a detector's finding may weigh
  MinSources,       \* evidence.min_sources_for_diagnosis
  ConfidentAt,      \* rca.review_below
  Margin,           \* rca.ambiguity_margin
  MinForAction,     \* the least confidence any action of the pack asks for
  MaxCycles, MaxLaps   \* bounds: evidence passes and resolution laps explored

(*------------------------- what is read, and by whom ---------------------*)

Slot(field, ref) == [field |-> field, ref |-> ref]

\* The adapter reads: the context field each lands in, and the reference it needs.
SourceTable == [
  rf            |-> Slot("nxt", "service"),             pnm         |-> Slot("nxt", "service"),
  service_group |-> Slot("nxt", "group"),               optical     |-> Slot("plant", "service"),
  port          |-> Slot("plant", "parent"),            delimiter   |-> Slot("plant", "delimiter"),
  status        |-> Slot("cpe_raw", "cpe"),             wifi        |-> Slot("wifi", "cpe"),
  throughput    |-> Slot("service_platform", "cpe"),    changes     |-> Slot("recent_changes", "service"),
  outages       |-> Slot("power_outages", "location"),  weather     |-> Slot("weather", "location")]

\* `recent_changes` is listed for P07 and has no call in the table of reads: it is never fetched.
Sources ==
  DOMAIN SourceTable
    \ ((IF Technology = "pon" THEN {"rf", "pnm", "service_group"} ELSE {})
         \cup (IF Technology = "hfc" THEN {"optical"} ELSE {}) \cup {"changes"})

Verdict(by, on, domain, tests) == [by |-> by, on |-> on, domain |-> domain, tests |-> tests]

\* What a detector may say: of which reading, which domain, and the tests it recommends.
LineVerdicts == {
  Verdict("hfc_rf", "rf", "drop", {"rf_levels", "pnm_sweep"}),
  Verdict("hfc_rf", "rf", "distribution", {"rf_levels", "pnm_sweep"})}
FibreVerdicts == {
  Verdict("pon_optical", "optical", "power", {"omci_status"}),
  Verdict("pon_optical", "optical", "provisioning", {"omci_status", "provisioning_check"}),
  Verdict("pon_optical", "optical", "drop", {"optical_power", "omci_status"}),
  Verdict("pon_optical", "optical", "distribution", {"optical_power", "omci_status"})}
HomeVerdicts == {
  Verdict("cpe_wifi", "status", "cpe", {"cpe_connectivity"}),
  Verdict("cpe_wifi", "wifi", "customer_environment", {"wifi_survey", "throughput_test"})}
PlatformVerdicts ==
  {Verdict("service_platform", "throughput", "service_platform", {"throughput_test", "platform_check"})}
ClusterVerdicts == {Verdict("cluster", "delimiter", "tap_or_odp", {"neighbours"})}
ChangeVerdicts == {Verdict("recent_change", "changes", "provisioning", {"provisioning_check"})}
PowerVerdicts == {Verdict("power_weather", "outages", "power", {})}
LocaliserVerdicts == {
  Verdict("localiser", "port", "node_or_olt", {"neighbours"}),
  Verdict("localiser", "delimiter", "drop", {"neighbours"}),
  Verdict("localiser", "delimiter", "tap_or_odp", {"neighbours"})}
Verdicts ==
  LineVerdicts \cup FibreVerdicts \cup HomeVerdicts \cup PlatformVerdicts \cup ClusterVerdicts
    \cup ChangeVerdicts \cup PowerVerdicts \cup LocaliserVerdicts

\* The field a detector requires; its findings cite every reading in that field.
Requires == [hfc_rf |-> "nxt", pon_optical |-> "plant", cpe_wifi |-> "cpe_raw",
             service_platform |-> "service_platform", cluster |-> "plant",
             recent_change |-> "recent_changes", power_weather |-> "power_outages",
             localiser |-> "plant"]
Classifier == "fault_domain_classifier"

Test(judge, on, technologies, needs) ==
  [judge |-> judge, on |-> on, technologies |-> technologies, needs |-> needs]
Both == {"hfc", "pon", "unknown"}

\* The tests with an adapter to take the reading and a detector to judge it.
SupportedTests == [
  rf_levels       |-> Test("hfc_rf", {"rf"}, {"hfc", "unknown"}, {"service"}),
  pnm_sweep       |-> Test("hfc_rf", {"rf", "pnm"}, {"hfc", "unknown"}, {"service"}),
  optical_power   |-> Test("pon_optical", {"optical"}, {"pon", "unknown"}, {"service"}),
  throughput_test |-> Test("service_platform", {"throughput"}, Both, {"service", "cpe"}),
  wifi_survey     |-> Test("cpe_wifi", {"status", "wifi"}, Both, {"cpe"}),
  neighbours      |-> Test("cluster", {"delimiter"}, Both, {"delimiter"})]

\* How far out each domain sits: the outermost of two equals is the better single answer.
Reach == [customer_environment |-> 0, cpe |-> 2, provisioning |-> 3, service_platform |-> 4,
          drop |-> 5, tap_or_odp |-> 6, distribution |-> 7, node_or_olt |-> 9, power |-> 11]

ASSUME BudgetAssumption == {MinSources, MaxCycles, MaxLaps} \subseteq Nat \ {0}
ASSUME PackAssumption ==
  /\ {ConfidentAt, Margin, MinForAction} \subseteq 1..10000
  /\ ConfidentAt < MinForAction
ASSUME DetectorAssumption ==
  /\ Detectors \subseteq DOMAIN Requires
  /\ Strengths \in [Detectors -> SUBSET (1..100)]

VARIABLES
  pc,         \* the node that runs next
  cycle,      \* diagnostic_cycles
  lap,        \* resolution_cycles
  known,      \* the references the case holds
  evidence,   \* readings on record: what each is filed under, and the cycle it was taken in
  findings,   \* every finding ever made
  plan,       \* the tests of the latest plan
  rca,        \* the latest conclusion
  audit,      \* the ids of the audit events the conclusions left
  diagnoses   \* how often P10 has run

vars == <<pc, cycle, lap, known, evidence, findings, plan, rca, audit, diagnoses>>

(*--------------------------- findings into weights -----------------------*)

Finding(by, domain, weight, cites) ==
  [by |-> by, domain |-> domain, weight |-> weight, cites |-> cites]

\* Mutant: a repeated verdict is a vote of its own.
UnfoldedFindings(found) == {f \in found : f.by # Classifier}
\* Mutant: what the classifier said before counts as evidence.
AllFindingsFolded(found) ==
  {Finding(f.by, f.domain, Max({g.weight : g \in {h \in found : h.by = f.by /\ h.domain = f.domain}}),
           UNION {g.cites : g \in {h \in found : h.by = f.by /\ h.domain = f.domain}}) : f \in found}
\* A detector's claim on a domain counts once, at its strongest, citing every reading behind it.
LiveFindings(found) ==
  LET telemetry == {f \in found : f.by # Classifier}
      Same(f) == {g \in telemetry : g.by = f.by /\ g.domain = f.domain}
  IN {Finding(f.by, f.domain, Max({g.weight : g \in Same(f)}), UNION {g.cites : g \in Same(f)}) :
        f \in telemetry}

Suspected(live) == {f.domain : f \in live}
Supporting(live, d) == {f \in live : f.domain = d}
\* A finding of weight w casts w votes: to count them is to add up the weights.
Votes(found) == UNION {{f} \X (1..f.weight) : f \in found}
Weight(live, d) == Cardinality(Votes(Supporting(live, d)))
Total(live) == Cardinality(Votes(live))

Outranks(live, d, e) ==
  \/ Weight(live, d) > Weight(live, e)
  \/ Weight(live, d) = Weight(live, e) /\ Reach[d] > Reach[e]

\* Power wins outright; then the heaviest, then the outermost.
Classify(live) ==
  IF live = {} THEN "no_fault_found"
  ELSE IF "power" \in Suspected(live) THEN "power"
  ELSE CHOOSE d \in Suspected(live) : \A e \in Suspected(live) \ {d} : Outranks(live, d, e)

Rounded(a, b) == (2 * a + b) \div (2 * b)

\* Distinct readings behind a domain; where there are none, the detectors that name it.
CountedSources(live, d) ==
  LET refs == UNION {f.cites : f \in Supporting(live, d)}
  IN Cardinality(IF refs # {} THEN refs ELSE {f.by : f \in Supporting(live, d)})

\* Mutant: a lone weak finding is certain.
ShareAlone(live, d) == Min({9500, Rounded(10000 * Weight(live, d), Total(live))})
\* Share of the weight times corroboration, never certain.
Posterior(live, d) ==
  LET counted == Min({CountedSources(live, d), MinSources})
  IN Min({9500, Rounded(10000 * Weight(live, d) * counted, Total(live) * MinSources)})

\* The tests worth running for a domain: its rivals', or its own where it has none.
DiscriminatingTests(live, d) ==
  LET rivals == live \ Supporting(live, d)
  IN UNION {v.tests : v \in {w \in Verdicts :
              \E f \in (IF rivals # {} THEN rivals ELSE live) : w.by = f.by /\ w.domain = f.domain}}

NoConclusion == [domain |-> "none", confidence |-> 0, reason |-> "none", supporting |-> {}, cycles |-> 0]

\* What the hypotheses make of the classifier's domain; one that none of them names is unknown.
Conclude(live, d, c) ==
  IF d \notin Suspected(live)
  THEN [NoConclusion EXCEPT !.domain = "unknown", !.reason = "low_confidence", !.cycles = c]
  ELSE LET leader == Posterior(live, d)
           rival == Max({0} \cup {Posterior(live, e) : e \in Suspected(live) \ {d}})
           confidence == IF leader = 0 THEN 0 ELSE Rounded(leader * leader, leader + rival)
       IN [domain |-> d, confidence |-> confidence, cycles |-> c,
           supporting |-> UNION {f.cites : f \in Supporting(live, d)},
           reason |-> IF rival > 0 /\ leader - rival < Margin THEN "conflicting"
                      ELSE IF confidence >= ConfidentAt THEN "confident" ELSE "low_confidence"]

(*------------------------------- the nodes -------------------------------*)

\* What a reading is filed under.
Ref(read, c) == [read |-> read, pass |-> c]

\* `append_unique`: the first item under a reference is the one kept.
AppendUnique(items, read, c) ==
  items \cup {i \in {[ref |-> Ref(r, c), taken |-> c] : r \in read} :
                \A j \in items : j.ref # i.ref}

\* What a detector may make of the readings it is handed: nothing, or one finding citing `cites`,
\* the readings it requires; without those it does not run.
SaidOf(by, readings, cites) ==
  {{}} \cup {{Finding(by, v.domain, w, cites)} :
               v \in {u \in Verdicts : u.by = by /\ u.on \in readings /\ cites # {}},
               w \in Strengths[by]}

\* Every detector's verdict on the readings of one pass, each citing the fields it requires.
Scan(readings, c) ==
  LET Cited(by) == {Ref(r, c) : r \in {s \in readings : SourceTable[s].field = Requires[by]}}
      Sayings == [Detectors -> UNION {SaidOf(by, readings, Cited(by)) : by \in Detectors}]
  IN {UNION {s[by] : by \in Detectors} :
        s \in {t \in Sayings : \A by \in Detectors : t[by] \in SaidOf(by, readings, Cited(by))}}

\* The classifier of the pass runs before the localiser and cites everything; it is silent only
\* where no detector could look.
Classified(found, readings, c) ==
  IF readings = {} THEN {}
  ELSE {Finding(Classifier, Classify({f \in found : f.by # "localiser"}), 40, {Ref(r, c) : r \in readings})}

\* The reads that have the reference they need.
Readable == {s \in Sources : SourceTable[s].ref \in known}

Node(name) == pc = name

\* P07.  Any source may fail.  D05 then goes on, or gathers again.
AssembleCaseEvidence ==
  /\ Node("assemble_case_evidence") /\ cycle < MaxCycles
  /\ cycle' = cycle + 1
  /\ \E readings \in SUBSET Readable :
       /\ evidence' = AppendUnique(evidence, readings, cycle')
       /\ \E found \in Scan(readings, cycle') :
            findings' = findings \cup found \cup Classified(found, readings, cycle')
  /\ pc' \in {"create_diagnostic_test_plan", "assemble_case_evidence"}
  /\ UNCHANGED <<lap, known, plan, rca, audit, diagnoses>>

\* A test this technology has, with the references it needs.
Runnable(t) ==
  /\ t \in DOMAIN SupportedTests
  /\ Technology \in SupportedTests[t].technologies
  /\ SupportedTests[t].needs \subseteq known

\* P08.
CreateDiagnosticTestPlan ==
  /\ Node("create_diagnostic_test_plan")
  /\ LET live == LiveFindings(findings)
     IN plan' = {t \in UNION {DiscriminatingTests(live, d) : d \in Suspected(live)} : Runnable(t)}
  /\ pc' = "execute_read_only_tests"
  /\ UNCHANGED <<cycle, lap, known, evidence, findings, rca, audit, diagnoses>>

\* What one test can leave: its finding, if any, citing its own reading.
Outcomes(t) ==
  LET by == SupportedTests[t].judge
  IN IF by \in Detectors THEN SaidOf(by, SupportedTests[t].on, {Ref(t, cycle)}) ELSE {{}}

\* P09.  All planned tests run; one whose reading cannot be had leaves no evidence and no finding.
ExecuteReadOnlyTests ==
  /\ Node("execute_read_only_tests")
  /\ \E taken \in SUBSET plan :
       /\ evidence' = AppendUnique(evidence, taken, cycle)
       /\ \E s \in [taken -> UNION {Outcomes(t) : t \in taken}] :
            /\ \A t \in taken : s[t] \in Outcomes(t)
            /\ findings' = findings \cup UNION {s[t] : t \in taken}
  /\ pc' = "determine_root_cause"
  /\ UNCHANGED <<cycle, lap, known, plan, rca, audit, diagnoses>>

\* Mutant: the event of a later lap has the id of the first.
AuditOfCycle(c, l) == <<c>>
\* The id of the audit event a conclusion leaves.
AuditId(c, l) == <<c, l>>

\* P10.  The conclusion is itself a finding, and a delimiter an optical fault names is known from
\* here on.  D06 goes on to the options, or back to the evidence.
DetermineRootCause ==
  /\ Node("determine_root_cause")
  /\ LET live == LiveFindings(findings)
         domain == Classify(live)
     IN /\ rca' = Conclude(live, domain, cycle)
        /\ findings' = findings \cup {Finding(Classifier, domain, 40, {})}
        /\ known' = known \cup
             (IF \E f \in Supporting(live, domain) : f.by = "pon_optical" THEN {"delimiter"} ELSE {})
  /\ audit' = audit \cup {AuditId(cycle, lap)}
  /\ diagnoses' = diagnoses + 1
  /\ pc' \in {"generate_resolution_options", "assemble_case_evidence"}
  /\ UNCHANGED <<cycle, lap, evidence, plan>>

\* P11, and what comes of the plan: done with, back to the conclusion (D12, D19-D22), or back to the
\* evidence (D10).
GenerateResolutionOptions ==
  /\ Node("generate_resolution_options") /\ lap < MaxLaps
  /\ lap' = lap + 1
  /\ pc' \in {"END", "determine_root_cause", "assemble_case_evidence"}
  /\ UNCHANGED <<cycle, known, evidence, findings, plan, rca, audit, diagnoses>>

\* Any node may find a budget of the case spent (guards.py) and hand it to a human instead.
Escalate ==
  /\ pc # "END"
  /\ pc' = "END"
  /\ UNCHANGED <<cycle, lap, known, evidence, findings, plan, rca, audit, diagnoses>>

Init ==
  /\ pc = "assemble_case_evidence" /\ cycle = 0 /\ lap = 0
  /\ known = Resolved /\ evidence = {} /\ findings = {} /\ plan = {}
  /\ rca = NoConclusion /\ audit = {} /\ diagnoses = 0

Next ==
  \/ AssembleCaseEvidence \/ CreateDiagnosticTestPlan \/ ExecuteReadOnlyTests
  \/ DetermineRootCause \/ GenerateResolutionOptions \/ Escalate

Spec == Init /\ [][Next]_vars
(*------------------------------ correctness ------------------------------*)

\* The state's shape: a finding is only ever one its detector can make.
TypeOK ==
  /\ cycle \in 0..MaxCycles /\ lap \in 0..MaxLaps /\ diagnoses \in Nat
  /\ \A f \in findings :
       f.by = Classifier \/ (f.by \in Detectors /\ \E v \in Verdicts : v.by = f.by /\ v.domain = f.domain)
  /\ plan \subseteq DOMAIN SupportedTests
  /\ rca.cycles \in 0..cycle

\* A fault domain is named only on readings the case has on record.  A pass in which no adapter
\* answered, or a conclusion drawn before, is no ground for one (localisation.py:3-6).
ConclusionIsEvidenced ==
  rca.domain \notin {"none", "unknown"} =>
    rca.supporting # {} /\ rca.supporting \subseteq {e.ref : e \in evidence}

\* A confidence the policy pack lets anything act on stands on as many distinct readings as the
\* pack asks sources for, whatever the detectors, tests and laps that led to it.  Readings, not
\* sources: a test's re-read of a source is a reading of its own (evidence.py:955-958).
EnoughReadingsBeforeActing ==
  rca.confidence >= MinForAction =>
    \E c \in SUBSET {e.ref : e \in evidence} : c \subseteq rca.supporting /\ Cardinality(c) = MinSources

\* Each detector's strongest word on a domain, whenever it was said
Claimed(d) ==
  Cardinality(UNION {{f.by} \X (1..f.weight) : f \in {g \in findings : g.by # Classifier /\ g.domain = d}})
\* Running more tests for a domain does not make it lead: no other domain has the stronger claim,
\* counting every detector once, unless the power is out (evidence.py:938-953).
RetestingIsNoNewVote ==
  pc = "generate_resolution_options" /\ rca.domain \notin {"unknown", "power"} =>
    \A f \in findings : f.by # Classifier => Claimed(rca.domain) >= Claimed(f.domain)

\* Every diagnosis leaves a trace of its own, though three loops of the graph lead back to it and no
\* one counter moves on all of them (diagnosis.py:181-190).
EveryDiagnosisIsAudited == Cardinality(audit) = diagnoses

\* A lap that gathers nothing new concludes what was concluded before: the earlier conclusion, which
\* is on record among the findings, is not evidence for the next (localisation.py:156-158).
SameEvidenceSameAnswer ==
  [][rca.cycles = cycle /\ diagnoses' # diagnoses => rca' = rca]_vars
=============================================================================
