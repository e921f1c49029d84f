-------------------------- MODULE AssessmentProofs --------------------------
(***************************************************************************)
(* Proofs about Assessment, for every service, set of detectors, strengths *)
(* of their findings, settings of the pack and bounds.                     *)
(***************************************************************************)
EXTENDS Assessment, FunctionTheorems, FiniteSetTheorems, WellFoundedInduction, TLAPS

Refs == {e.ref : e \in evidence}
AfterReading == {"create_diagnostic_test_plan", "execute_read_only_tests"}

Shape == TypeOK /\ pc \in {"assemble_case_evidence", "determine_root_cause",
                           "generate_resolution_options", "END"} \cup AfterReading

\* What a detector said stands on readings on record; what was concluded stands on what they said.
Grounded ==
  /\ \A f \in findings : f.by # Classifier => f.cites # {} /\ f.cites \subseteq Refs
  /\ ConclusionIsEvidenced

\* The events so far are of this lap and pass or of earlier ones; of this one only once it concluded.
Audited ==
  /\ IsFiniteSet(audit) /\ EveryDiagnosisIsAudited
  /\ \A a \in audit : \E c \in 0..cycle, l \in 0..lap : a = AuditId(c, l)
  /\ pc \in AfterReading \cup {"determine_root_cause"} => \A c \in {cycle}, l \in {lap} : AuditId(c, l) \notin audit

\* Between one pass and the next, a conclusion is what the findings still say.
Standing ==
  /\ pc \in AfterReading => rca.cycles < cycle
  /\ pc \in {"determine_root_cause", "generate_resolution_options"} /\ rca.cycles = cycle =>
       rca = Conclude(LiveFindings(findings), Classify(LiveFindings(findings)), cycle)
  /\ pc = "generate_resolution_options" => rca.cycles = cycle

LEMMA Bounds == MaxCycles \in Nat /\ MaxLaps \in Nat
  BY BudgetAssumption

-----------------------------------------------------------------------------
(* The operators *)

LEMMA FindingFields ==
  ASSUME NEW by, NEW d, NEW w, NEW cites
  PROVE  /\ Finding(by, d, w, cites).by = by /\ Finding(by, d, w, cites).domain = d
         /\ Finding(by, d, w, cites).cites = cites
  BY DEF Finding

\* Nothing the classifier said counts as evidence.
LEMMA LiveIgnoresClassifier ==
  ASSUME NEW found, NEW f, f.by = Classifier
  PROVE  LiveFindings(found \cup {f}) = LiveFindings(found)
<1>1. {g \in found \cup {f} : g.by # Classifier} = {g \in found : g.by # Classifier}
  OBVIOUS
<1>2. QED BY <1>1 DEF LiveFindings

\* A live finding cites readings, and only such as some detector's finding cites.
LEMMA LiveFindingsCite ==
  ASSUME NEW found, NEW refs,
         \A f \in found : f.by # Classifier => f.cites # {} /\ f.cites \subseteq refs,
         NEW v \in LiveFindings(found)
  PROVE  v.cites # {} /\ v.cites \subseteq refs
<1> DEFINE telemetry == {f \in found : f.by # Classifier}
           Same(f) == {g \in telemetry : g.by = f.by /\ g.domain = f.domain}
<1>1. PICK f \in telemetry : v = Finding(f.by, f.domain, Max({g.weight : g \in Same(f)}),
                                         UNION {g.cites : g \in Same(f)})
  BY DEF LiveFindings
<1>2. v.cites = UNION {g.cites : g \in Same(f)}
  BY <1>1, FindingFields
<1>3. f \in Same(f)
  OBVIOUS
<1>4. \A g \in Same(f) : g.cites # {} /\ g.cites \subseteq refs
  OBVIOUS
<1>5. QED BY <1>2, <1>3, <1>4

\* A conclusion that names a domain cites the readings behind it.
LEMMA ConclusionsCite ==
  ASSUME NEW live, NEW refs, \A f \in live : f.cites # {} /\ f.cites \subseteq refs,
         NEW d, NEW c
  PROVE  /\ Conclude(live, d, c).cycles = c
         /\ Conclude(live, d, c).domain \notin {"none", "unknown"} =>
              /\ Conclude(live, d, c).supporting # {}
              /\ Conclude(live, d, c).supporting \subseteq refs
<1>1. CASE d \notin Suspected(live)
  BY <1>1 DEF Conclude, NoConclusion
<1>2. CASE d \in Suspected(live)
  <2> DEFINE cited == UNION {f.cites : f \in Supporting(live, d)}
  <2>1. Conclude(live, d, c).cycles = c /\ Conclude(live, d, c).supporting = cited
    BY <1>2 DEF Conclude
  <2>2. cited # {} /\ cited \subseteq refs
    BY <1>2 DEF Suspected, Supporting
  <2>3. QED BY <2>1, <2>2
<1>3. QED BY <1>1, <1>2

\* Recording readings leaves every earlier reference on record, and adds theirs.
LEMMA RecordsGrow ==
  ASSUME NEW items, NEW read, NEW c
  PROVE  {e.ref : e \in AppendUnique(items, read, c)}
           = {e.ref : e \in items} \cup {Ref(r, c) : r \in read}
<1> DEFINE new == {[ref |-> Ref(r, c), taken |-> c] : r \in read}
<1>1. AppendUnique(items, read, c) = items \cup {i \in new : \A j \in items : j.ref # i.ref}
  BY DEF AppendUnique
<1>2. \A r \in read : [ref |-> Ref(r, c), taken |-> c] \in new
                      /\ [ref |-> Ref(r, c), taken |-> c].ref = Ref(r, c)
  OBVIOUS
<1>3. \A i \in new : \E r \in read : i.ref = Ref(r, c)
  OBVIOUS
<1> HIDE DEF new
<1>4. \A r \in read : \E e \in AppendUnique(items, read, c) : e.ref = Ref(r, c)
  BY <1>1, <1>2
<1>5. QED BY <1>1, <1>3, <1>4

\* What a detector says is one of its verdicts, on the readings it was given to cite.
LEMMA SayingsCite ==
  ASSUME NEW by \in Detectors, NEW readings, NEW cites, NEW said \in SaidOf(by, readings, cites),
         NEW f \in said
  PROVE  /\ f.by = by /\ f.cites = cites /\ cites # {}
         /\ \E v \in Verdicts : v.by = by /\ v.domain = f.domain
<1>1. PICK v \in {u \in Verdicts : u.by = by /\ u.on \in readings /\ cites # {}},
           w \in Strengths[by] : said = {Finding(by, v.domain, w, cites)}
  BY DEF SaidOf
<1>2. QED BY <1>1, FindingFields
-----------------------------------------------------------------------------
(* The invariants *)

Inv == Shape /\ Grounded /\ Audited /\ Standing

\* A finding of the pass is the classifier's, or a verdict that cites readings of the pass.
LEMMA ScansCite ==
  ASSUME NEW readings, NEW c, NEW found \in Scan(readings, c), NEW f \in found
  PROVE  /\ f.by \in Detectors /\ \E v \in Verdicts : v.by = f.by /\ v.domain = f.domain
         /\ f.cites # {} /\ f.cites \subseteq {Ref(r, c) : r \in readings}
<1> DEFINE Cited(by) == {Ref(r, c) : r \in {s \in readings : SourceTable[s].field = Requires[by]}}
<1>1. PICK s : /\ found = UNION {s[by] : by \in Detectors}
               /\ \A by \in Detectors : s[by] \in SaidOf(by, readings, Cited(by))
  BY DEF Scan
<1>2. PICK by \in Detectors : f \in s[by]
  BY <1>1
<1>3. s[by] \in SaidOf(by, readings, Cited(by))
  BY <1>1
<1>4. /\ f.by = by /\ f.cites = Cited(by) /\ Cited(by) # {}
      /\ \E v \in Verdicts : v.by = by /\ v.domain = f.domain
  BY <1>2, <1>3, SayingsCite
<1>5. QED BY <1>4

LEMMA InitInv == Init => Inv
<1> SUFFICES ASSUME Init PROVE Inv
  OBVIOUS
<1>1. Shape
  BY Bounds DEF Init, Shape, TypeOK, NoConclusion
<1>2. Grounded
  BY DEF Init, Grounded, ConclusionIsEvidenced, NoConclusion
<1>3. Audited
  BY FS_EmptySet DEF Init, Audited, EveryDiagnosisIsAudited, AfterReading
<1>4. Standing
  BY DEF Init, Standing, AfterReading
<1>5. QED BY <1>1, <1>2, <1>3, <1>4 DEF Inv

LEMMA AssembleStep == Inv /\ AssembleCaseEvidence => Inv'
<1> SUFFICES ASSUME Inv, AssembleCaseEvidence PROVE Inv'
  OBVIOUS
<1>1. PICK readings \in SUBSET Readable :
        /\ evidence' = AppendUnique(evidence, readings, cycle')
        /\ \E found \in Scan(readings, cycle') :
             findings' = findings \cup found \cup Classified(found, readings, cycle')
  BY DEF AssembleCaseEvidence
<1>2. PICK found \in Scan(readings, cycle') :
        findings' = findings \cup found \cup Classified(found, readings, cycle')
  BY <1>1
<1>3. /\ cycle \in 0..MaxCycles /\ cycle < MaxCycles /\ cycle' = cycle + 1
      /\ pc' \in {"create_diagnostic_test_plan", "assemble_case_evidence"}
      /\ UNCHANGED <<lap, known, plan, rca, audit, diagnoses>>
  BY DEF AssembleCaseEvidence, Inv, Shape, TypeOK
<1>4. \A f \in Classified(found, readings, cycle') : f.by = Classifier
  BY FindingFields DEF Classified
<1>5. Shape'
  <2>1. \A f \in findings' :
          f.by = Classifier \/ (f.by \in Detectors /\ \E v \in Verdicts : v.by = f.by /\ v.domain = f.domain)
    BY <1>2, <1>4, ScansCite DEF Inv, Shape, TypeOK
  <2>2. QED BY <1>3, <2>1, Bounds DEF Inv, Shape, TypeOK, AfterReading
<1>6. Grounded'
  <2>1. Refs' = Refs \cup {Ref(r, cycle') : r \in readings}
    BY <1>1, RecordsGrow DEF Refs
  <2>2. \A f \in findings' : f.by # Classifier => f.cites # {} /\ f.cites \subseteq Refs'
    BY <1>2, <1>4, <2>1, ScansCite DEF Inv, Grounded
  <2>3. QED BY <1>3, <2>1, <2>2 DEF Inv, Grounded, ConclusionIsEvidenced, Refs
<1>7. Audited'
  <2>1. \A a \in audit : \E c \in 0..cycle', l \in 0..lap' : a = AuditId(c, l)
    BY <1>3 DEF Inv, Audited
  <2>2. AuditId(cycle', lap') \notin audit
    BY <1>3, Bounds DEF Inv, Audited, AuditId
  <2>3. QED BY <1>3, <2>1, <2>2 DEF Inv, Audited, EveryDiagnosisIsAudited
<1>8. Standing'
  BY <1>3, Bounds DEF Inv, Shape, TypeOK, Standing, AfterReading
<1>9. QED BY <1>5, <1>6, <1>7, <1>8 DEF Inv

LEMMA PlanStep == Inv /\ CreateDiagnosticTestPlan => Inv'
<1> SUFFICES ASSUME Inv, CreateDiagnosticTestPlan PROVE Inv'
  OBVIOUS
<1>1. /\ pc \in AfterReading /\ pc' = "execute_read_only_tests"
      /\ UNCHANGED <<cycle, lap, known, evidence, findings, rca, audit, diagnoses>>
  BY DEF CreateDiagnosticTestPlan, Node, AfterReading
<1>2. plan' \subseteq DOMAIN SupportedTests
  BY DEF CreateDiagnosticTestPlan, Runnable
<1>3. Shape'
  BY <1>1, <1>2 DEF Inv, Shape, TypeOK, AfterReading
<1>4. Grounded'
  BY <1>1 DEF Inv, Grounded, ConclusionIsEvidenced, Refs
<1>5. Audited'
  BY <1>1 DEF Inv, Audited, EveryDiagnosisIsAudited, AfterReading
<1>6. Standing'
  BY <1>1 DEF Inv, Standing, AfterReading
<1>7. QED BY <1>3, <1>4, <1>5, <1>6 DEF Inv

LEMMA TestsStep == Inv /\ ExecuteReadOnlyTests => Inv'
<1> SUFFICES ASSUME Inv, ExecuteReadOnlyTests PROVE Inv'
  OBVIOUS
<1>1. PICK taken \in SUBSET plan :
        /\ evidence' = AppendUnique(evidence, taken, cycle)
        /\ \E s \in [taken -> UNION {Outcomes(t) : t \in taken}] :
             /\ \A t \in taken : s[t] \in Outcomes(t)
             /\ findings' = findings \cup UNION {s[t] : t \in taken}
  BY DEF ExecuteReadOnlyTests
<1>2. PICK s : /\ \A t \in taken : s[t] \in Outcomes(t)
               /\ findings' = findings \cup UNION {s[t] : t \in taken}
  BY <1>1
<1>3. /\ pc \in AfterReading /\ pc' = "determine_root_cause"
      /\ UNCHANGED <<cycle, lap, known, plan, rca, audit, diagnoses>>
  BY DEF ExecuteReadOnlyTests, Node, AfterReading
<1>4. ASSUME NEW t \in taken, NEW f \in s[t]
      PROVE  /\ f.by \in Detectors /\ \E v \in Verdicts : v.by = f.by /\ v.domain = f.domain
             /\ f.cites = {Ref(t, cycle)}
  <2> DEFINE by == SupportedTests[t].judge
             on == SupportedTests[t].on
  <2>1. s[t] \in IF by \in Detectors THEN SaidOf(by, on, {Ref(t, cycle)}) ELSE {{}}
    BY <1>2 DEF Outcomes
  <2>2. by \in Detectors /\ s[t] \in SaidOf(by, on, {Ref(t, cycle)})
    BY <2>1
  <2> HIDE DEF by, on
  <2>3. QED BY <2>2, SayingsCite
<1>5. Shape'
  <2>1. \A f \in findings' :
          f.by = Classifier \/ (f.by \in Detectors /\ \E v \in Verdicts : v.by = f.by /\ v.domain = f.domain)
    BY <1>2, <1>4 DEF Inv, Shape, TypeOK
  <2>2. QED BY <1>3, <2>1 DEF Inv, Shape, TypeOK
<1>6. Grounded'
  <2>1. Refs' = Refs \cup {Ref(r, cycle) : r \in taken}
    <3>1. evidence' = AppendUnique(evidence, taken, cycle)
      BY <1>1
    <3>2. {e.ref : e \in AppendUnique(evidence, taken, cycle)} = Refs \cup {Ref(r, cycle) : r \in taken}
      BY RecordsGrow DEF Refs
    <3>3. QED BY <3>1, <3>2 DEF Refs
  <2>2. \A f \in findings' : f.by # Classifier => f.cites # {} /\ f.cites \subseteq Refs'
    BY <1>2, <1>4, <2>1 DEF Inv, Grounded
  <2>3. QED BY <1>3, <2>1, <2>2 DEF Inv, Grounded, ConclusionIsEvidenced, Refs
<1>7. Audited'
  BY <1>3 DEF Inv, Audited, EveryDiagnosisIsAudited
<1>8. Standing'
  BY <1>3 DEF Inv, Shape, TypeOK, Standing, AfterReading
<1>9. QED BY <1>5, <1>6, <1>7, <1>8 DEF Inv

LEMMA RootCauseStep ==
  Inv /\ DetermineRootCause => Inv' /\ (rca.cycles = cycle => rca' = rca)
<1> SUFFICES ASSUME Inv, DetermineRootCause PROVE Inv' /\ (rca.cycles = cycle => rca' = rca)
  OBVIOUS
<1> DEFINE live == LiveFindings(findings)
           own == Finding(Classifier, Classify(live), 40, {})
<1>1. /\ pc = "determine_root_cause" /\ rca' = Conclude(live, Classify(live), cycle)
      /\ findings' = findings \cup {own}
      /\ audit' = audit \cup {AuditId(cycle, lap)} /\ diagnoses' = diagnoses + 1
      /\ pc' \in {"generate_resolution_options", "assemble_case_evidence"}
      /\ UNCHANGED <<cycle, lap, evidence, plan>>
  BY DEF DetermineRootCause, Node
<1>2. own.by = Classifier
  BY FindingFields
<1>3. LiveFindings(findings') = live
  BY <1>1, <1>2, LiveIgnoresClassifier
<1>4. \A f \in live : f.cites # {} /\ f.cites \subseteq Refs
  BY LiveFindingsCite DEF Inv, Grounded
<1> HIDE DEF live, own
<1>5. /\ rca'.cycles = cycle
      /\ rca'.domain \notin {"none", "unknown"} => rca'.supporting # {} /\ rca'.supporting \subseteq Refs
  <2> DEFINE d == Classify(live)
  <2> HIDE DEF d
  <2>1. rca' = Conclude(live, d, cycle)
    BY <1>1 DEF d
  <2>2. /\ Conclude(live, d, cycle).cycles = cycle
        /\ Conclude(live, d, cycle).domain \notin {"none", "unknown"} =>
              /\ Conclude(live, d, cycle).supporting # {}
              /\ Conclude(live, d, cycle).supporting \subseteq Refs
    BY <1>4, ConclusionsCite
  <2>3. QED BY <2>1, <2>2
<1>6. Shape'
  BY <1>1, <1>2, <1>5 DEF Inv, Shape, TypeOK
<1>7. Grounded'
  BY <1>1, <1>2, <1>5 DEF Inv, Grounded, ConclusionIsEvidenced, Refs
<1>8. Audited'
  <2>1. AuditId(cycle, lap) \notin audit /\ IsFiniteSet(audit) /\ Cardinality(audit) = diagnoses
    BY <1>1 DEF Inv, Audited, EveryDiagnosisIsAudited
  <2>2. IsFiniteSet(audit') /\ Cardinality(audit') = diagnoses'
    BY <1>1, <2>1, FS_AddElement
  <2>3. \A a \in audit' : \E c \in 0..cycle', l \in 0..lap' : a = AuditId(c, l)
    <3>1. cycle \in 0..cycle /\ lap \in 0..lap
      BY Bounds DEF Inv, Shape, TypeOK
    <3>2. QED BY <1>1, <3>1 DEF Inv, Audited
  <2>4. QED BY <1>1, <2>2, <2>3 DEF Audited, EveryDiagnosisIsAudited, AfterReading
<1>9. Standing'
  BY <1>1, <1>3, <1>5 DEF Standing, AfterReading, live
<1>10. rca.cycles = cycle => rca' = rca
  BY <1>1 DEF Inv, Standing, live
<1>11. QED BY <1>6, <1>7, <1>8, <1>9, <1>10 DEF Inv

LEMMA OptionsStep == Inv /\ GenerateResolutionOptions => Inv'
<1> SUFFICES ASSUME Inv, GenerateResolutionOptions PROVE Inv'
  OBVIOUS
<1>1. /\ pc = "generate_resolution_options" /\ lap \in 0..MaxLaps /\ lap < MaxLaps /\ lap' = lap + 1
      /\ pc' \in {"END", "determine_root_cause", "assemble_case_evidence"}
      /\ UNCHANGED <<cycle, known, evidence, findings, plan, rca, audit, diagnoses>>
  BY DEF GenerateResolutionOptions, Node, Inv, Shape, TypeOK
<1>2. Shape'
  BY <1>1, Bounds DEF Inv, Shape, TypeOK
<1>3. Grounded'
  BY <1>1 DEF Inv, Grounded, ConclusionIsEvidenced, Refs
<1>4. Audited'
  <2>1. \A a \in audit : \E c \in 0..cycle, l \in 0..lap' : a = AuditId(c, l)
    BY <1>1 DEF Inv, Audited
  <2>2. AuditId(cycle, lap') \notin audit
    BY <1>1, Bounds DEF Inv, Audited, AuditId
  <2>3. QED BY <1>1, <2>1, <2>2 DEF Inv, Audited, EveryDiagnosisIsAudited
<1>5. Standing'
  BY <1>1 DEF Inv, Standing, AfterReading
<1>6. QED BY <1>2, <1>3, <1>4, <1>5 DEF Inv

LEMMA StepInv == Inv /\ [Next]_vars => Inv'
<1> SUFFICES ASSUME Inv, [Next]_vars PROVE Inv'
  OBVIOUS
<1>1. CASE Escalate
  <2>1. pc' = "END" /\ UNCHANGED <<cycle, lap, known, evidence, findings, plan, rca, audit, diagnoses>>
    BY <1>1 DEF Escalate
  <2>2. QED BY <2>1 DEF Inv, Shape, TypeOK, Grounded, ConclusionIsEvidenced, Refs, Audited,
                        EveryDiagnosisIsAudited, Standing, AfterReading
<1>2. CASE UNCHANGED vars
  BY <1>2 DEF vars, Inv, Shape, TypeOK, Grounded, ConclusionIsEvidenced, Refs, Audited,
              EveryDiagnosisIsAudited, Standing
<1>3. QED BY <1>1, <1>2, AssembleStep, PlanStep, TestsStep, RootCauseStep, OptionsStep DEF Next

LEMMA Invariance == Spec => []Inv
  BY InitInv, StepInv, PTL DEF Spec
-----------------------------------------------------------------------------
(* The results *)

\* Every finding on record is one that its detector can make, and the counters keep their bounds.
THEOREM TypeCorrect == Spec => []TypeOK
  BY Invariance, PTL DEF Inv, Shape

\* Whatever detectors speak, whichever sources fail and however often the loops lead back, no fault
\* domain is named without readings on record that are cited for it.
THEOREM Evidenced == Spec => []ConclusionIsEvidenced
  BY Invariance, PTL DEF Inv, Grounded

\* Whatever loops lead back to P10, no two of its conclusions share an audit id.
THEOREM AuditedOnce == Spec => []EveryDiagnosisIsAudited
  BY Invariance, PTL DEF Inv, Audited

\* A lap without a new pass of evidence concludes what was concluded before, whatever is on record.
THEOREM SameAnswer == Spec => SameEvidenceSameAnswer
<1>1. Inv /\ [Next]_vars => [rca.cycles = cycle /\ diagnoses' # diagnoses => rca' = rca]_vars
  <2> SUFFICES ASSUME Inv, [Next]_vars, rca.cycles = cycle, diagnoses' # diagnoses PROVE rca' = rca
    OBVIOUS
  <2>1. CASE DetermineRootCause
    BY <2>1, RootCauseStep
  <2>2. CASE AssembleCaseEvidence \/ CreateDiagnosticTestPlan \/ ExecuteReadOnlyTests
               \/ GenerateResolutionOptions \/ Escalate \/ UNCHANGED vars
    BY <2>2 DEF AssembleCaseEvidence, CreateDiagnosticTestPlan, ExecuteReadOnlyTests,
                GenerateResolutionOptions, Escalate, vars
  <2>3. QED BY <2>1, <2>2 DEF Next
<1>2. QED BY <1>1, Invariance, PTL DEF Spec, SameEvidenceSameAnswer

-----------------------------------------------------------------------------
(* Arithmetic of the conclusions *)

\* A set of naturals with a bound has a largest element, and `Max` is it.
LEMMA MaxIsLargest ==
  ASSUME NEW S, NEW n \in Nat, S # {}, \A x \in S : x \in 0..n
  PROVE  Max(S) \in S /\ \A x \in S : x <= Max(S)
<1> DEFINE T == {m \in Nat : n - m \in S}
<1>1. T # {}
  <2>1. PICK x \in S : TRUE
    OBVIOUS
  <2>2. x \in 0..n
    OBVIOUS
  <2>3. n - x \in Nat /\ n - (n - x) = x
    BY <2>2
  <2>4. QED BY <2>3
<1>2. PICK m \in T : \A k \in T : ~(<<k, m>> \in OpToRel(<, Nat))
  BY <1>1, NatLessThanWellFounded, WFMin
<1>3. \A k \in T : m <= k
  <2> SUFFICES ASSUME NEW k \in T PROVE m <= k
    OBVIOUS
  <2>1. ~(k < m)
    BY <1>2 DEF OpToRel
  <2>2. k \in Nat /\ m \in Nat
    OBVIOUS
  <2>3. QED BY <2>1, <2>2
<1>4. n - m \in S /\ \A x \in S : n - m >= x
  <2>1. ASSUME NEW x \in S PROVE n - m >= x
    <3>1. x \in 0..n
      OBVIOUS
    <3>2. n - x \in Nat /\ n - (n - x) = x
      BY <3>1
    <3>3. m <= n - x
      BY <1>3, <3>2
    <3>4. QED BY <3>1, <3>3
  <2>2. QED BY <2>1
<1>5. Max(S) \in S /\ \A x \in S : Max(S) >= x
  BY <1>4 DEF Max
<1>6. QED
  <2>1. ASSUME NEW x \in S PROVE x <= Max(S)
    BY <1>5
  <2>2. QED BY <1>5, <2>1

\* Products keep an order, and a positive factor can be taken off one.
LEMMA Products ==
  /\ \A k, x, y \in Nat : x <= y => k * x <= k * y
  /\ \A k \in Nat \ {0}, x, y \in Nat : k * x <= k * y => x <= y
<1>1. ASSUME NEW k \in Nat, NEW x \in Nat, NEW y \in Nat, x <= y PROVE k * x <= k * y
  <2>1. k * (y - x) >= 0
    BY <1>1
  <2>2. k * (y - x) = k * y - k * x
    BY <1>1
  <2>3. k * x \in Int /\ k * y \in Int
    OBVIOUS
  <2>4. QED BY <2>1, <2>2, <2>3
<1>2. ASSUME NEW k \in Nat \ {0}, NEW x \in Nat, NEW y \in Nat, k * x <= k * y PROVE x <= y
  <2> SUFFICES ASSUME y < x PROVE FALSE
    OBVIOUS
  <2>1. k * (x - y) >= k
    BY <1>2
  <2>2. k * (x - y) = k * x - k * y
    BY <1>2
  <2>3. k * x \in Int /\ k * y \in Int /\ k > 0
    OBVIOUS
  <2>4. QED BY <1>2, <2>1, <2>2, <2>3
<1>3. QED BY <1>1, <1>2

\* A quotient is the largest number of divisors that fit.
LEMMA Quotients ==
  ASSUME NEW a \in Nat, NEW d \in Nat \ {0}
  PROVE  /\ a \div d \in Nat /\ d * (a \div d) <= a
         /\ \A q \in Nat : d * q <= a => q <= a \div d
<1>1. a \div d \in Int /\ a = d * (a \div d) + (a % d) /\ a % d \in 0..(d - 1)
  OBVIOUS
<1> DEFINE w == a \div d
           r == a % d
<1> HIDE DEF w, r
<1>2. w \in Int /\ a = d * w + r /\ r \in 0..(d - 1)
  BY <1>1 DEF w, r
<1>3. w \in Nat
  <2> SUFFICES ASSUME w <= -1 PROVE FALSE
    BY <1>2
  <2>1. -w - 1 \in Nat
    BY <1>2
  <2>2. d * (-w - 1) >= 0
    BY <2>1
  <2>3. d * (-w - 1) = -(d * w) - d /\ d * w \in Int
    BY <1>2
  <2>4. QED BY <1>2, <2>2, <2>3
<1>4. ASSUME NEW q \in Nat, d * q <= a PROVE q <= w
  <2> SUFFICES ASSUME w + 1 <= q PROVE FALSE
    BY <1>3
  <2>1. d * (w + 1) <= d * q
    BY <1>3, Products
  <2>2. d * (w + 1) = d * w + d /\ d * w \in Int /\ d * q \in Int
    BY <1>3
  <2>3. QED BY <1>2, <1>4, <2>1, <2>2
<1>5. d * w <= a
  BY <1>2, <1>3
<1>6. QED BY <1>3, <1>4, <1>5 DEF w

\* Rounding is of a natural number, and keeps the order of two fractions.
LEMMA RoundedKeepsOrder ==
  ASSUME NEW a \in Nat, NEW b \in Nat \ {0}, NEW c \in Nat, NEW d \in Nat \ {0}, a * d <= c * b
  PROVE  Rounded(a, b) \in Nat /\ Rounded(c, d) \in Nat /\ Rounded(a, b) <= Rounded(c, d)
<1> DEFINE q == Rounded(a, b)
<1>1. /\ 2 * a + b \in Nat /\ 2 * b \in Nat \ {0} /\ 2 * c + d \in Nat /\ 2 * d \in Nat \ {0}
  OBVIOUS
<1>2. q \in Nat /\ (2 * b) * q <= 2 * a + b /\ Rounded(c, d) \in Nat
      /\ \A n \in Nat : (2 * d) * n <= 2 * c + d => n <= Rounded(c, d)
  BY <1>1, Quotients DEF Rounded
<1> HIDE DEF q
<1>3. d * ((2 * b) * q) <= d * (2 * a + b)
  <2>1. (2 * b) * q \in Nat
    BY <1>1, <1>2
  <2>2. QED BY <1>1, <1>2, <2>1, Products
<1>4. d * ((2 * b) * q) = b * ((2 * d) * q)
  BY <1>2
<1>5. d * (2 * a + b) = 2 * (a * d) + b * d
  OBVIOUS
<1>6. b * (2 * c + d) = 2 * (c * b) + b * d
  OBVIOUS
<1>7. a * d \in Nat /\ c * b \in Nat /\ b * d \in Nat /\ (2 * d) * q \in Nat /\ b * ((2 * d) * q) \in Nat
  BY <1>2
<1>8. b * ((2 * d) * q) <= b * (2 * c + d)
  BY <1>3, <1>4, <1>5, <1>6, <1>7
<1>9. (2 * d) * q <= 2 * c + d
  BY <1>1, <1>7, <1>8, Products
<1>10. QED BY <1>2, <1>9 DEF q

\* A confidence is no more than the posterior of the leading hypothesis.
LEMMA NoMoreThanLeader ==
  ASSUME NEW leader \in Nat \ {0}, NEW rival \in Nat
  PROVE  Rounded(leader * leader, leader + rival) <= leader
<1>1. leader * leader \in Nat /\ leader + rival \in Nat \ {0} /\ 1 \in Nat \ {0}
  OBVIOUS
<1>2. (leader * leader) * 1 <= leader * (leader + rival)
  BY Products
<1>3. Rounded(leader * leader, leader + rival) <= Rounded(leader, 1)
  BY <1>1, <1>2, RoundedKeepsOrder
<1>4. Rounded(leader, 1) = leader
  BY DEF Rounded
<1>5. QED BY <1>3, <1>4
-----------------------------------------------------------------------------
(* What is on record can be counted *)

\* The readings on record are finitely many, and every detector's finding weighs something.
Measured ==
  /\ IsFiniteSet(Refs)
  /\ \A f \in findings : f.by # Classifier => f.weight \in 1..100

\* The image of a finite set of readings is finite.
LEMMA FiniteRefs ==
  ASSUME NEW read, NEW c, IsFiniteSet(read)
  PROVE  IsFiniteSet({Ref(r, c) : r \in read})
<1> DEFINE T == {Ref(r, c) : r \in read}
           F == [r \in read |-> Ref(r, c)]
<1>1. F \in Surjection(read, T)
  BY DEF Surjection
<1>2. QED BY <1>1, FS_Surjection

\* Names that are listed are finitely many.
LEMMA FewNames == \A a, b, c, d : IsFiniteSet({a, b, c, d})
<1> TAKE a, b, c, d
<1>1. IsFiniteSet({a})
  BY FS_Singleton
<1>2. IsFiniteSet({a} \cup {b})
  BY <1>1, FS_AddElement
<1>3. IsFiniteSet(({a} \cup {b}) \cup {c})
  BY <1>2, FS_AddElement
<1>4. IsFiniteSet((({a} \cup {b}) \cup {c}) \cup {d})
  BY <1>3, FS_AddElement
<1>5. (({a} \cup {b}) \cup {c}) \cup {d} = {a, b, c, d}
  OBVIOUS
<1>6. QED BY <1>4, <1>5

LEMMA FewDetectors == IsFiniteSet(Detectors)
<1> DEFINE line == {"hfc_rf", "pon_optical", "cpe_wifi", "service_platform"}
           rest == {"cluster", "recent_change", "power_weather", "localiser"}
<1>1. DOMAIN Requires = line \cup rest
  BY DEF Requires
<1>2. IsFiniteSet(line) /\ IsFiniteSet(rest)
  BY FewNames
<1>3. IsFiniteSet(line \cup rest)
  BY <1>2, FS_Union
<1>4. QED BY <1>1, <1>3, FS_Subset, DetectorAssumption

LEMMA FewDomains ==
  /\ \A d \in DOMAIN Reach : Reach[d] \in 0..11
  /\ \A d, e \in DOMAIN Reach : Reach[d] = Reach[e] => d = e
  /\ IsFiniteSet(DOMAIN Reach)
<1> DEFINE inside == {"customer_environment", "cpe", "provisioning", "service_platform"}
           outside == {"drop", "tap_or_odp", "distribution", "node_or_olt"}
           dark == {"power", "power", "power", "power"}
<1>1. (\A d \in DOMAIN Reach : Reach[d] \in 0..11) /\ \A d, e \in DOMAIN Reach : Reach[d] = Reach[e] => d = e
  BY DEF Reach
<1>2. DOMAIN Reach = (inside \cup outside) \cup dark
  BY DEF Reach
<1>3. IsFiniteSet(inside) /\ IsFiniteSet(outside) /\ IsFiniteSet(dark)
  BY FewNames
<1>4. IsFiniteSet((inside \cup outside) \cup dark)
  BY <1>3, FS_Union
<1>5. QED BY <1>1, <1>2, <1>4

\* Every verdict is on a domain whose reach is known.
LEMMA VerdictsAreOnDomains == \A v \in Verdicts : v.domain \in DOMAIN Reach
<1>1. DOMAIN Reach = {"customer_environment", "cpe", "provisioning", "service_platform", "drop",
                      "tap_or_odp", "distribution", "node_or_olt", "power"}
  BY DEF Reach
<1>2. \A v \in LineVerdicts \cup FibreVerdicts : v.domain \in DOMAIN Reach
  BY <1>1 DEF LineVerdicts, FibreVerdicts, Verdict
<1>3. \A v \in HomeVerdicts \cup PlatformVerdicts \cup ClusterVerdicts : v.domain \in DOMAIN Reach
  BY <1>1 DEF HomeVerdicts, PlatformVerdicts, ClusterVerdicts, Verdict
<1>4. \A v \in ChangeVerdicts \cup PowerVerdicts \cup LocaliserVerdicts : v.domain \in DOMAIN Reach
  BY <1>1 DEF ChangeVerdicts, PowerVerdicts, LocaliserVerdicts, Verdict
<1>5. QED BY <1>2, <1>3, <1>4 DEF Verdicts

LEMMA SayingsWeigh ==
  ASSUME NEW by \in Detectors, NEW readings, NEW cites, NEW said \in SaidOf(by, readings, cites),
         NEW f \in said
  PROVE  f.weight \in 1..100
<1>1. PICK v \in {u \in Verdicts : u.by = by /\ u.on \in readings /\ cites # {}},
           w \in Strengths[by] : said = {Finding(by, v.domain, w, cites)}
  BY DEF SaidOf
<1>2. w \in 1..100
  BY DetectorAssumption
<1>3. f.weight = w
  BY <1>1 DEF Finding
<1>4. QED BY <1>2, <1>3

LEMMA ScansWeigh ==
  ASSUME NEW readings, NEW c, NEW found \in Scan(readings, c), NEW f \in found
  PROVE  f.weight \in 1..100
<1> DEFINE Cited(by) == {Ref(r, c) : r \in {s \in readings : SourceTable[s].field = Requires[by]}}
<1>1. PICK s : /\ found = UNION {s[by] : by \in Detectors}
               /\ \A by \in Detectors : s[by] \in SaidOf(by, readings, Cited(by))
  BY DEF Scan
<1>2. PICK by \in Detectors : f \in s[by]
  BY <1>1
<1>3. s[by] \in SaidOf(by, readings, Cited(by))
  BY <1>1
<1>4. QED BY <1>2, <1>3, SayingsWeigh

LEMMA FewReadings == IsFiniteSet(DOMAIN SourceTable) /\ IsFiniteSet(DOMAIN SupportedTests)
<1> DEFINE plant == {"rf", "pnm", "service_group", "optical"}
           home == {"port", "delimiter", "status", "wifi"}
           other == {"throughput", "changes", "outages", "weather"}
           line == {"rf_levels", "pnm_sweep", "optical_power", "throughput_test"}
           rest == {"wifi_survey", "neighbours", "wifi_survey", "neighbours"}
<1>1. DOMAIN SourceTable = (plant \cup home) \cup other /\ DOMAIN SupportedTests = line \cup rest
  BY DEF SourceTable, SupportedTests
<1>2. IsFiniteSet(plant) /\ IsFiniteSet(home) /\ IsFiniteSet(other) /\ IsFiniteSet(line) /\ IsFiniteSet(rest)
  BY FewNames
<1>3. IsFiniteSet((plant \cup home) \cup other) /\ IsFiniteSet(line \cup rest)
  BY <1>2, FS_Union
<1>4. QED BY <1>1, <1>3

LEMMA MeasuredFromStart == Init => Measured
<1>1. Init => Refs = {}
  BY DEF Init, Refs
<1>2. QED BY <1>1, FS_EmptySet DEF Init, Measured

LEMMA MeasuredStep == Inv /\ Measured /\ [Next]_vars => Measured'
<1> SUFFICES ASSUME Inv, Measured, [Next]_vars PROVE Measured'
  OBVIOUS
<1>1. CASE AssembleCaseEvidence
  <2>1. PICK readings \in SUBSET Readable :
          /\ evidence' = AppendUnique(evidence, readings, cycle')
          /\ \E found \in Scan(readings, cycle') :
               findings' = findings \cup found \cup Classified(found, readings, cycle')
    BY <1>1 DEF AssembleCaseEvidence
  <2>2. PICK found \in Scan(readings, cycle') :
          findings' = findings \cup found \cup Classified(found, readings, cycle')
    BY <2>1
  <2>3. \A f \in Classified(found, readings, cycle') : f.by = Classifier
    BY FindingFields DEF Classified
  <2>4. \A f \in findings' : f.by # Classifier => f.weight \in 1..100
    BY <2>2, <2>3, ScansWeigh DEF Measured
  <2>5. IsFiniteSet({Ref(r, cycle') : r \in readings})
    <3>1. readings \subseteq DOMAIN SourceTable
      BY DEF Readable, Sources
    <3>2. IsFiniteSet(readings)
      BY <3>1, FewReadings, FS_Subset
    <3>3. QED BY <3>2, FiniteRefs
  <2>6. Refs' = Refs \cup {Ref(r, cycle') : r \in readings}
    BY <2>1, RecordsGrow DEF Refs
  <2>7. IsFiniteSet(Refs')
    BY <2>5, <2>6, FS_Union DEF Measured
  <2>8. QED BY <2>4, <2>7 DEF Measured
<1>2. CASE ExecuteReadOnlyTests
  <2>1. PICK taken \in SUBSET plan :
          /\ evidence' = AppendUnique(evidence, taken, cycle)
          /\ \E s \in [taken -> UNION {Outcomes(t) : t \in taken}] :
               /\ \A t \in taken : s[t] \in Outcomes(t)
               /\ findings' = findings \cup UNION {s[t] : t \in taken}
    BY <1>2 DEF ExecuteReadOnlyTests
  <2>2. PICK s : /\ \A t \in taken : s[t] \in Outcomes(t)
                 /\ findings' = findings \cup UNION {s[t] : t \in taken}
    BY <2>1
  <2>3. ASSUME NEW t \in taken, NEW f \in s[t] PROVE f.weight \in 1..100
    <3> DEFINE by == SupportedTests[t].judge
               on == SupportedTests[t].on
    <3>1. s[t] \in IF by \in Detectors THEN SaidOf(by, on, {Ref(t, cycle)}) ELSE {{}}
      BY <2>2 DEF Outcomes
    <3>2. by \in Detectors /\ s[t] \in SaidOf(by, on, {Ref(t, cycle)})
      BY <3>1
    <3> HIDE DEF by, on
    <3>3. QED BY <3>2, SayingsWeigh
  <2>4. \A f \in findings' : f.by # Classifier => f.weight \in 1..100
    BY <2>2, <2>3 DEF Measured
  <2>5. IsFiniteSet({Ref(r, cycle) : r \in taken})
    <3>1. taken \subseteq DOMAIN SupportedTests
      BY DEF Inv, Shape, TypeOK
    <3>2. IsFiniteSet(taken)
      BY <3>1, FewReadings, FS_Subset
    <3>3. QED BY <3>2, FiniteRefs
  <2>6. Refs' = Refs \cup {Ref(r, cycle) : r \in taken}
    <3>1. evidence' = AppendUnique(evidence, taken, cycle)
      BY <2>1
    <3>2. {e.ref : e \in AppendUnique(evidence, taken, cycle)} = Refs \cup {Ref(r, cycle) : r \in taken}
      BY RecordsGrow DEF Refs
    <3>3. QED BY <3>1, <3>2 DEF Refs
  <2>7. IsFiniteSet(Refs')
    BY <2>5, <2>6, FS_Union DEF Measured
  <2>8. QED BY <2>4, <2>7 DEF Measured
<1>3. CASE DetermineRootCause
  <2>1. PICK own : own.by = Classifier /\ findings' = findings \cup {own}
    BY <1>3, FindingFields DEF DetermineRootCause
  <2>2. Refs' = Refs
    BY <1>3 DEF DetermineRootCause, Refs
  <2>3. QED BY <2>1, <2>2 DEF Measured
<1>4. CASE CreateDiagnosticTestPlan \/ GenerateResolutionOptions \/ Escalate \/ UNCHANGED vars
  <2>1. findings' = findings /\ evidence' = evidence
    BY <1>4 DEF CreateDiagnosticTestPlan, GenerateResolutionOptions, Escalate, vars
  <2>2. QED BY <2>1 DEF Measured, Refs
<1>5. QED BY <1>1, <1>2, <1>3, <1>4 DEF Next

LEMMA AlwaysMeasured == Spec => [](Inv /\ Measured)
<1>1. Init => Inv /\ Measured
  BY InitInv, MeasuredFromStart
<1>2. Inv /\ Measured /\ [Next]_vars => (Inv /\ Measured)'
  BY StepInv, MeasuredStep
<1>3. QED BY <1>1, <1>2, PTL DEF Spec
-----------------------------------------------------------------------------
(* Findings as votes *)

\* What telemetry said names a detector of the case, a known domain and a weight.
Sound(found) ==
  \A f \in found : f.by # Classifier =>
    f.by \in Detectors /\ f.domain \in DOMAIN Reach /\ f.weight \in 1..100

LEMMA FindingsAreSound == Inv /\ Measured => Sound(findings)
  BY VerdictsAreOnDomains DEF Inv, Shape, TypeOK, Measured, Sound

\* Folding keeps one finding for each detector and domain: a finding that was made, and none weighs more.
LEMMA LiveIsFolded ==
  ASSUME NEW found, Sound(found)
  PROVE  /\ \A v \in LiveFindings(found) :
              /\ v.by \in Detectors /\ v.domain \in DOMAIN Reach /\ v.weight \in 1..100
              /\ \E g \in found : g.by # Classifier /\ g.by = v.by /\ g.domain = v.domain /\ g.weight = v.weight
         /\ \A g \in found : g.by # Classifier =>
              \E v \in LiveFindings(found) : v.by = g.by /\ v.domain = g.domain /\ g.weight <= v.weight
         /\ \A v, w \in LiveFindings(found) : v.by = w.by /\ v.domain = w.domain => v = w
<1> DEFINE telemetry == {f \in found : f.by # Classifier}
           Same(f) == {g \in telemetry : g.by = f.by /\ g.domain = f.domain}
           Most(f) == Max({g.weight : g \in Same(f)})
           Folded(f) == Finding(f.by, f.domain, Most(f), UNION {g.cites : g \in Same(f)})
<1>1. LiveFindings(found) = {Folded(f) : f \in telemetry}
  BY DEF LiveFindings
<1>2. \A f \in telemetry : Folded(f).by = f.by /\ Folded(f).domain = f.domain /\ Folded(f).weight = Most(f)
  BY DEF Finding
<1>3. ASSUME NEW f \in telemetry
      PROVE  (\E g \in Same(f) : g.weight = Most(f)) /\ \A g \in Same(f) : g.weight <= Most(f)
  <2> DEFINE S == {g.weight : g \in Same(f)}
  <2>1. \A x \in S : x \in 0..100
    BY DEF Sound
  <2>2. f.weight \in S
    OBVIOUS
  <2> HIDE DEF S
  <2>3. Max(S) \in S /\ \A x \in S : x <= Max(S)
    BY <2>1, <2>2, MaxIsLargest
  <2>4. QED BY <2>3 DEF S
<1>4. \A f, g \in telemetry : f.by = g.by /\ f.domain = g.domain => Same(f) = Same(g)
  OBVIOUS
<1>5. \A f, g \in telemetry : f.by = g.by /\ f.domain = g.domain => Folded(f) = Folded(g)
  <2> SUFFICES ASSUME NEW f \in telemetry, NEW g \in telemetry, f.by = g.by, f.domain = g.domain
               PROVE  Folded(f) = Folded(g)
    OBVIOUS
  <2>1. Same(f) = Same(g)
    BY <1>4
  <2>2. Most(f) = Most(g) /\ UNION {h.cites : h \in Same(f)} = UNION {h.cites : h \in Same(g)}
    BY <2>1
  <2> HIDE DEF Most, Same
  <2>3. QED BY <2>2
<1> HIDE DEF Most, Folded
<1>6. ASSUME NEW v \in LiveFindings(found)
      PROVE  /\ v.by \in Detectors /\ v.domain \in DOMAIN Reach /\ v.weight \in 1..100
             /\ \E g \in found : g.by # Classifier /\ g.by = v.by /\ g.domain = v.domain /\ g.weight = v.weight
  <2>1. PICK f \in telemetry : v = Folded(f)
    BY <1>1
  <2>2. PICK g \in Same(f) : g.weight = Most(f)
    BY <1>3
  <2>3. g.by = v.by /\ g.domain = v.domain /\ g.weight = v.weight
    BY <1>2, <2>1, <2>2
  <2>4. QED BY <2>2, <2>3 DEF Sound
<1>7. ASSUME NEW g \in found, g.by # Classifier
      PROVE  \E v \in LiveFindings(found) : v.by = g.by /\ v.domain = g.domain /\ g.weight <= v.weight
  <2>1. g \in telemetry /\ g \in Same(g)
    BY <1>7
  <2>2. g.weight <= Most(g)
    BY <1>3, <2>1
  <2>3. Folded(g) \in LiveFindings(found)
    BY <1>1, <2>1
  <2>4. QED BY <1>2, <2>1, <2>2, <2>3
<1>8. ASSUME NEW v \in LiveFindings(found), NEW w \in LiveFindings(found), v.by = w.by, v.domain = w.domain
      PROVE  v = w
  <2>1. PICK f \in telemetry : v = Folded(f)
    BY <1>1
  <2>2. PICK g \in telemetry : w = Folded(g)
    BY <1>1
  <2>3. f.by = g.by /\ f.domain = g.domain
    BY <1>2, <1>8, <2>1, <2>2
  <2>4. QED BY <1>5, <2>1, <2>2, <2>3
<1>9. QED BY <1>6, <1>7, <1>8

LEMMA VotesCast ==
  ASSUME NEW found
  PROVE  \A p : p \in Votes(found) <=> \E f \in found : \E k \in 1..f.weight : p = <<f, k>>
  BY DEF Votes

\* The votes of the folded findings can be counted, and those for one domain are among them all.
LEMMA VotesCount ==
  ASSUME NEW found, Sound(found), NEW live, live = LiveFindings(found)
  PROVE  /\ IsFiniteSet(Votes(live)) /\ Total(live) \in Nat
         /\ \A d : /\ IsFiniteSet(Votes(Supporting(live, d)))
                   /\ Weight(live, d) \in Nat /\ Weight(live, d) <= Total(live)
<1>1. /\ \A v \in live : v.by \in Detectors /\ v.domain \in DOMAIN Reach /\ v.weight \in 1..100
      /\ \A v, w \in live : v.by = w.by /\ v.domain = w.domain => v = w
  BY LiveIsFolded
<1>2. IsFiniteSet(live)
  <2> DEFINE F == [v \in live |-> <<v.by, v.domain>>]
  <2>1. F \in [live -> Detectors \X DOMAIN Reach] /\ \A v, w \in live : F[v] = F[w] => v = w
    BY <1>1
  <2>2. F \in Injection(live, Detectors \X DOMAIN Reach)
    <3> HIDE DEF F
    <3>1. QED BY <2>1, Fun_IsInj
  <2>3. IsFiniteSet(Detectors \X DOMAIN Reach)
    BY FewDetectors, FewDomains, FS_Product
  <2>4. QED BY <2>2, <2>3, FS_Injection
<1>3. IsFiniteSet(Votes(live))
  <2> DEFINE steps == 1..100
  <2>1. IsFiniteSet(steps)
    <3>1. \A n \in steps : n \in Nat /\ n <= 100
      OBVIOUS
    <3>2. QED BY <3>1, FS_BoundedSetOfNaturals
  <2>2. Votes(live) \subseteq live \X steps
    BY <1>1, VotesCast
  <2> HIDE DEF steps
  <2>3. IsFiniteSet(live \X steps)
    BY <1>2, <2>1, FS_Product
  <2>4. QED BY <2>2, <2>3, FS_Subset
<1>4. Total(live) \in Nat
  BY <1>3, FS_CardinalityType DEF Total
<1>5. ASSUME NEW d
      PROVE  /\ IsFiniteSet(Votes(Supporting(live, d)))
             /\ Weight(live, d) \in Nat /\ Weight(live, d) <= Total(live)
  <2>1. Votes(Supporting(live, d)) \subseteq Votes(live)
    BY DEF Votes, Supporting
  <2>2. QED BY <1>3, <2>1, FS_Subset, FS_CardinalityType DEF Weight, Total
<1>6. QED BY <1>3, <1>4, <1>5

\* A domain's weight is the sum of its detectors' strongest claims.
LEMMA WeightIsClaim ==
  ASSUME NEW found, Sound(found), NEW d
  PROVE  Weight(LiveFindings(found), d) =
           Cardinality(UNION {{f.by} \X (1..f.weight) : f \in {g \in found : g.by # Classifier /\ g.domain = d}})
<1> DEFINE live == LiveFindings(found)
           cast == Votes(Supporting(live, d))
           claims == UNION {{f.by} \X (1..f.weight) : f \in {g \in found : g.by # Classifier /\ g.domain = d}}
           F == [p \in cast |-> <<p[1].by, p[2]>>]
<1>1. IsFiniteSet(cast)
  BY VotesCount
<1>2. \A p \in cast : \E v \in live : v.domain = d /\ p = <<v, p[2]>> /\ p[1] = v /\ p[2] \in 1..v.weight
  BY VotesCast DEF Supporting
<1>3. \A v \in live : v.domain = d => \A k \in 1..v.weight : <<v, k>> \in cast
  BY VotesCast DEF Supporting
<1>4. \A by, k : <<by, k>> \in claims <=>
        \E g \in found : g.by # Classifier /\ g.domain = d /\ g.by = by /\ k \in 1..g.weight
  OBVIOUS
<1>5. \A q \in claims : q = <<q[1], q[2]>>
  OBVIOUS
<1>6. /\ \A v \in live : /\ v.by \in Detectors /\ v.weight \in 1..100
                         /\ \E g \in found : g.by # Classifier /\ g.by = v.by /\ g.domain = v.domain /\ g.weight = v.weight
      /\ \A g \in found : g.by # Classifier =>
           g.weight \in 1..100 /\ \E v \in live : v.by = g.by /\ v.domain = g.domain /\ g.weight <= v.weight
      /\ \A v, w \in live : v.by = w.by /\ v.domain = w.domain => v = w
  BY LiveIsFolded DEF Sound
<1> HIDE DEF live, cast, claims
<1>7. \A p \in cast : F[p] \in claims
  <2> SUFFICES ASSUME NEW p \in cast PROVE F[p] \in claims
    OBVIOUS
  <2>1. PICK v \in live : v.domain = d /\ p = <<v, p[2]>> /\ p[1] = v /\ p[2] \in 1..v.weight
    BY <1>2
  <2>2. F[p] = <<v.by, p[2]>>
    BY <2>1
  <2>3. <<v.by, p[2]>> \in claims
    BY <1>4, <1>6, <2>1
  <2>4. QED BY <2>2, <2>3
<1>8. \A p, q \in cast : F[p] = F[q] => p = q
  <2> SUFFICES ASSUME NEW p \in cast, NEW q \in cast, F[p] = F[q] PROVE p = q
    OBVIOUS
  <2>1. PICK v \in live : v.domain = d /\ p = <<v, p[2]>> /\ p[1] = v /\ p[2] \in 1..v.weight
    BY <1>2
  <2>2. PICK w \in live : w.domain = d /\ q = <<w, q[2]>> /\ q[1] = w /\ q[2] \in 1..w.weight
    BY <1>2
  <2>3. v.by = w.by /\ p[2] = q[2]
    BY <2>1, <2>2
  <2>4. QED BY <1>6, <2>1, <2>2, <2>3
<1>9. \A q \in claims : \E p \in cast : F[p] = q
  <2> SUFFICES ASSUME NEW q \in claims PROVE \E p \in cast : F[p] = q
    OBVIOUS
  <2>1. PICK g \in found : g.by # Classifier /\ g.domain = d /\ g.by = q[1] /\ q[2] \in 1..g.weight
    BY <1>4, <1>5
  <2>2. PICK v \in live : v.by = g.by /\ v.domain = g.domain /\ g.weight <= v.weight
    BY <1>6, <2>1
  <2>3. q[2] \in 1..v.weight
    BY <1>6, <2>1, <2>2
  <2>4. <<v, q[2]>> \in cast
    BY <1>3, <2>1, <2>2, <2>3
  <2>5. F[<<v, q[2]>>] = <<v.by, q[2]>>
    BY <2>4
  <2>6. QED BY <1>5, <2>1, <2>2, <2>4, <2>5
<1>10. F \in [cast -> claims]
  BY <1>7
<1>11. F \in Bijection(cast, claims)
  <2> HIDE DEF F
  <2>1. QED BY <1>8, <1>9, <1>10, Fun_IsBij
<1>12. ExistsBijection(cast, claims)
  BY <1>11 DEF ExistsBijection
<1>13. Cardinality(claims) = Cardinality(cast)
  BY <1>1, <1>12, FS_Bijection
<1>14. QED BY <1>13 DEF Weight, live, cast, claims
-----------------------------------------------------------------------------
(* Re-testing is no new vote *)

\* No two domains rank alike, so where the power is on one of those suspected outranks the others.
LEMMA SomeDomainLeads ==
  ASSUME NEW found, Sound(found), NEW live, live = LiveFindings(found), live # {}
  PROVE  \E d \in Suspected(live) : \A e \in Suspected(live) \ {d} : Outranks(live, d, e)
<1> DEFINE Rank(d) == 12 * Weight(live, d) + Reach[d]
           ranks == {Rank(d) : d \in Suspected(live)}
           top == 12 * Total(live) + 11
<1>1. \A d \in Suspected(live) : /\ Reach[d] \in 0..11 /\ Weight(live, d) \in Nat /\ Total(live) \in Nat
                                 /\ Weight(live, d) <= Total(live)
  <2>1. \A d \in Suspected(live) : d \in DOMAIN Reach
    BY LiveIsFolded DEF Suspected
  <2>2. QED BY <2>1, FewDomains, VotesCount
<1>2. \A d, e \in Suspected(live) : Reach[d] = Reach[e] => d = e
  <2>1. \A d \in Suspected(live) : d \in DOMAIN Reach
    BY LiveIsFolded DEF Suspected
  <2>2. QED BY <2>1, FewDomains
<1>3. ranks # {}
  BY DEF Suspected
<1>4. top \in Nat /\ \A x \in ranks : x \in 0..top
  <2>1. Total(live) \in Nat
    BY VotesCount
  <2>2. QED BY <1>1, <2>1
<1>5. \E m \in ranks : \A x \in ranks : x <= m
  <2> HIDE DEF ranks, top
  <2>1. QED BY <1>3, <1>4, MaxIsLargest
<1>6. PICK d \in Suspected(live) : \A e \in Suspected(live) : Rank(e) <= Rank(d)
  BY <1>5
<1>7. ASSUME NEW e \in Suspected(live) \ {d} PROVE Outranks(live, d, e)
  <2>1. Rank(e) <= Rank(d) /\ Reach[d] # Reach[e]
    BY <1>2, <1>6
  <2>2. QED BY <1>1, <2>1 DEF Outranks
<1>8. QED BY <1>7

\* The classifier's domain has the weight of any other, unless the power is out.
LEMMA ClassifierLeads ==
  ASSUME NEW found, Sound(found), NEW live, live = LiveFindings(found), live # {},
         Classify(live) # "power"
  PROVE  /\ Classify(live) \in Suspected(live)
         /\ \A e \in Suspected(live) : Weight(live, e) <= Weight(live, Classify(live))
<1> DEFINE d == Classify(live)
<1>1. d = CHOOSE x \in Suspected(live) : \A e \in Suspected(live) \ {x} : Outranks(live, x, e)
  BY DEF Classify
<1>2. d \in Suspected(live) /\ \A e \in Suspected(live) \ {d} : Outranks(live, d, e)
  <2> HIDE DEF d
  <2>1. QED BY <1>1, SomeDomainLeads
<1>3. \A e \in Suspected(live) : Weight(live, e) \in Nat
  BY VotesCount
<1>4. ASSUME NEW e \in Suspected(live) PROVE Weight(live, e) <= Weight(live, d)
  <2>1. CASE e = d
    BY <1>3, <2>1
  <2>2. CASE e # d
    BY <1>2, <1>3, <2>2 DEF Outranks
  <2>3. QED BY <2>1, <2>2
<1>5. QED BY <1>2, <1>4

\* However often the tests of a domain are run again, for every set of detectors and strengths: where
\* P10 concluded, no domain has a stronger claim than the one it named.
THEOREM RetestingAddsNothing == Spec => []RetestingIsNoNewVote
<1>1. Inv /\ Measured => RetestingIsNoNewVote
  <2> SUFFICES ASSUME Inv, Measured, pc = "generate_resolution_options",
                      rca.domain \notin {"unknown", "power"},
                      NEW f \in findings, f.by # Classifier
               PROVE  Claimed(f.domain) <= Claimed(rca.domain)
                      /\ Claimed(f.domain) \in Nat /\ Claimed(rca.domain) \in Nat
    BY DEF RetestingIsNoNewVote
  <2> DEFINE live == LiveFindings(findings)
             d == Classify(live)
  <2>1. Sound(findings)
    BY FindingsAreSound
  <2>2. rca = Conclude(live, d, cycle)
    BY DEF Inv, Standing
  <2>3. f.domain \in Suspected(live) /\ live # {}
    <3>1. PICK v \in live : v.domain = f.domain
      BY <2>1, LiveIsFolded
    <3>2. QED BY <3>1 DEF Suspected
  <2>4. d \in Suspected(live) /\ rca.domain = d
    BY <2>2 DEF Conclude, NoConclusion
  <2>5. Weight(live, f.domain) <= Weight(live, d)
    BY <2>1, <2>3, <2>4, ClassifierLeads
  <2>6. Claimed(f.domain) = Weight(live, f.domain) /\ Claimed(rca.domain) = Weight(live, d)
    BY <2>1, <2>4, WeightIsClaim DEF Claimed
  <2>7. Weight(live, f.domain) \in Nat /\ Weight(live, d) \in Nat
    BY <2>1, VotesCount
  <2>8. QED BY <2>5, <2>6, <2>7
<1>2. QED BY <1>1, AlwaysMeasured, PTL
-----------------------------------------------------------------------------
(* Enough readings before acting *)

\* What is asked of the settings: with a reading too few, the best posterior is less than any action
\* of the pack asks for.  (Two readings and 0.65 in the shipped pack: one of two leaves 0.5.)
OneTooFew == Rounded(10000 * (MinSources - 1), MinSources)
ActingNeedsMore == OneTooFew < MinForAction

\* The readings behind a domain, and the most that any posterior is.
CitedFor(live, d) == UNION {f.cites : f \in Supporting(live, d)}
NeverCertain == 9500

LEMMA MinOfTwo ==
  ASSUME NEW a \in Nat, NEW b \in Nat
  PROVE  Min({a, b}) \in {a, b} /\ Min({a, b}) <= a /\ Min({a, b}) <= b
<1>1. PICK x \in {a, b} : \A y \in {a, b} : x <= y
  <2>1. CASE a <= b
    BY <2>1
  <2>2. CASE b <= a
    BY <2>2
  <2>3. QED BY <2>1, <2>2
<1>2. Min({a, b}) \in {a, b} /\ \A y \in {a, b} : Min({a, b}) <= y
  BY <1>1 DEF Min
<1>3. QED BY <1>2

\* A finite set with enough elements has a part of just that size.
LEMMA PartOfSize ==
  ASSUME NEW S, IsFiniteSet(S), NEW n \in Nat, n <= Cardinality(S)
  PROVE  \E c \in SUBSET S : Cardinality(c) = n
<1>1. Cardinality(S) \in Nat /\ ExistsBijection(1..Cardinality(S), S)
  BY FS_CardinalityType
<1>2. PICK F : F \in Bijection(1..Cardinality(S), S)
  BY <1>1 DEF ExistsBijection
<1> DEFINE c == {F[i] : i \in 1..n}
           G == [i \in 1..n |-> F[i]]
<1>3. F \in [1..Cardinality(S) -> S] /\ \A i, j \in 1..Cardinality(S) : F[i] = F[j] => i = j
  BY <1>2 DEF Bijection, Injection, IsInjective
<1>4. 1..n \subseteq 1..Cardinality(S)
  BY <1>1
<1>5. c \in SUBSET S
  BY <1>3, <1>4
<1>6. G \in [1..n -> c] /\ (\A i, j \in 1..n : G[i] = G[j] => i = j) /\ \A x \in c : \E i \in 1..n : G[i] = x
  BY <1>3, <1>4
<1>7. G \in Bijection(1..n, c)
  <2> HIDE DEF G, c
  <2>1. QED BY <1>6, Fun_IsBij
<1>8. IsFiniteSet(1..n) /\ Cardinality(1..n) = n
  <2>1. 1 \in Int /\ n \in Int /\ (IF 1 > n THEN 0 ELSE n - 1 + 1) = n
    OBVIOUS
  <2>2. QED BY <2>1, FS_Interval
<1>9. Cardinality(c) = n
  <2>1. ExistsBijection(1..n, c)
    BY <1>7 DEF ExistsBijection
  <2> HIDE DEF c
  <2>2. QED BY <1>8, <2>1, FS_Bijection
<1>10. QED BY <1>5, <1>9

\* A posterior is a number no greater than the share of the readings asked for that stand behind it.
LEMMA PosteriorIsItsShare ==
  ASSUME NEW found, Sound(found), NEW live, live = LiveFindings(found),
         NEW refs, IsFiniteSet(refs), \A f \in live : f.cites # {} /\ f.cites \subseteq refs,
         NEW d \in Suspected(live)
  PROVE  /\ Posterior(live, d) \in Nat /\ Posterior(live, d) <= NeverCertain
         /\ IsFiniteSet(CitedFor(live, d))
         /\ Cardinality(CitedFor(live, d)) < MinSources => Posterior(live, d) <= OneTooFew
<1> DEFINE cited == CitedFor(live, d)
           n == Cardinality(cited)
           w == Weight(live, d)
           t == Total(live)
           counted == Min({n, MinSources})
           share == Rounded(10000 * w * counted, t * MinSources)
<1>1. cited # {} /\ cited \subseteq refs
  BY DEF CitedFor, Suspected, Supporting
<1>2. IsFiniteSet(cited) /\ n \in Nat
  BY <1>1, FS_Subset, FS_CardinalityType
<1>3. CountedSources(live, d) = n
  BY <1>1 DEF CountedSources, CitedFor
<1>4. MinSources \in Nat \ {0}
  BY BudgetAssumption
<1>5. w \in Nat /\ t \in Nat \ {0} /\ w <= t
  <2>1. PICK f \in live : f.weight \in 1..100
    BY LiveIsFolded DEF Suspected
  <2>2. <<f, 1>> \in Votes(live)
    BY <2>1, VotesCast
  <2>3. IsFiniteSet(Votes(live)) /\ t \in Nat /\ w \in Nat /\ w <= t
    BY VotesCount
  <2>4. t # 0
    BY <2>2, <2>3, FS_EmptySet DEF Total
  <2>5. QED BY <2>3, <2>4
<1>6. Posterior(live, d) = Min({9500, share})
  BY <1>3 DEF Posterior
<1> HIDE DEF cited, n, w, t
<1>7. counted \in Nat /\ counted <= n
  BY <1>2, <1>4, MinOfTwo
<1> HIDE DEF counted
<1>8. 10000 * w * counted \in Nat /\ t * MinSources \in Nat \ {0} /\ w * counted \in Nat
  BY <1>4, <1>5, <1>7
<1>9. share \in Nat
  BY <1>8, RoundedKeepsOrder
<1>11. ASSUME n < MinSources PROVE share <= Rounded(10000 * (MinSources - 1), MinSources)
  <2> DEFINE less == MinSources - 1
  <2>1. less \in Nat /\ counted <= less
    BY <1>2, <1>4, <1>7, <1>11
  <2> HIDE DEF less
  <2>2. w * counted <= t * less
    <3>1. w * counted <= w * less
      BY <1>5, <1>7, <2>1, Products
    <3>2. less * w <= less * t
      BY <1>5, <2>1, Products
    <3>3. less * w = w * less /\ less * t = t * less
      BY <1>5, <2>1
    <3>4. w * counted \in Nat /\ w * less \in Nat /\ t * less \in Nat
      BY <1>5, <1>7, <2>1
    <3>5. QED BY <3>1, <3>2, <3>3, <3>4
  <2>3. (10000 * MinSources) * (w * counted) <= (10000 * MinSources) * (t * less)
    <3>1. 10000 * MinSources \in Nat /\ w * counted \in Nat /\ t * less \in Nat
      BY <1>4, <1>5, <1>7, <2>1
    <3>2. QED BY <2>2, <3>1, Products
  <2>4. (10000 * MinSources) * (w * counted) = (10000 * w * counted) * MinSources
    BY <1>4, <1>5, <1>7
  <2>5. (10000 * MinSources) * (t * less) = (10000 * less) * (t * MinSources)
    BY <1>4, <1>5, <2>1
  <2>6. (10000 * w * counted) * MinSources <= (10000 * less) * (t * MinSources)
    BY <2>3, <2>4, <2>5
  <2>7. ASSUME NEW a \in Nat, NEW b \in Nat \ {0}, NEW c \in Nat, a * MinSources <= c * b
        PROVE  Rounded(a, b) <= Rounded(c, MinSources)
    BY <1>4, <2>7, RoundedKeepsOrder
  <2>8. 10000 * less \in Nat
    BY <2>1
  <2>9. share <= Rounded(10000 * less, MinSources)
    BY <1>8, <2>6, <2>7, <2>8
  <2>10. QED BY <2>9 DEF less
<1> DEFINE cap == NeverCertain
<1> HIDE DEF share
<1>10. Posterior(live, d) \in Nat /\ Posterior(live, d) <= cap /\ Posterior(live, d) <= share
  <2>1. cap \in Nat /\ Posterior(live, d) = Min({cap, share})
    BY <1>6 DEF NeverCertain
  <2> HIDE DEF cap
  <2>2. Posterior(live, d) \in {cap, share} /\ Posterior(live, d) <= cap /\ Posterior(live, d) <= share
    BY <1>9, <2>1, MinOfTwo
  <2>3. QED BY <1>9, <2>1, <2>2
<1>12. ASSUME n < MinSources PROVE Posterior(live, d) <= Rounded(10000 * (MinSources - 1), MinSources)
  <2> DEFINE most == Rounded(10000 * (MinSources - 1), MinSources)
  <2>1. most \in Int
    <3>1. 10000 * (MinSources - 1) \in Nat /\ 2 * MinSources \in Nat \ {0}
      BY <1>4
    <3>2. 2 * (10000 * (MinSources - 1)) + MinSources \in Nat
      BY <1>4
    <3>3. QED BY <3>1, <3>2, Quotients DEF Rounded
  <2>2. share <= most
    BY <1>11, <1>12
  <2> HIDE DEF most
  <2>3. Posterior(live, d) <= most
    BY <1>9, <1>10, <2>1, <2>2
  <2>4. QED BY <2>3 DEF most
<1>13. QED BY <1>2, <1>10, <1>12 DEF cited, n, OneTooFew

\* A conclusion confident enough to act on cites as many readings as the pack asks for.
LEMMA ConfidenceNeedsReadings ==
  ASSUME ActingNeedsMore, NEW found, Sound(found), NEW live, live = LiveFindings(found),
         NEW refs, IsFiniteSet(refs), \A f \in live : f.cites # {} /\ f.cites \subseteq refs,
         NEW d, NEW c, Conclude(live, d, c).confidence >= MinForAction
  PROVE  \E part \in SUBSET refs : /\ part \subseteq Conclude(live, d, c).supporting
                                   /\ Cardinality(part) = MinSources
<1>0. ASSUME NEW e \in Suspected(live)
      PROVE  /\ Posterior(live, e) \in Nat /\ Posterior(live, e) <= NeverCertain
             /\ IsFiniteSet(CitedFor(live, e))
             /\ Cardinality(CitedFor(live, e)) < MinSources => Posterior(live, e) <= OneTooFew
  BY PosteriorIsItsShare
<1>1. MinForAction \in Nat \ {0} /\ MinSources \in Nat \ {0}
  <2>1. MinForAction \in 1..10000
    BY PackAssumption
  <2>2. MinForAction \in Nat /\ MinForAction # 0
    BY <2>1
  <2>3. QED BY <2>2, BudgetAssumption
<1> DEFINE cited == CitedFor(live, d)
           leader == Posterior(live, d)
           rivals == {0} \cup {Posterior(live, e) : e \in Suspected(live) \ {d}}
           rival == Max(rivals)
<1>2. d \in Suspected(live)
  <2> SUFFICES ASSUME d \notin Suspected(live) PROVE FALSE
    OBVIOUS
  <2>1. Conclude(live, d, c).confidence = 0
    BY DEF Conclude, NoConclusion
  <2>2. QED BY <1>1, <2>1
<1>3. /\ Conclude(live, d, c).supporting = cited
      /\ Conclude(live, d, c).confidence = IF leader = 0 THEN 0 ELSE Rounded(leader * leader, leader + rival)
  BY <1>2 DEF Conclude, CitedFor
<1>4. /\ leader \in Nat /\ IsFiniteSet(cited)
      /\ Cardinality(cited) < MinSources => leader <= OneTooFew
  BY <1>0, <1>2
<1>5. rival \in Nat
  <2> DEFINE cap == NeverCertain
  <2>1. \A e \in Suspected(live) : Posterior(live, e) \in Nat /\ Posterior(live, e) <= cap
    BY <1>0
  <2>2. cap \in Nat
    BY DEF NeverCertain
  <2> HIDE DEF cap
  <2>3. rivals # {} /\ \A x \in rivals : x \in 0..cap
    BY <2>1, <2>2
  <2> HIDE DEF rivals
  <2>4. rival \in rivals
    BY <2>2, <2>3, MaxIsLargest
  <2>5. QED BY <2>2, <2>3, <2>4
<1> HIDE DEF cited, leader, rival
<1>6. leader # 0 /\ MinForAction <= leader
  <2>1. leader # 0
    BY <1>1, <1>3
  <2>2. Rounded(leader * leader, leader + rival) <= leader
    BY <1>4, <1>5, <2>1, NoMoreThanLeader
  <2>3. Rounded(leader * leader, leader + rival) \in Nat
    <3>1. leader * leader \in Nat /\ leader + rival \in Nat \ {0}
      BY <1>4, <1>5, <2>1
    <3>2. (leader * leader) * (leader + rival) <= (leader * leader) * (leader + rival)
      BY <3>1
    <3>3. QED BY <3>1, <3>2, RoundedKeepsOrder
  <2>4. MinForAction <= Rounded(leader * leader, leader + rival)
    BY <1>3, <2>1
  <2>5. QED BY <1>1, <1>4, <2>1, <2>2, <2>3, <2>4
<1>7. OneTooFew \in Nat /\ OneTooFew < MinForAction
  <2>1. 10000 * (MinSources - 1) \in Nat
    BY <1>1
  <2>2. (10000 * (MinSources - 1)) * MinSources <= (10000 * (MinSources - 1)) * MinSources
    BY <1>1, <2>1
  <2>3. QED BY <1>1, <2>1, <2>2, RoundedKeepsOrder DEF ActingNeedsMore, OneTooFew
<1>8. Cardinality(cited) \in Nat /\ MinSources <= Cardinality(cited)
  <2>1. Cardinality(cited) \in Nat
    BY <1>4, FS_CardinalityType
  <2>2. QED BY <1>1, <1>4, <1>6, <1>7, <2>1
<1>9. PICK part \in SUBSET cited : Cardinality(part) = MinSources
  BY <1>1, <1>4, <1>8, PartOfSize
<1>10. cited \subseteq refs
  BY DEF cited, CitedFor, Supporting
<1>11. QED BY <1>3, <1>9, <1>10

\* Readings stay on record.
LEMMA ReadingsStay == [Next]_vars => Refs \subseteq Refs'
<1> SUFFICES ASSUME [Next]_vars PROVE Refs \subseteq Refs'
  OBVIOUS
<1>1. ASSUME NEW items, NEW read, NEW c PROVE items \subseteq AppendUnique(items, read, c)
  BY DEF AppendUnique
<1>2. evidence \subseteq evidence'
  <2>1. CASE AssembleCaseEvidence
    BY <1>1, <2>1 DEF AssembleCaseEvidence
  <2>2. CASE ExecuteReadOnlyTests
    BY <1>1, <2>2 DEF ExecuteReadOnlyTests
  <2>3. CASE CreateDiagnosticTestPlan \/ DetermineRootCause \/ GenerateResolutionOptions \/ Escalate
               \/ UNCHANGED vars
    BY <2>3 DEF CreateDiagnosticTestPlan, DetermineRootCause, GenerateResolutionOptions, Escalate, vars
  <2>4. QED BY <2>1, <2>2, <2>3 DEF Next
<1>3. QED BY <1>2 DEF Refs

LEMMA ReadingsStep ==
  ASSUME ActingNeedsMore
  PROVE  Inv /\ Measured /\ EnoughReadingsBeforeActing /\ [Next]_vars => EnoughReadingsBeforeActing'
<1> SUFFICES ASSUME Inv, Measured, EnoughReadingsBeforeActing, [Next]_vars PROVE EnoughReadingsBeforeActing'
  OBVIOUS
<1>1. Refs \subseteq Refs'
  BY ReadingsStay
<1>2. CASE DetermineRootCause
  <2> DEFINE live == LiveFindings(findings)
             d == Classify(live)
  <2>1. rca' = Conclude(live, d, cycle)
    BY <1>2 DEF DetermineRootCause
  <2>2. Sound(findings)
    BY FindingsAreSound
  <2>3. \A f \in live : f.cites # {} /\ f.cites \subseteq Refs
    BY LiveFindingsCite DEF Inv, Grounded
  <2>4. IsFiniteSet(Refs)
    BY DEF Measured
  <2> HIDE DEF d
  <2>5. Conclude(live, d, cycle).confidence >= MinForAction =>
          \E part \in SUBSET Refs : /\ part \subseteq Conclude(live, d, cycle).supporting
                                    /\ Cardinality(part) = MinSources
    BY <2>2, <2>3, <2>4, ConfidenceNeedsReadings
  <2> HIDE DEF live
  <2>6. QED BY <1>1, <2>1, <2>5 DEF EnoughReadingsBeforeActing, Refs
<1>3. CASE AssembleCaseEvidence \/ CreateDiagnosticTestPlan \/ ExecuteReadOnlyTests
             \/ GenerateResolutionOptions \/ Escalate \/ UNCHANGED vars
  <2>1. rca' = rca
    BY <1>3 DEF AssembleCaseEvidence, CreateDiagnosticTestPlan, ExecuteReadOnlyTests,
                GenerateResolutionOptions, Escalate, vars
  <2>2. QED BY <1>1, <2>1 DEF EnoughReadingsBeforeActing, Refs
<1>4. QED BY <1>2, <1>3 DEF Next

\* With a pack whose actions ask for more than one reading too few can give: no confidence any action
\* accepts was reached on fewer distinct readings, of one source or several, than the pack wants
\* sources, whatever detectors spoke with whatever strengths, whichever sources failed and however often the tests were run.
THEOREM EnoughReadings ==
  ASSUME ActingNeedsMore
  PROVE  Spec => []EnoughReadingsBeforeActing
<1>1. Init => EnoughReadingsBeforeActing
  <2> SUFFICES ASSUME Init PROVE EnoughReadingsBeforeActing
    OBVIOUS
  <2>1. MinForAction \in 1..10000
    BY PackAssumption
  <2>2. rca.confidence = 0
    BY DEF Init, NoConclusion
  <2>3. MinForAction > 0
    BY <2>1
  <2>4. QED BY <2>1, <2>2, <2>3 DEF EnoughReadingsBeforeActing
<1>2. Inv /\ Measured /\ EnoughReadingsBeforeActing /\ [Next]_vars => EnoughReadingsBeforeActing'
  BY ReadingsStep
<1>3. QED BY <1>1, <1>2, AlwaysMeasured, PTL DEF Spec

=============================================================================
