----------------------------- MODULE PolicyPack -----------------------------
(***************************************************************************)
(* The policy pack: what pack.yaml holds, the validators a file must pass  *)
(* to be loaded at all, and the lookups its readers use                    *)
(* (policies/models.py, policies/loader.py).  Fractions are percentages,   *)
(* clock times are minutes of the day.  Left out: the dispatch tables of   *)
(* travel, which are constants of the module Dispatch, and the fields      *)
(* nothing here reads.                                                     *)
(***************************************************************************)
EXTENDS Integers, Sequences, FiniteSetsExt, Functions, Rbac

Flags == {"adapter_unavailable", "conflicting_sources", "inconsistent_topology", "stale_data"}

\* domain.base.DataQualityAssessment.BLOCKING_FLAGS
FlagsFloor == Flags \ {"stale_data"}

\* The order of `Severity`
Rank == [info |-> 1, low |-> 2, medium |-> 3, high |-> 4, critical |-> 5]

\* `AttemptLimits.counter_names`; "none" is an action that spends no counter.
Counters == {"remote", "self_help", "work_order", "mr", "plant"}

\* pack.yaml, as it ships
Risk(asks, kind, cap) == [asks |-> asks, kind |-> kind, cap |-> cap]
Row(risk, counter, kind) ==
  [allowed |-> TRUE, risk |-> risk, counter |-> counter, kind |-> kind, window |-> FALSE, caps |-> {}]

ShippedRow(a) ==
  CASE a \in ReadOnly -> Row("read_only", "none", "none")
    [] a \in SafeRemote -> Row("low", "remote", "none")
    [] a \in {"profile_change", "reprovision"} -> Row("medium", "remote", "none")
    [] a \in {"cpe_firmware_update", "cpe_factory_reset"} -> Row("high", "remote", "none")
    [] a \in {"node_level_reset", "olt_port_reset"} -> Row("network", "none", "none")
    [] a = "bulk_config_push" -> [Row("network", "none", "none") EXCEPT !.allowed = FALSE]
    [] a = "send_self_help" -> Row("low", "self_help", "none")
    [] a = "create_work_order" -> Row("medium", "work_order", "dispatch")
    [] a = "raise_mr" -> Row("medium", "mr", "clean_to_dirty_handover")
    [] a = "close_incident" -> Row("medium", "none", "none")
    [] OTHER -> Row("low", "none", "none")

ShippedRole(kind) ==
  CASE kind \in {"low_confidence_rca", "high_risk_remote_action", "dispatch"} -> "noc_operator"
    [] kind = "clean_to_dirty_handover" -> "osp_engineer"
    [] OTHER -> "noc_supervisor"

Shipped ==
  [ sources   |-> [diagnosis |-> 2, remote_action |-> 2, dispatch |-> 3, closure |-> 2],
    age       |-> [telemetry |-> 15, dispatch |-> 30],
    flags     |-> FlagsFloor,
    bars      |-> [remote_action |-> 65, dispatch |-> 70, mr |-> 75, autonomous |-> 75],
    review    |-> 45,
    ambiguity |-> 10,
    risks     |-> [read_only |-> Risk(FALSE, "none", 100000), low |-> Risk(FALSE, "none", 1),
                   medium |-> Risk(FALSE, "none", 8), high |-> Risk(TRUE, "high_risk_remote_action", 64),
                   network |-> Risk(TRUE, "high_blast_radius_action", 2000)],
    rows      |-> [a \in ActionType |-> ShippedRow(a)],
    radius    |-> [delimiter |-> 8, distribution |-> 120, node |-> 500, pon_port |-> 32, olt |-> 2000],
    threshold |-> 25,
    approvals |-> [k \in ApprovalKind |-> ShippedRole(k)],
    limits    |-> [c \in Counters |-> 2],
    reasons   |-> [work_order |-> 1, mr |-> 1],
    closure   |-> [proof |-> TRUE, reconciled |-> TRUE, exceptional |-> TRUE, signed |-> TRUE],
    backoff   |-> [retries |-> 3, seconds |-> <<30, 120, 600>>],
    target    |-> "noc_supervisor",
    contact   |-> [from |-> 1260, to |-> 420, override |-> "critical", cap |-> 3, spacing |-> 60,
                   skip |-> TRUE],
    bands     |-> <<80, 60, 40>>,
    stability |-> [service |-> 30, plant |-> 60],
    visits    |-> [longest |-> 150, shift |-> 480, overtime |-> 60],
    response  |-> <<1440, 480, 240, 60, 30>>,
    restore   |-> <<5760, 2880, 1440, 480, 240>>,
    tighten   |-> 1 ]
-----------------------------------------------------------------------------
(* What a file must satisfy to be loaded *)

\* Mutant: any list of flags the enumeration knows.
FlagsAreKnown(p) == p.flags \subseteq Flags
FlagsKeepTheFloor(p) == FlagsFloor \subseteq p.flags

\* The annotations of the fields, as far as the checks depend on them
FieldsAreTyped(p) ==
  /\ \A x \in Range(p.risks) \cup Range(p.rows) : x.kind \in ApprovalKind \cup {"none"}
  /\ p.threshold \in Nat \ {0}
  /\ p.sources \in [{"diagnosis", "remote_action", "dispatch", "closure"} -> Nat]
  /\ p.bars \in [{"remote_action", "dispatch", "mr", "autonomous"} -> Nat]
  /\ {p.age.telemetry, p.age.dispatch, p.ambiguity, p.contact.cap, p.contact.spacing} \subseteq Nat
  /\ \A risk \in Range(p.risks) : risk.cap \in Nat
  /\ \A row \in Range(p.rows) : row.caps \subseteq Nat /\ \A m, n \in row.caps : m = n
  /\ p.limits \in [Counters -> Nat] /\ Range(p.reasons) \subseteq Int
  /\ p.contact.override \in DOMAIN Rank

DispatchIsStrictest(p) ==
  /\ p.sources.dispatch >= p.sources.remote_action
  /\ p.age.dispatch <= 4 * p.age.telemetry

ReviewIsBelowTheBars(p) == \A b \in Range(p.bars) : p.review < b

ClassesNameTheirKind(p) == \A r \in Range(p.risks) : r.asks => r.kind # "none"

RadiiNest(p) ==
  /\ p.radius.delimiter <= p.radius.distribution /\ p.radius.distribution <= p.radius.node
  /\ p.radius.pon_port <= p.radius.olt

ReasonsAreReachable(p) == \A c \in DOMAIN p.reasons : c \in Counters /\ p.reasons[c] < p.limits[c]

PlantIsWatchedLonger(p) == p.stability.service <= p.stability.plant

TheExceptionIsSigned(p) == p.closure.exceptional => p.closure.signed

BackoffCoversRetries(p) ==
  /\ p.backoff.retries \in Nat /\ p.backoff.seconds \in Seq(Int)
  /\ p.backoff.retries <= Len(p.backoff.seconds)
  /\ \A s \in Range(p.backoff.seconds) : s > 0

BandsDescend(p) == p.bands \in [1..3 -> Int] /\ p.bands[1] > p.bands[2] /\ p.bands[2] > p.bands[3]

AVisitFits(p) == p.visits.longest <= p.visits.shift + p.visits.overtime

\* A higher severity has no longer a clock, and nothing is restored before it is responded to.
ClocksTighten(p) ==
  /\ p.response \in [1..5 -> Int] /\ p.restore \in [1..5 -> Int] /\ p.tighten \in Nat
  /\ \A i, j \in 1..5 : i < j => p.response[j] <= p.response[i] /\ p.restore[j] <= p.restore[i]
  /\ \A i \in 1..5 : 0 < p.response[i] /\ p.response[i] <= p.restore[i]

\* `rule.approval_kind or self.risk_classes[rule.risk].approval_kind`
KindOf(p, row) == IF row.kind # "none" THEN row.kind ELSE p.risks[row.risk].kind

Asks(p, row) == p.risks[row.risk].asks \/ row.kind # "none"

RowsAreComplete(p) == ActionType \subseteq DOMAIN p.rows

RowsAreCoherent(p) ==
  \A row \in Range(p.rows) :
    /\ row.risk \in DOMAIN p.risks /\ row.counter \in Counters \cup {"none"}
    /\ Asks(p, row) => KindOf(p, row) \in DOMAIN p.approvals

KindsAreConfigured(p) == ApprovalKind \subseteq DOMAIN p.approvals

FloorsMayApprove(p) == \A k \in DOMAIN p.approvals : p.approvals[k] \in ApproversFor(k)

TargetMayApprove(p) == \E k \in ApprovalKind : p.target \in ApproversFor(k)

ThresholdIsBelowTheCap(p) == "network" \in DOMAIN p.risks => p.threshold <= p.risks["network"].cap

\* `PolicyPack.model_validate`: every validator holds.
Loads(p) ==
  /\ FieldsAreTyped(p)
  /\ FlagsKeepTheFloor(p) /\ DispatchIsStrictest(p) /\ ReviewIsBelowTheBars(p)
  /\ ClassesNameTheirKind(p) /\ RadiiNest(p) /\ ReasonsAreReachable(p) /\ PlantIsWatchedLonger(p)
  /\ TheExceptionIsSigned(p) /\ BackoffCoversRetries(p) /\ BandsDescend(p) /\ AVisitFits(p)
  /\ ClocksTighten(p) /\ RowsAreComplete(p) /\ RowsAreCoherent(p) /\ KindsAreConfigured(p)
  /\ FloorsMayApprove(p) /\ TargetMayApprove(p) /\ ThresholdIsBelowTheCap(p)
-----------------------------------------------------------------------------
(* Lookups *)

\* `min_sources_for`: a class the section does not name is held to its highest bar.
MinSourcesFor(p, class) ==
  IF class \in DOMAIN p.sources THEN p.sources[class]
  ELSE IF class = "mr" THEN p.sources.dispatch
  ELSE Max(Range(p.sources))

MaxAgeFor(p, class) == IF class = "dispatch" THEN p.age.dispatch ELSE p.age.telemetry

\* `minimum_for`, with the same default
MinimumFor(p, class) ==
  IF class \in {"remote_action", "dispatch", "mr"} THEN p.bars[class] ELSE Max(Range(p.bars))

BlastRadiusCapFor(p, row) == Min(row.caps \cup {p.risks[row.risk].cap})

\* The window wraps midnight unless it starts before it ends.
InQuietHours(c, t) ==
  IF c.from <= c.to THEN c.from <= t /\ t < c.to ELSE c.from <= t \/ t < c.to

\* `backoff_for`: clamped to the last entry
BackoffFor(p, attempt) ==
  LET s == p.backoff.seconds
  IN IF s = <<>> THEN 0 ELSE s[Min({Max({attempt, 1}), Len(s)})]

\* `SLAPolicy._effective`: a vulnerable customer is read some bands tighter, up to critical.
Effective(p, severity, vulnerable) ==
  IF vulnerable THEN Min({Rank[severity] + p.tighten, 5}) ELSE Rank[severity]
ResponseFor(p, severity, vulnerable) == p.response[Effective(p, severity, vulnerable)]
RestoreFor(p, severity, vulnerable)  == p.restore[Effective(p, severity, vulnerable)]

BandFor(p, score) ==
  IF score >= p.bands[1] THEN "healthy"
  ELSE IF score >= p.bands[2] THEN "degraded"
  ELSE IF score >= p.bands[3] THEN "at_risk"
  ELSE "critical"
=============================================================================
