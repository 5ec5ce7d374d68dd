------------------------------- MODULE Rules --------------------------------
(***************************************************************************)
(* The rule engine (app/rules/rule_engine.py) and the threshold levels     *)
(* (app/rules/thresholds.py).  A condition is a record: [all |-> seq],     *)
(* [any |-> seq], or a test [metric, op, value] whose value is either a    *)
(* literal, [lit |-> v], or the name of a metric, [ref |-> m].  A context  *)
(* maps metrics to values or to Absent.                                    *)
(***************************************************************************)
EXTENDS Quantities

Severities == <<"LOW", "MEDIUM", "HIGH", "CRITICAL">>
RankOf(sev) == CHOOSE n \in DOMAIN Severities : Severities[n] = sev

Metric(ctx, m) == IF m \in DOMAIN ctx THEN ctx[m] ELSE Absent
Wanted(value, ctx) == IF "ref" \in DOMAIN value THEN Metric(ctx, value.ref) ELSE value.lit

Compare(op, a, b) ==
  CASE op = "<"  -> a < b
    [] op = "<=" -> a <= b
    [] op = ">"  -> a > b
    [] op = ">=" -> a >= b
    [] op = "==" -> a = b
    [] op = "!=" -> a # b
    [] op = "in" -> a \in b
    [] op = "not_in" -> a \notin b

(* A test of a metric that is missing fails. *)
Test(c, ctx) ==
  /\ Metric(ctx, c.metric) # Absent
  /\ Wanted(c.value, ctx) # Absent
  /\ Compare(c.op, Metric(ctx, c.metric), Wanted(c.value, ctx))

RECURSIVE Holds(_, _)
Holds(c, ctx) ==
  CASE DOMAIN c = {}      -> FALSE
    [] "all" \in DOMAIN c -> \A i \in DOMAIN c.all : Holds(c.all[i], ctx)
    [] "any" \in DOMAIN c -> \E i \in DOMAIN c.any : Holds(c.any[i], ctx)
    [] OTHER              -> Test(c, ctx)

(* The highest severity among the clauses that match, never below the default. *)
SeverityFor(severity, ctx) ==
  FoldLeft(LAMBDA sev, w : IF Test(w, ctx) /\ RankOf(w.severity) > RankOf(sev) THEN w.severity ELSE sev,
           severity.default, severity.when)

-----------------------------------------------------------------------------
(* Bands of a probability, one higher when there is no time left to react. *)
StockoutLevel(prob, days, leadTime, th) ==
  LET band == CASE prob >= th.critical -> 3
                [] prob >= th.high     -> 2
                [] prob >= th.medium   -> 1
                [] OTHER               -> 0
  IN  IF days # Absent /\ days <= leadTime /\ band \in {1, 2} THEN band + 1 ELSE band

ExpiryStatus(days, pct, th) ==
  CASE days = Absent           -> "NONE"
    [] days < 0                -> "EXPIRED"
    [] days <= th.critical     -> "CRITICAL"
    [] \/ days <= th.near
       \/ pct # Absent /\ pct <= th.pct -> "NEAR"
    [] OTHER                   -> "OK"

(* Four levels of a KPI; beyond is < when higher is better and > otherwise. *)
KpiStatus(value, higher, watch, attention, critical) ==
  LET beyond(limit) == limit # Absent /\ (IF higher THEN value < limit ELSE value > limit)
  IN  CASE value = Absent \/ watch = Absent -> "NORMAL"
        [] beyond(critical)  -> "CRITICAL"
        [] beyond(attention) -> "ATTENTION"
        [] beyond(watch)     -> "WATCH"
        [] OTHER             -> "NORMAL"

-----------------------------------------------------------------------------
(* The rules the program is seeded with (seed_service.py, RULES).  Ratios and  *)
(* shares are in hundredths; hours are those of the code.                      *)

Meets(m, op, v) == [metric |-> m, op |-> op, value |-> [lit |-> v]]
MeetsRef(m, op, m2) == [metric |-> m, op |-> op, value |-> [ref |-> m2]]
AllOf(seq) == [all |-> seq]
AnyOf(seq) == [any |-> seq]
Raise(m, op, v, sev) == [metric |-> m, op |-> op, value |-> [lit |-> v], severity |-> sev]
Sev(default, when) == [default |-> default, when |-> when]

RuleFor(code, type, scope, industries, condition, severity) ==
  [code |-> code, type |-> type, scope |-> scope, industries |-> industries, condition |-> condition,
   severity |-> severity, suppress |-> 0, escalate |-> 48]

SupplyRules ==
  <<RuleFor("PO_DELAY", "PO_DELAY", "supply", {}, AllOf(<<Meets("overdue_days", ">", 0), Meets("kind", "==", "PO")>>),
            Sev("MEDIUM", <<Raise("overdue_days", ">", 7, "HIGH")>>)),
    RuleFor("ETA_CHANGE", "ETA_CHANGE", "supply", {}, AllOf(<<Meets("eta_slip_days", ">", 2)>>),
            Sev("MEDIUM", <<Raise("eta_slip_days", ">", 7, "HIGH")>>)),
    RuleFor("SUPPLIER_DELAY", "SUPPLIER_DELAY", "supplier", {},
            AnyOf(<<Meets("otif", "<", 85), Meets("lt_reliability", "<", 70)>>), Sev("MEDIUM", <<Raise("otif", "<", 70, "HIGH")>>))>>

StockRules ==
  <<RuleFor("STOCKOUT_RISK", "STOCKOUT", "pair", {},
            AnyOf(<<Meets("risk_rank", ">=", 2),
                  AllOf(<<Meets("risk_rank", ">=", 1), MeetsRef("days_to_stockout", "<=", "lt_horizon"),
                        Meets("demand_daily", ">", 0)>>)>>),
            Sev("MEDIUM", <<Raise("risk_rank", ">=", 2, "HIGH"), Raise("risk_rank", ">=", 3, "CRITICAL")>>)),
    RuleFor("SAFETY_STOCK_BREACH", "SAFETY_STOCK_BREACH", "pair", {},
            AllOf(<<MeetsRef("usable_on_hand", "<", "safety_stock"), Meets("safety_stock", ">", 0), Meets("demand_daily", ">", 0)>>),
            Sev("MEDIUM", <<Raise("ss_ratio", "<", 50, "HIGH")>>)),
    RuleFor("EXCESS_INVENTORY", "EXCESS", "pair", {},
            AllOf(<<Meets("excess_value", ">", 250000), Meets("inv_class", "in", {"EXCESS", "SLOW"})>>),
            Sev("MEDIUM", <<Raise("excess_value", ">", 3000000, "HIGH")>>)),
    RuleFor("OBSOLESCENCE", "OBSOLESCENCE", "pair", {},
            AllOf(<<Meets("inv_class", "in", {"NON_MOVING", "OBSOLETE"}), Meets("on_hand_value", ">", 0)>>),
            Sev("MEDIUM", <<Raise("inv_class", "==", "OBSOLETE", "HIGH")>>)),
    RuleFor("AGING_STOCK", "AGING", "pair", {},
            AllOf(<<Meets("oldest_days", ">", 365), Meets("on_hand_value", ">", 500000)>>), Sev("LOW", <<>>)),
    RuleFor("EXPIRY_RISK", "EXPIRY", "pair", {},
            AnyOf(<<Meets("expiry_status", "in", {"NEAR", "CRITICAL", "EXPIRED"}), Meets("at_risk_qty", ">", 0)>>),
            Sev("MEDIUM", <<Raise("expiry_status", "in", {"CRITICAL", "EXPIRED"}, "CRITICAL")>>)),
    RuleFor("LEAD_TIME_INCREASE", "LEAD_TIME_INCREASE", "pair", {},
            AllOf(<<Meets("lt_ratio", ">", 125), Meets("lt_obs_n", ">=", 8)>>), Sev("MEDIUM", <<Raise("lt_ratio", ">", 160, "HIGH")>>)),
    RuleFor("DEMAND_SPIKE", "DEMAND_SPIKE", "pair", {},
            AllOf(<<Meets("demand_ratio_4w", ">", 150), Meets("demand_z", ">", 200)>>),
            Sev("MEDIUM", <<Raise("demand_ratio_4w", ">", 250, "HIGH")>>)),
    RuleFor("DEMAND_DROP", "DEMAND_DROP", "pair", {},
            AllOf(<<Meets("demand_ratio_4w", "<", 50), Meets("demand_z", "<", -200)>>), Sev("LOW", <<>>)),
    RuleFor("ALLOCATION_CONFLICT", "ALLOCATION_CONFLICT", "pair", {},
            AnyOf(<<Meets("over_allocated", "==", TRUE), MeetsRef("unallocated_due_in_lt", ">", "available_pos")>>),
            Sev("MEDIUM", <<Raise("over_allocated", "==", TRUE, "HIGH")>>)),
    RuleFor("ECO_OLD_REVISION", "OBSOLESCENCE", "pair", {"AUTOMOTIVE"}, AllOf(<<Meets("eco_leftover_qty", ">", 0)>>),
            Sev("HIGH", <<>>)),
    RuleFor("EOL_RUNOUT", "OBSOLESCENCE", "pair", {"ELECTRONICS"}, AllOf(<<Meets("eol_exposure_value", ">", 0)>>),
            Sev("MEDIUM", <<Raise("eol_exposure_value", ">", 500000, "HIGH")>>))>>

DataRules ==
  <<RuleFor("INVENTORY_VARIANCE", "INVENTORY_VARIANCE", "recon", {},
            AllOf(<<Meets("variance_pct_abs", ">", 2), Meets("variance_value", ">", 5000),
                  Meets("recon_status", "in", {"VARIANCE", "MISSING_IN_ICT", "MISSING_IN_SOURCE", "NEGATIVE",
                                           "UNIT_MISMATCH", "DUPLICATE", "LOCATION_MISMATCH"})>>),
            Sev("MEDIUM", <<Raise("variance_pct_abs", ">", 10, "HIGH")>>)),
    RuleFor("CAPACITY_BREACH", "CAPACITY_BREACH", "location", {}, AllOf(<<Meets("utilization", ">", 95)>>),
            Sev("MEDIUM", <<Raise("utilization", ">", 105, "HIGH")>>)),
    RuleFor("QUALITY_HOLD", "QUALITY_HOLD", "lot", {},
            AllOf(<<Meets("quality_status", "in", {"QUARANTINE", "BLOCKED"}), Meets("hold_days", ">", 7)>>), Sev("MEDIUM", <<>>)),
    RuleFor("DATA_STALE", "DATA_STALE", "sync", {}, AllOf(<<Meets("age_ratio", ">", 100)>>),
            Sev("MEDIUM", <<Raise("age_ratio", ">", 300, "HIGH")>>))>>

SeedRules == StockRules \o SupplyRules \o DataRules
=============================================================================
