---------------------------- MODULE FinanceTables ----------------------------
(***************************************************************************)
(* The financial tables of one stock for A-SCOPE (ascope_bridge/finance.py *)
(* with the selection and the windows of production_processor.py): from    *)
(* the facts of a run, a row for each year and a row for each quarter with *)
(* the values known at the cutoff, and a status and a gap for each field.  *)
(*                                                                         *)
(* Time is counted in quarters: a report date and the day on which a fact  *)
(* became available are numbers, and every fourth report is annual.  A     *)
(* fact is [date, key, family, available, value, record]; available is 0   *)
(* when unknown.  No caller passes disclosure dates.                       *)
(***************************************************************************)
EXTENDS Integers, Sequences, FiniteSets, FiniteSetsExt

NoValue == 1000000  \* None
NaN == 1000001      \* what pandas makes of None in a column that holds a number

Quarter(date) == ((date - 1) % 4) + 1
IsAnnual(date) == Quarter(date) = 4

-----------------------------------------------------------------------------
(* The fields and their sources.                                           *)

\* industrial: not applicable to banks, insurers and brokers.
Field(target, keys, semantics, quarterly, industrial) ==
    [target |-> target, keys |-> keys, semantics |-> semantics,
     quarterly |-> quarterly, industrial |-> industrial]
KeysOf(spec) == {spec.keys[i] : i \in DOMAIN spec.keys}

FIELD_SPECS == {
    Field("revenue", <<"OPERATE_INCOME", "TOTAL_OPERATE_INCOME">>, "flow", TRUE, FALSE),
    Field("operating_cost", <<"OPERATE_COST", "TOTAL_OPERATE_COST">>, "flow", TRUE, FALSE),
    Field("gross_profit", <<"GROSS_PROFIT">>, "flow", TRUE, TRUE),
    Field("deducted_net_profit",
          <<"DEDUCT_PARENT_NETPROFIT", "KCFJCXSYJLR", "DEDU_PARENT_PROFIT">>, "flow", TRUE, FALSE),
    Field("operating_cash_flow", <<"NETCASH_OPERATE">>, "flow", TRUE, FALSE),
    Field("accounts_receivable", <<"ACCOUNTS_RECE", "ACCOUNTS_RECEIVABLE">>, "point", TRUE, TRUE),
    Field("inventory", <<"INVENTORY">>, "point", TRUE, TRUE),
    Field("contract_liabilities",
          <<"CONTRACT_LIAB", "CONTRACT_LIABILITY", "CONTRACT_LIABILITIES">>, "point", TRUE, TRUE),
    Field("capex", <<"CONSTRUCT_LONG_ASSET">>, "flow", TRUE, TRUE),
    Field("interest_bearing_debt", <<"INTEREST_BEARING_DEBT">>, "point", TRUE, TRUE),
    Field("total_equity", <<"TOTAL_EQUITY", "TOTAL_EQUITY_PARENT">>, "point", TRUE, FALSE),
    Field("total_assets", <<"TOTAL_ASSETS">>, "point", TRUE, FALSE),
    Field("cash", <<"MONETARYFUNDS", "CASH_AND_DEPOSIT_CENTRAL_BANK">>, "point", TRUE, FALSE),
    Field("audit_opinion", <<"AUDIT_OPINION", "OPINION_TYPE", "AUDIT_RESULT">>, "text", FALSE, FALSE),
    Field("internal_control_opinion",
          <<"INTERNAL_CONTROL_OPINION", "INTERNAL_CONTROL_AUDIT_OPINION">>, "text", FALSE, FALSE)}

DEBT_COMPONENTS == {"SHORT_LOAN", "LONG_LOAN", "NONCURRENT_LIAB_1YEAR", "BOND_PAYABLE", "LEASE_LIAB"}

SpecOf(target) == CHOOSE spec \in FIELD_SPECS : spec.target = target
FLOW_TARGETS == {spec.target : spec \in {s \in FIELD_SPECS : s.semantics = "flow"}}

\* ALLOWED_FAMILIES_BY_KEY: the statement each key is taken from.  Nothing is
\* trusted for the internal-control opinion.
STANDALONE_FAMILIES == {"GINCOMEQC", "GCASHFLOWQC", "QTR_MAINFINADATA"}
Families(key) ==
    CASE key \in {"OPERATE_INCOME", "TOTAL_OPERATE_INCOME", "OPERATE_COST", "TOTAL_OPERATE_COST",
                  "DEDUCT_PARENT_NETPROFIT", "DEDU_PARENT_PROFIT"} -> {"GINCOME", "GINCOMEQC"}
      [] key = "KCFJCXSYJLR" -> {"MAINFINADATA", "QTR_MAINFINADATA"}
      [] key \in {"NETCASH_OPERATE", "CONSTRUCT_LONG_ASSET"} -> {"GCASHFLOW", "GCASHFLOWQC"}
      [] key \in KeysOf(SpecOf("audit_opinion")) -> {"GINCOME"}
      [] key \in DEBT_COMPONENTS \cup UNION {KeysOf(spec) : spec \in
                    {s \in FIELD_SPECS : s.semantics = "point"}} -> {"GBALANCE"}
      [] OTHER -> {}

FamilyPriority(family) == IF family \in {"MAINFINADATA", "QTR_MAINFINADATA"} THEN 80 ELSE 100

\* select_canonical_source_facts.
Canonical(facts) == {f \in facts : f.family \in Families(f.key) /\ f.value # NoValue}

\* Variant: what is unknown counts as known from the start.
CandidatesAnytime(facts, cutoff) ==
    {f \in Canonical(facts) : f.available <= cutoff}

\* _fact_candidates: what was known at the cutoff ...
Candidates(facts, cutoff) ==
    {f \in Canonical(facts) : f.available # 0 /\ f.available <= cutoff}

\* ... and the gaps of what was not.
Excluded(facts, cutoff) ==
    {[date |-> f.date, field |-> f.key,
      status |-> IF f.available = 0 THEN "SOURCE_MISSING" ELSE "FUTURE_EXCLUDED"] :
        f \in Canonical(facts) \ Candidates(facts, cutoff)}

-----------------------------------------------------------------------------
(* The cell of a field in a report.                                        *)

Cell(status, value, available) == [status |-> status, value |-> value, available |-> available]
EmptyCell(status) == Cell(status, NoValue, 0)

Rank(spec, key) == CHOOSE i \in DOMAIN spec.keys : spec.keys[i] = key
Preferred(spec, f, g) ==
    \/ f.available > g.available
    \/ f.available = g.available /\ FamilyPriority(f.family) > FamilyPriority(g.family)
    \/ /\ f.available = g.available /\ FamilyPriority(f.family) = FamilyPriority(g.family)
       /\ Rank(spec, f.key) < Rank(spec, g.key)

\* _select_direct: the latest revision; several values of equal rank are a conflict.
\* The canonical facts have a positive priority, so none is PARSE_SUSPECT.
Select(cands, spec, date, standalone) ==
    LET matched == {f \in cands : /\ f.date = date /\ f.key \in KeysOf(spec)
                                  /\ spec.semantics = "flow" =>
                                       (f.family \in STANDALONE_FAMILIES) = standalone}
        top == {f \in matched : \A g \in matched : ~Preferred(spec, g, f)}
    IN  IF matched = {} THEN EmptyCell("SOURCE_MISSING")
        ELSE IF \E f, g \in top : f.value # g.value THEN EmptyCell("CONFLICTING")
        ELSE LET f == CHOOSE g \in top : TRUE IN Cell("SOURCE_DIRECT", f.value, f.available)

Reported(date) == {spec.target : spec \in {s \in FIELD_SPECS : s.quarterly \/ IsAnnual(date)}}

\* Gross profit from revenue and cost; it carries the date of the revenue.
GrossProfit(cells) ==
    IF cells["revenue"].value # NoValue /\ cells["operating_cost"].value # NoValue
    THEN Cell("DERIVED", cells["revenue"].value - cells["operating_cost"].value,
              cells["revenue"].available)
    ELSE cells["gross_profit"]

\* Debt from its components, also when the reported debt is in conflict.
Debt(cands, date, cell) ==
    LET part(key) == Select(cands, [keys |-> <<key>>, semantics |-> "point"], date, FALSE)
        known == {key \in DEBT_COMPONENTS : part(key).status = "SOURCE_DIRECT"}
    IN  IF known = {} THEN cell
        ELSE Cell("DERIVED_PROXY", MapThenSumSet(LAMBDA key : part(key).value, known),
                  Max({part(key).available : key \in known}))

\* _direct_period_values: the cells as reported, the flows from the start of the year.
Reports(cands, date, financial) ==
    LET direct == [t \in Reported(date) |->
                     IF financial /\ SpecOf(t).industrial THEN EmptyCell("NOT_APPLICABLE")
                     ELSE Select(cands, SpecOf(t), date, FALSE)]
        missing(t) == ~financial /\ direct[t].value = NoValue
    IN  [t \in Reported(date) |->
           CASE t = "gross_profit" /\ missing(t) -> GrossProfit(direct)
             [] t = "interest_bearing_debt" /\ missing(t) -> Debt(cands, date, direct[t])
             [] OTHER -> direct[t]]

KnownOn(cells) == Max({0} \cup {cells[t].available : t \in DOMAIN cells})

-----------------------------------------------------------------------------
(* The quarters.                                                           *)

\* A cumulative flow less the one of the quarter before.  A None is NaN, and so
\* not None, when another report of the same field has a number.
Difference(cells, t, date) ==
    LET dates == DOMAIN cells
        seen(d) == IF cells[d][t].value # NoValue THEN cells[d][t].value
                   ELSE IF \E e \in dates : cells[e][t].value # NoValue THEN NaN ELSE NoValue
        cell == cells[date][t]
        Restated(status, value) ==
            IF cell.status \in {"NOT_APPLICABLE", "CONFLICTING"} THEN [cell EXCEPT !.value = value]
            ELSE [cell EXCEPT !.status = status, !.value = value]
    IN  IF Quarter(date) = 1 \/ seen(date) = NoValue THEN cell
        ELSE IF date - 1 \notin dates THEN Restated("SOURCE_MISSING", NoValue)
        ELSE IF seen(date - 1) = NoValue THEN Restated("SOURCE_MISSING", NoValue)
        ELSE IF seen(date) = NaN \/ seen(date - 1) = NaN THEN Restated("DERIVED", NaN)
        ELSE Restated("DERIVED", seen(date) - seen(date - 1))

\* _derive_standalone_quarters; a directly reported quarter replaces the difference.
Quarters(cands, cells, date) ==
    LET direct(t) == Select(cands, SpecOf(t), date, TRUE)
    IN  [t \in DOMAIN cells[date] |->
            CASE t \notin FLOW_TARGETS \ {"operating_cost"} -> cells[date][t]
              [] t \in FLOW_TARGETS \ {"operating_cost"} /\ direct(t).status = "SOURCE_DIRECT" -> direct(t)
              [] OTHER -> Difference(cells, t, date)]

-----------------------------------------------------------------------------
(* The tables.                                                             *)

ValuesOf(cells) == [t \in DOMAIN cells \ {"operating_cost"} |-> cells[t].value]
TableRow(cells, shown, date) ==
    [date |-> date, available |-> KnownOn(cells), values |-> ValuesOf(shown)]

ReportsOf(cands, financial) == [d \in {f.date : f \in cands} |-> Reports(cands, d, financial)]
QuartersOf(cands, cells) == [d \in DOMAIN cells |-> Quarters(cands, cells, d)]

\* The rows of scope_finance_export: request is [annual, quarterly, through].
AnnualTable(cells, request) ==
    {TableRow(cells[d], cells[d], d) :
       d \in {e \in DOMAIN cells : IsAnnual(e) /\ e \in request.annual..request.through}}
QuarterTable(cells, quarters, request) ==
    {TableRow(cells[d], quarters[d], d) :
       d \in {e \in DOMAIN cells : e \in request.quarterly..request.through}}

\* The gaps: of the facts left out, and of the fields that stayed empty.
GapTable(excluded, quarters, request) ==
    LET asked == {d \in 1..request.through :
                    (IsAnnual(d) /\ d >= request.annual) \/ d >= request.quarterly}
        statuses == UNION {{[date |-> d, field |-> t, status |-> quarters[d][t].status] :
                              t \in DOMAIN quarters[d]} : d \in DOMAIN quarters}
    IN  {gap \in excluded \cup {m \in statuses : m.status \in {"SOURCE_MISSING", "CONFLICTING"}} :
           gap.date \in asked}

\* build_financial_tables, with the windows of scope_finance_export.
Tables(facts, cutoff, request, financial) ==
    LET cands == Candidates(facts, cutoff)
        cells == ReportsOf(cands, financial)
        quarters == QuartersOf(cands, cells)
    IN  [annual |-> AnnualTable(cells, request),
         quarterly |-> QuarterTable(cells, quarters, request),
         gaps |-> GapTable(Excluded(facts, cutoff), quarters, request)]
=============================================================================
