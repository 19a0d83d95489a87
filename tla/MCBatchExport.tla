---------------------------- MODULE MCBatchExport ----------------------------
(* Two stocks, an industrial one and a bank; a package, its revision and a *)
(* broken one; sources with a conflict, a late revision and a hole.        *)
EXTENDS BatchExport

Line(exchange, name, quarterly) ==
    [batch |-> 1, exchange |-> exchange, security |-> [exchange |-> exchange, code |-> name],
     name |-> name, annual |-> 1, quarterly |-> quarterly, through |-> 5,
     required_available_at |-> TRUE, status |-> "PENDING"]
Package(quarterly, count) ==
    [kind |-> "zip", manifests |-> 1,
     manifest |-> [complete |-> TRUE, status |-> "READY", through |-> 5, batch_size |-> 2,
                   batch_count |-> 1, standard_request_count |-> count],
     batches |-> <<[copies |-> 1, rows |-> <<Line("SZSE", "plain", quarterly), Line("SSE", "bank", quarterly)>>]>>]
MCPackages == <<Package(1, 2), Package(2, 2), Package(1, 3)>>

Fact(date, key, family, available, value) ==
    [date |-> date, key |-> key, family |-> family, available |-> available, value |-> value]
Revenue(date, available, value) == Fact(date, "OPERATE_INCOME", "GINCOME", available, value)
Assets(date, available, value) == Fact(date, "TOTAL_ASSETS", "GBALANCE", available, value)

\* A year whose second quarter lacks the revenue, restated after the cutoff; and a
\* quarter with nothing but a conflict.
Year == {Revenue(1, 1, 10), Revenue(1, 6, 11), Assets(2, 2, 50), Revenue(3, 3, 40),
         Fact(3, "OPERATE_COST", "GINCOME", 3, 30), Fact(3, "OPERATE_INCOME", "GINCOMEQC", 3, 15),
         Revenue(4, 5, 60), Assets(4, 0, 70)}
Conflict == {Revenue(1, 1, 10), Revenue(1, 1, 12)}
MCSources == <<Year, Conflict>>
=============================================================================
