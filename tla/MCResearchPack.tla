--------------------------- MODULE MCResearchPack ---------------------------
(* Two reports, the first of which is corrected when the second comes out. *)
EXTENDS ResearchPack

Report(date, label, available) == [date |-> date, label |-> label, available |-> available]

MCDocs == {Report(1, "original", 1), Report(1, "corrected", 2), Report(2, "original", 2)}

Security(exchange, profile, inferred) ==
    [exchange |-> exchange, profile |-> profile, inferred |-> inferred]

MCSecurities == {Security("SH", 2, 0), Security("SH", 2, 2), Security("SZ", 0, 0),
                 Security("SZ", 0, 2), Security("BJ", 0, 0)}

Row(date, mode, primary, consolidated) ==
    [date |-> date, mode |-> mode, primary |-> primary, consolidated |-> consolidated]

MCRows == {Row(1, "OFFICIAL_DIRECT", TRUE, TRUE), Row(2, "OFFICIAL_DERIVED", FALSE, FALSE)}

Reading(exact, period, date, value) ==
    [exact |-> exact, period |-> period, date |-> date, value |-> value]

MCReadings ==
    {Reading({"group", "parent"}, {}, FALSE, "equal"), Reading({"parent"}, {}, FALSE, "near"),
     Reading({}, {"group"}, FALSE, "near"), Reading({}, {}, TRUE, "equal"),
     Reading({}, {}, FALSE, "equal"), Reading({"group"}, {}, FALSE, "no_official")}
=============================================================================
