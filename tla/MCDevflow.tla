------------------------------ MODULE MCDevflow ------------------------------
\* Two tasks, one of each schema; at first one is closed, its completion acknowledged.
EXTENDS Devflow

State(schema, security) ==
    [schema |-> schema, status |-> "RUNNING", execution |-> "RUNNING", acceptance |-> "PENDING",
     security |-> security, postMerge |-> "PENDING", human |-> FALSE, stage |-> 6, last |-> 5,
     branch |-> "main", pullRequest |-> TRUE, generation |-> 0, lastType |-> Absent,
     acknowledged |-> FALSE]
Entry(task) == [task |-> task, path |-> task, status |-> "RUNNING", branch |-> "main", stage |-> 6]
Both == [state |-> [t \in {"v1", "v2"} |-> IF t = "v1" THEN State(1, Absent) ELSE State(2, "PASS")],
         files |-> [t \in {"v1", "v2"} |-> {"plan", "result"}],
         index |-> <<Entry("v1"), Entry("v2")>>]
MCTrees == {[finalize(Both, "v1", TRUE) EXCEPT !.state["v1"].acknowledged = TRUE]}

Failure(conclusion, steps) == [conclusion |-> conclusion, steps |-> steps, found |-> {}]
MCFailures ==
    ("Devflow State Consistency" :> {Failure("cancelled", {})})
    @@ ("Devflow Product Gate" :> {Failure("failure", {"security"})})
=============================================================================
