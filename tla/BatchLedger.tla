------------------------------ MODULE BatchLedger ------------------------------
(***************************************************************************)
(* What a resumable batch promises, whatever processes run it and however  *)
(* often they die: every stock stays open until it gets one outcome, which *)
(* is final, and a verdict on the batch is one that its outcomes justify.  *)
(* BatchRun implements it with the statuses of checkpoint.json.            *)
(***************************************************************************)
EXTENDS Naturals

CONSTANT Stocks

Outcomes == {"COMPLETED", "COMPLETED_WITH_GAPS", "FAILED_TERMINAL", "BLOCKED"}

VARIABLES
  outcome,  \* of each stock: "open" or one of Outcomes
  verdict   \* "none" while work goes on

ledgerVars == <<outcome, verdict>>

\* The verdict that the outcomes of all stocks justify.
Justified ==
  LET seen == {outcome[s] : s \in Stocks} IN
  IF seen \subseteq {"COMPLETED"} THEN "PASS"
  ELSE IF seen \subseteq {"COMPLETED", "COMPLETED_WITH_GAPS"} THEN "PASS_WITH_GAPS"
  ELSE IF seen \cap {"FAILED_TERMINAL", "BLOCKED"} # {} THEN "FAILED_TERMINAL"
  ELSE "FAILED_RECOVERABLE"

LedgerInit ==
  /\ outcome = [s \in Stocks |-> "open"]
  /\ verdict = "none"

Settle(s) ==
  /\ verdict = "none"
  /\ outcome[s] = "open"
  /\ \E o \in Outcomes : outcome' = [outcome EXCEPT ![s] = o]
  /\ UNCHANGED verdict

Conclude == verdict = "none" /\ verdict' = Justified /\ UNCHANGED outcome

Reopen == verdict' = "none" /\ UNCHANGED outcome

LedgerNext == (\E s \in Stocks : Settle(s)) \/ Conclude \/ Reopen

LedgerSpec == LedgerInit /\ [][LedgerNext]_ledgerVars
=============================================================================
