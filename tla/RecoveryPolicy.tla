--------------------------- MODULE RecoveryPolicy ---------------------------
(***************************************************************************)
(* recovery_policy.py: what to do about a workflow run that has ended.     *)
(* A failure is a record of the run's conclusion, the kinds of its failed  *)
(* steps (the groups of markers the script looks for) and the summaries    *)
(* among its artifacts that report a failure.                              *)
(***************************************************************************)
EXTENDS Integers, Sequences, FiniteSetsExt

\* The workflows with rules of their own.
CodexTask == "Codex Task"
SecretAudit == "Devflow Secret Audit"
ProductGate == "Devflow Product Gate"
Consistency == "Devflow State Consistency"
PostMerge == "Devflow Post Merge"
RelayHealth == "Devflow Relay Health"

TERMINAL_INFRA_CONCLUSIONS == {"cancelled", "timed_out", "stale", "startup_failure"}
StepKinds == {"infra", "security", "codex", "merge", "other"}
Summaries == {"secret-audit", "scope-result", "preflight-missing", "preflight-invalid",
              "codex-blocked", "codex-terminal"}
NotifiedActions == {"INTERRUPTED", "HUMAN_REQUIRED", "SECURITY_BLOCKED"}
InfrastructureRetryLimit == 3

Rule(when, action, code) == [when |-> when, action |-> action, code |-> code]

SafetyRules(workflow, failure) ==
    <<Rule(failure.conclusion = "success" /\ workflow = PostMerge,
           "COMPLETED", "POST_MERGE_PASS"),
      Rule(failure.conclusion = "success", "NOOP", "SOURCE_PASS"),
      Rule(workflow = SecretAudit \/ "secret-audit" \in failure.found,
           "SECURITY_BLOCKED", "SECRET_AUDIT_FAILED"),
      Rule("scope-result" \in failure.found, "SECURITY_BLOCKED", "SCOPE_GUARD_FAILED"),
      Rule("preflight-missing" \in failure.found,
           "HUMAN_REQUIRED", "AGENT_RUNTIME_SECRETS_MISSING"),
      Rule("preflight-invalid" \in failure.found,
           "HUMAN_REQUIRED", "AGENT_RUNTIME_CONFIGURATION_INVALID"),
      Rule("codex-blocked" \in failure.found, "INTERRUPTED", "CODEX_BLOCKED_NO_RETRY"),
      Rule("codex-terminal" \in failure.found, "INTERRUPTED", "CODEX_TERMINAL_NO_RETRY"),
      Rule("security" \in failure.steps, "SECURITY_BLOCKED", "SECURITY_CONTROL_FAILED")>>

Transient(failure) ==
    failure.conclusion \in TERMINAL_INFRA_CONCLUSIONS \/ "infra" \in failure.steps

RecoveryRules(workflow, attempt, failure) ==
    <<Rule(workflow = CodexTask \/ "codex" \in failure.steps,
           "INTERRUPTED", "CODEX_SESSION_NO_AUTOMATIC_RETRY"),
      Rule(Transient(failure) /\ attempt < InfrastructureRetryLimit,
           "RETRY", "RETRYABLE_INFRASTRUCTURE"),
      Rule(Transient(failure), "INTERRUPTED", "INFRASTRUCTURE_RETRY_EXHAUSTED"),
      Rule(workflow = ProductGate /\ "merge" \in failure.steps,
           "HUMAN_REQUIRED", "AUTO_MERGE_BLOCKED"),
      Rule(workflow = Consistency,
           "INTERRUPTED", "STATE_CONSISTENCY_WEB_REPAIR_REQUIRED"),
      Rule(workflow = ProductGate, "INTERRUPTED", "PRODUCT_GATE_WEB_REPAIR_REQUIRED"),
      Rule(workflow = PostMerge, "INTERRUPTED", "POST_MERGE_WEB_REPAIR_REQUIRED"),
      Rule(workflow = RelayHealth, "HUMAN_REQUIRED", "RELAY_HEALTH_UNAVAILABLE"),
      Rule(TRUE, "INTERRUPTED", "UNCLASSIFIED_FAILURE")>>

\* The first rule that applies.
FirstOf(rules) == rules[Min({k \in DOMAIN rules : rules[k].when})]

\* Variant: a run whose budget is exhausted is left alone.
ClassifySilently(workflow, attempt, failure) ==
    LET decision == FirstOf(SafetyRules(workflow, failure)
                            \o RecoveryRules(workflow, attempt, failure))
    IN  IF decision.code = "INFRASTRUCTURE_RETRY_EXHAUSTED"
        THEN [decision EXCEPT !.action = "NOOP"]
        ELSE decision

\* Variant: one attempt more than the budget.
ClassifyLate(workflow, attempt, failure) ==
    FirstOf(SafetyRules(workflow, failure) \o RecoveryRules(workflow, attempt - 1, failure))

classify(workflow, attempt, failure) ==
    FirstOf(SafetyRules(workflow, failure) \o RecoveryRules(workflow, attempt, failure))

=============================================================================
