-------------------------------- MODULE Doctor --------------------------------
(***************************************************************************)
(* The doctor (src/src/doctor.ts), which inspects a firewall configuration *)
(* for weaknesses, and the part of a budget contract that is decided by it *)
(* (src/src/contract.ts).  What the doctor says is compared with what the  *)
(* firewall does under the configuration: which operations it accepts and  *)
(* which enforced limits they meet.  Policy ids and messages are left out. *)
(***************************************************************************)
EXTENDS Naturals, FiniteSets

CONSTANTS
    Fields, Values, Undefined,
    PolicySets  \* the policies of a configuration; a match and a mode may be Undefined

\* policy.ts says when a policy is valid.
Rules == INSTANCE SpendPolicy
    WITH PolicyIds <- {}, Policy <- [p \in {} |-> Undefined], DayLength <- 1, MonthLength <- 1

ASSUME DoctorAssumption ==
    /\ "provider" \in Fields
    /\ Undefined \notin Values \cup Nat
    /\ \A policies \in PolicySets : \A policy \in policies : policy.groupBy \subseteq Fields

VARIABLES
    config,
    warningsAsErrors,  \* contract.doctorWarningsAsErrors
    findings,          \* the codes the doctor reported; {} before it ran
    contract           \* "none", "passed", "failed"

vars == <<config, warningsAsErrors, findings, contract>>

Init ==
    /\ config \in [policies : PolicySets,
                   requiredContext : SUBSET Fields,
                   unknownEstimate : {"allow", "deny"}]
    /\ warningsAsErrors \in BOOLEAN
    /\ findings = {}
    /\ contract = "none"

-----------------------------------------------------------------------------
Enforces(policy) == policy.mode # "observe"
Enforced == {policy \in config.policies : Enforces(policy)}

HasLimit(policy) == policy.limitUsd # Undefined \/ policy.limitCalls # Undefined

IsSomeFinancialCap(policy) == HasLimit(policy) /\ Enforces(policy)
IsGlobalFinancialCap(policy) == policy.match = Undefined /\ HasLimit(policy) /\ Enforces(policy)

UnguardedGroups == (UNION {policy.groupBy : policy \in config.policies}) \ config.requiredContext

\* sameMatchAndWindow; an omitted match and an empty one are the same here.
FieldsOf(match) == IF match = Undefined THEN [field \in {} |-> {}] ELSE match
SameMatchAndWindow(a, b) == FieldsOf(a.match) = FieldsOf(b.match) /\ a.window = b.window

Warnings == {"no-global-cap", "unknown-estimate-allowed", "group-context-not-required"}
Errors == {"invalid-config", "no-enforced-policy"}
Notes == {"no-operation-cap", "no-concurrency-cap", "no-call-count-cap", "rolling-windows",
          "observe-only-scopes"}

Finds(code) ==
    CASE code = "invalid-config" -> FALSE
      [] code = "no-enforced-policy" -> Enforced = {}
      [] code = "no-global-cap" -> ~\E policy \in Enforced : IsGlobalFinancialCap(policy)
      [] code = "unknown-estimate-allowed" -> config.unknownEstimate = "allow"
      [] code = "group-context-not-required" -> UnguardedGroups # {}
      [] code = "no-operation-cap" -> \A policy \in Enforced : policy.maxOperationUsd = Undefined
      [] code = "no-concurrency-cap" -> \A policy \in Enforced : policy.maxConcurrent = Undefined
      [] code = "no-call-count-cap" -> \A policy \in Enforced : policy.limitCalls = Undefined
      [] code = "rolling-windows" -> \E policy \in config.policies : policy.window.kind = "rolling"
      [] code = "observe-only-scopes" ->
            \E policy \in config.policies \ Enforced :
                ~\E other \in Enforced : SameMatchAndWindow(policy, other)

\* inspectFirewallConfig
Report ==
    LET found == {code \in Errors \cup Warnings \cup Notes : Finds(code)}
    IN  IF \E policy \in config.policies : ~Rules!ValidPolicy(policy) THEN {"invalid-config"}
        ELSE IF found = {} THEN {"clean"} ELSE found

Inspect ==
    /\ findings = {}
    /\ findings' = Report
    /\ UNCHANGED <<config, warningsAsErrors, contract>>

\* verifyBudgetContract, as far as the doctor decides it.
Verify ==
    /\ contract = "none" /\ findings # {}
    /\ contract' = IF \/ findings \cap Errors # {}
                      \/ warningsAsErrors /\ findings \cap Warnings # {}
                   THEN "failed" ELSE "passed"
    /\ UNCHANGED <<config, warningsAsErrors, findings>>

Next == Inspect \/ Verify

Spec == Init /\ [][Next]_vars

-----------------------------------------------------------------------------
\* The firewall's side: the contexts it accepts, where an operation always has a provider, and
\* the policies that apply to one.
AcceptedContexts ==
    {context \in [Fields -> Values \cup {Undefined}] :
        \A field \in config.requiredContext \cup {"provider"} : context[field] # Undefined}

Matches(policy, context) ==
    \A field \in DOMAIN FieldsOf(policy.match) : context[field] \in policy.match[field]

Caps(policy, context) == HasLimit(policy) /\ Enforces(policy) /\ Matches(policy, context)

\* A contract that passes with the doctor's warnings as errors leaves no gap: every operation
\* the firewall accepts has an estimate of its own and meets an enforced limit, and each budget
\* it counts in, grouped ones included, is one its context names (doctor.ts, contract.ts:75-86).
ContractLeavesNoGap ==
    contract = "passed" /\ warningsAsErrors =>
        /\ config.unknownEstimate = "deny"
        /\ \A context \in AcceptedContexts :
            /\ \E policy \in config.policies : Caps(policy, context)
            /\ \A policy \in config.policies :
                Matches(policy, context) => \A field \in policy.groupBy : context[field] # Undefined
=============================================================================
