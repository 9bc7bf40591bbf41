---------------------------- MODULE DoctorProofs ----------------------------
(***************************************************************************)
(* What a passed budget contract says of the firewall, for any set of      *)
(* configurations.                                                         *)
(***************************************************************************)
EXTENDS Doctor, TLAPS

\* The doctor's findings are those of the configuration, and a contract passes on them only.
DoctorInv ==
    /\ config \in [policies : PolicySets, requiredContext : SUBSET Fields,
                   unknownEstimate : {"allow", "deny"}]
    /\ findings \in {{}, Report}
    /\ contract = "passed" =>
          /\ findings # {} /\ findings \cap Errors = {}
          /\ warningsAsErrors => findings \cap Warnings = {}

\* Reports depend on the configuration alone.
LEMMA DoctorInductive == DoctorInv /\ [Next]_vars => DoctorInv'
<1> SUFFICES ASSUME DoctorInv, [Next]_vars PROVE DoctorInv'
  OBVIOUS
<1>1. config' = config /\ warningsAsErrors' = warningsAsErrors
  BY DEF Next, Inspect, Verify, vars
<1>2. Report' = Report
  BY <1>1 DEF Report, Finds, Enforced, UnguardedGroups
<1>3. CASE Inspect
  BY <1>1, <1>2, <1>3 DEF Inspect, DoctorInv
<1>4. CASE Verify
  BY <1>1, <1>2, <1>4 DEF Verify, DoctorInv
<1>5. CASE UNCHANGED vars
  BY <1>1, <1>2, <1>5 DEF vars, DoctorInv
<1> QED
  BY <1>3, <1>4, <1>5 DEF Next

\* A code the doctor looks for and did not report is not there.
LEMMA ReportIsComplete ==
    ASSUME Report \cap Errors = {}, NEW code \in Errors \cup Warnings, code \notin Report
    PROVE  ~Finds(code)
<1> DEFINE found == {c \in Errors \cup Warnings \cup Notes : Finds(c)}
<1>1. ~\E policy \in config.policies : ~Rules!ValidPolicy(policy)
  <2>1. "invalid-config" \notin Report
    BY DEF Errors
  <2> QED
    BY <2>1 DEF Report
<1>2. Report = IF found = {} THEN {"clean"} ELSE found
  BY <1>1 DEF Report
<1>3. code \notin found
  BY <1>2
<1> QED
  BY <1>3

LEMMA NoGap == DoctorInv => ContractLeavesNoGap
<1> SUFFICES ASSUME DoctorInv, contract = "passed", warningsAsErrors
             PROVE  /\ config.unknownEstimate = "deny"
                    /\ \A context \in AcceptedContexts :
                        /\ \E policy \in config.policies : Caps(policy, context)
                        /\ \A policy \in config.policies :
                            Matches(policy, context) =>
                                \A field \in policy.groupBy : context[field] # Undefined
  BY DEF ContractLeavesNoGap
<1>1. findings = Report /\ Report \cap Errors = {} /\ Report \cap Warnings = {}
  BY DEF DoctorInv
<1>2. /\ ~Finds("no-global-cap")
      /\ ~Finds("unknown-estimate-allowed")
      /\ ~Finds("group-context-not-required")
  <2>1. \A code \in Warnings : ~Finds(code)
    BY <1>1, ReportIsComplete
  <2> QED
    BY <2>1 DEF Warnings
<1>3. config.unknownEstimate = "deny"
  BY <1>2 DEF DoctorInv, Finds
<1>4. PICK cap \in Enforced : IsGlobalFinancialCap(cap)
  BY <1>2 DEF Finds
<1>5. UnguardedGroups = {}
  BY <1>2 DEF Finds
<1>6. ASSUME NEW context \in AcceptedContexts
      PROVE  Caps(cap, context)
  BY <1>4 DEF Enforced, IsGlobalFinancialCap, Caps, Matches, FieldsOf
<1>7. ASSUME NEW context \in AcceptedContexts, NEW p \in config.policies, NEW field \in p.groupBy
      PROVE  context[field] # Undefined
  <2>2. field \in config.requiredContext
    BY <1>5 DEF UnguardedGroups
  <2> QED
    BY <2>2 DEF AcceptedContexts
<1>8. cap \in config.policies
  BY <1>4 DEF Enforced
<1> QED
  BY <1>3, <1>6, <1>7, <1>8

\* A contract that passes with the doctor's warnings as errors leaves no gap: every operation
\* the firewall accepts has an estimate and meets an enforced limit, in groups its context
\* names (doctor.ts, contract.ts verifyBudgetContract).
THEOREM PassedContractLeavesNoGap == Spec => []ContractLeavesNoGap
<1>1. Init => DoctorInv
  BY DEF Init, DoctorInv
<1>2. DoctorInv /\ [Next]_vars => DoctorInv'
  BY DoctorInductive
<1>3. DoctorInv => ContractLeavesNoGap
  BY NoGap
<1> QED
  BY <1>1, <1>2, <1>3, PTL DEF Spec
=============================================================================
