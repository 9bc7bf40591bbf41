SPECIFICATION Spec
CONSTANTS
    Fields = {"provider", "userId"}
    Values = {"a", "b"}
    Undefined = Undefined
    PolicySets <- AtMostTwo
CHECK_DEADLOCK FALSE
INVARIANTS
    ContractLeavesNoGap
