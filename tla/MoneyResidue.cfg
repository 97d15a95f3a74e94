SPECIFICATION Spec
CONSTANTS
    Amounts <- TwoAmounts
    MaxTxns = 2
INVARIANTS
    ReversedLeavesNothing
CHECK_DEADLOCK FALSE
