CONSTANTS
    p12 = p12
    p13 = p13
    p23 = p23
    Pairs <- MC_Pairs
    LpValues <- MC_LpValues
    MinWithdraw <- MC_MinWithdraw
SPECIFICATION Spec
INVARIANTS TypeOK WithdrawWithinPosition
PROPERTIES RemoveReturns
\* The recipe returns once it is done.
CHECK_DEADLOCK FALSE
