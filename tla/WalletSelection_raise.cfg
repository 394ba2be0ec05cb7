CONSTANTS
    MaxTotal <- MC_MaxTotal
    MaxParts <- MC_MaxParts
    MaxNum <- MC_MaxNum
SPECIFICATION Spec
INVARIANTS NeverRaises
\* parse_wallet_selection returns or raises.
CHECK_DEADLOCK FALSE
