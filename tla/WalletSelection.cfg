CONSTANTS
    MaxTotal <- MC_MaxTotal
    MaxParts <- MC_MaxParts
    MaxNum <- MC_MaxNum
SPECIFICATION Spec
INVARIANTS TypeOK IndicesSorted
PROPERTIES ImplementsParse
\* parse_wallet_selection returns or raises.
CHECK_DEADLOCK FALSE
