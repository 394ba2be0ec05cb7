CONSTANTS
    MaxTx <- MC_MaxTx
    MaxPolls <- MC_MaxPolls
    MaxEvict <- MC_MaxEvict
    Tokens <- MC_Tokens
SPECIFICATION Spec
INVARIANTS
    FreshNonce
    AllowanceBeforeSpend
PROPERTIES
    ApproveIdempotent
    ActivityTerminates
