CONSTANTS
    MaxTx <- MC_MaxTx
    MaxPolls <- MC_MaxPolls
    MaxEvict <- MC_MaxEvict
    Tokens <- MC_Tokens
SPECIFICATION Spec
PROPERTIES
    NoncesConsecutive
