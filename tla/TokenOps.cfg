CONSTANTS
    MintAmount <- MC_MintAmount
    BurnAmount <- MC_BurnAmount
    MaxTx <- MC_MaxTx
SPECIFICATION Spec
PROPERTIES RecipeReturns
