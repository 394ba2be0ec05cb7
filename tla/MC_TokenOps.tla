------------------------------ MODULE MC_TokenOps ------------------------------
EXTENDS TokenOps

\* Amounts in units of the burn amount (10 * 10**6): a mint of 1000 tokens
\* is many burns, here two, so a mint lifts a balance below the threshold
\* above it.  Four broadcasts let a grant, a mint and two burns be in flight.
MC_MintAmount == 2
MC_BurnAmount == 1
MC_MaxTx == 4
=============================================================================
