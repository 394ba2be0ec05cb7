----------------------------- MODULE MC_AutoSweep -----------------------------
EXTENDS AutoSweep

\* Four entries of the list: the create-token one and three ordinary ones
\* (deploy, faucet, remove liquidity), so that it can come first, last or
\* in between; two wallets, so that a second sweep starts afresh.
MC_Catalog == {1, 2, 4, 12}
MC_CreateId == 4
MC_MaxWallets == 2
=============================================================================
